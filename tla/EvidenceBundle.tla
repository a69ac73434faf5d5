---------------------------- MODULE EvidenceBundle ----------------------------
(***************************************************************************)
(* The signed bundle (core/taxonomy.py, export/dsse.py) and the badge that *)
(* refers to it (export/badge.py).  Objects and JSON documents are         *)
(* functions from field names; what a field holds matters only as far as   *)
(* it differs from the default that a missing key is read as.              *)
(***************************************************************************)
EXTENDS Sequences, Functions

CONSTANTS
    None,
    Blank       \* the empty string

-----------------------------------------------------------------------------
\* EvidenceBundle.to_dict: the keys it writes, section by section.
Keys ==
    [bundle |->
        {"bundle_id", "timestamp", "expires_at", "workload", "platform",
         "engine_version", "schema_version", "weight_profile",
         "policy_version", "rubric_version", "knowledge_base_version",
         "references", "evidence_graph_summary", "policy_evaluation",
         "assurance", "compliance_mappings", "secret_release",
         "attack_db_snapshot", "dimensions", "signatures"},
     policy_evaluation |->
        {"decision", "rules_passed", "rules_failed", "rules_not_evaluated",
         "findings"},
     assurance |->
        {"level", "residual_risk", "boundary_statement", "label",
         "temporal_freshness", "dimensions", "score", "score_profile",
         "threat_model", "threat_scope", "boundary_constraints"},
     score |->
        {"total", "subscores", "grade", "profile", "platform_score",
         "quote_score", "evidence_class", "scoring_attacks",
         "platform_count", "platforms_bound", "policy_conformance",
         "threat_cap"},
     signature |->
        {"key_id", "algorithm", "signature_hex", "rekor_entry"},
     rekor_entry |->
        {"log_index", "log_id", "entry_uuid", "integrated_time"}]

Write(section, object) == Restrict(object, Keys[section])

Optional(section, object) ==
    IF object = None THEN None ELSE Write(section, object)

ReferenceDict(r) ==
    Restrict(r, {"role", "id"} \cup
                {k \in {"hash", "location", "inline"} : r[k] # Blank})

RekorEntryDict(e) ==
    CASE e = None -> None
      [] e # None /\ (e.inclusion_proof # <<>> \/ e.checkpoint # Blank) ->
            Restrict(e, Keys.rekor_entry
                        \cup {"body", "inclusion_proof", "checkpoint"})
      [] OTHER -> Write("rekor_entry", e)

SignatureDict(s) ==
    [Write("signature", s) EXCEPT !.rekor_entry = RekorEntryDict(@)]

AssuranceDict(a) ==
    IF a = None THEN None
    ELSE [Write("assurance", a) EXCEPT !.score = Optional("score", @)]

ToDict(b) ==
    [Write("bundle", b) EXCEPT
        !.references        = [i \in DOMAIN @ |-> ReferenceDict(@[i])],
        !.policy_evaluation = Optional("policy_evaluation", @),
        !.assurance         = AssuranceDict(@),
        !.signatures        = [i \in DOMAIN @ |-> SignatureDict(@[i])]]

-----------------------------------------------------------------------------
\* EvidenceBundle.from_dict: the keys it cannot do without, and what it reads
\* for those that are missing.
Required ==
    [bundle            |-> {"bundle_id", "timestamp", "expires_at", "workload"},
     policy_evaluation |-> {"decision"},
     assurance         |-> {"level", "residual_risk", "boundary_statement"},
     score             |-> {"total"},
     reference         |-> {"role"},
     signature         |-> {"key_id", "algorithm", "signature_hex"},
     rekor_entry       |-> {"log_index", "log_id", "entry_uuid",
                            "integrated_time"}]

Default ==
    [bundle |->
        [platform |-> Blank, evidence_graph_summary |-> <<>>,
         policy_evaluation |-> None, assurance |-> None,
         compliance_mappings |-> <<>>, secret_release |-> None,
         attack_db_snapshot |-> None, dimensions |-> <<>>,
         engine_version |-> Blank, schema_version |-> Blank,
         weight_profile |-> Blank, policy_version |-> Blank,
         rubric_version |-> Blank, knowledge_base_version |-> Blank,
         references |-> <<>>, signatures |-> <<>>],
     policy_evaluation |->
        [rules_passed |-> {}, rules_failed |-> {}, rules_not_evaluated |-> {},
         findings |-> <<>>],
     assurance |->
        [label |-> Blank, temporal_freshness |-> None, dimensions |-> <<>>,
         score |-> None, score_profile |-> "default", threat_model |-> Blank,
         threat_scope |-> <<>>, boundary_constraints |-> <<>>],
     score |->
        [subscores |-> <<>>, grade |-> Blank, profile |-> "default",
         platform_score |-> None, quote_score |-> None,
         evidence_class |-> None, scoring_attacks |-> <<>>,
         platform_count |-> 0, platforms_bound |-> FALSE,
         threat_cap |-> None, policy_conformance |-> None],
     reference |->
        [id |-> Blank, hash |-> Blank, location |-> Blank, inline |-> Blank],
     signature |-> [rekor_entry |-> None],
     rekor_entry |->
        [body |-> Blank, inclusion_proof |-> <<>>, checkpoint |-> Blank]]

\* Mutated form of Read: the split of the score is not read back.
ReadWithoutSplit(section, document) ==
    [k \in Required[section] \cup DOMAIN Default[section] |->
        IF k \in DOMAIN document \ {"platform_score", "quote_score"}
        THEN document[k] ELSE Default[section][k]]

Read(section, document) ==
    [k \in Required[section] \cup DOMAIN Default[section] |->
        IF k \in DOMAIN document THEN document[k] ELSE Default[section][k]]

OptionalRead(section, document) ==
    IF document = None THEN None ELSE Read(section, document)

SignatureFrom(d) ==
    [Read("signature", d) EXCEPT !.rekor_entry = OptionalRead("rekor_entry", @)]

AssuranceFrom(d) ==
    IF d = None THEN None
    ELSE [Read("assurance", d) EXCEPT !.score = OptionalRead("score", @)]

FromDict(d) ==
    [Read("bundle", d) EXCEPT
        !.references        = [i \in DOMAIN @ |-> Read("reference", @[i])],
        !.policy_evaluation = OptionalRead("policy_evaluation", @),
        !.assurance         = AssuranceFrom(@),
        !.signatures        = [i \in DOMAIN @ |-> SignatureFrom(@[i])]]

-----------------------------------------------------------------------------
\* serialize_bundle_for_signing; JSON with sorted keys is the document itself.
Serialize(b) == ToDict(b)

\* A signature is the key and the bytes it was made over.
SignBundle(b, key) ==
    [b EXCEPT !.signatures =
        Append(@, [key_id        |-> key,
                   algorithm     |-> "Ed25519",
                   signature_hex |-> [key |-> key, payload |-> Serialize(b)],
                   rekor_entry   |-> None])]

\* The outcome of verifying the first signature, over the bundle without any.
SignatureState(b) ==
    LET sig == b.signatures[1]
        payload == Serialize([b EXCEPT !.signatures = <<>>])
    IN  CASE b.signatures = <<>> -> "missing"
          [] b.signatures # <<>> /\
             sig.signature_hex = [key |-> sig.key_id, payload |-> payload] ->
                "valid"
          [] OTHER -> "invalid"

-----------------------------------------------------------------------------
\* Mutated form of BadgeCommitment: the signature is left out.
BadgeCommitmentOfVerdict(bundle_id, level, signature_hex, dimensions) ==
    <<bundle_id, level, dimensions>>

\* compute_badge_commitment.  The hash is taken to tell its inputs apart.
BadgeCommitment(bundle_id, level, signature_hex, dimensions) ==
    <<bundle_id, level, signature_hex, dimensions>>

\* The data attributes of generate_badge_svg; without a signature it has no
\* commitment, id or level.
BadgeSvg(assurance, bundle_id, signature_hex, dimensions) ==
    IF signature_hex = Blank
    THEN [commitment |-> None, dimensions |-> dimensions]
    ELSE [commitment |-> BadgeCommitment(bundle_id, assurance.level,
                                         signature_hex, dimensions),
          bundle_id  |-> bundle_id,
          level      |-> assurance.level,
          dimensions |-> dimensions]

VerifyBadge(svg, signature_hex) ==
    svg.commitment = BadgeCommitment(svg.bundle_id, svg.level, signature_hex,
                                     svg.dimensions)
=============================================================================
