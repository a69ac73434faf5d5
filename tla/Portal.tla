-------------------------------- MODULE Portal --------------------------------
(***************************************************************************)
(* The two programs that grade, sign and publish: the web application      *)
(* (web/app.py), which stores a bundle and a badge per submission and      *)
(* lists the latest, and `confidior verify` (cli/main.py), which writes    *)
(* its files into an output directory that runs may share.  Either may be  *)
(* killed between two writes or in the middle of one.                      *)
(***************************************************************************)
EXTENDS RegoPolicy, EvidenceBundle, TLC

CONSTANTS
    Quotes,       \* [name, platform, level, crypto, debug_disabled]
    Modules,      \* the policies that may be in use
    NoFile,       \* no policy file
    Truncated,    \* a file whose writer was killed while it wrote
    UNSPECIFIED,
    Published,    \* roles with a published commitment
    Runs,         \* runs of `confidior verify` with one output directory
    OperatorKey,  \* the key of --key-path
    Anchors,      \* log entries a run may have been given, None among them
    Ttl,          \* ttl_days, on the clock of the model
    Shown,        \* how many evaluations the index lists (10)
    Horizon,      \* bound on the clock, in seconds
    MaxSigned     \* bound on the number of bundles signed

ASSUME HorizonAssumption == Horizon \in Nat

ASSUME ShownAssumption == Shown \in Nat

ASSUME MaxSignedAssumption == MaxSigned \in Nat

\* What is in progress is never mistaken for nothing.
ASSUME NoneAssumption ==
    None \notin [at : {"badge", "bundle", "list", "ended"}, nth : Nat]

VARIABLES
    second,       \* the clock, in the resolution of a bundle id
    static,       \* the web application's files: by bundle id, [badge, bundle]
    evaluations,  \* its list of submissions, latest first, in memory
    handler,      \* the submission in progress: None, or [at, nth]
    output,       \* the output directory: [badge, bundle]
    runs,         \* by run: None, or [at, nth]
    signed        \* all that was signed: a sequence of
                  \* [quote, verdict, bundle, badge]

vars == <<second, static, evaluations, handler, output, runs, signed>>

-----------------------------------------------------------------------------
\* What load_policy, evaluate and policy_conformance make of a policy file.
Judge(module, quote) ==
    LET policy     == LoadPolicy(module)
        evaluation == Evaluate(policy, quote)
    IN  CASE module = NoFile ->
               [policy |-> None, evaluation |-> None, conformance |-> None]
          [] module # NoFile /\ policy # PolicyError /\ evaluation # PolicyError ->
               [policy |-> policy, evaluation |-> evaluation,
                conformance |-> PolicyConformance(evaluation, policy)]
          [] OTHER -> PolicyError

Verdict == [module \in Modules \cup {NoFile} |->
               [quote \in Quotes |-> Judge(module, quote)]]

\* The assurance as it reaches the bundle; Grading says how it comes about.
Assurance(quote, conformance) ==
    [f \in Keys.assurance |->
        CASE f = "level" -> quote.level
          [] f = "score" -> [g \in Keys.score |->
                                CASE g = "policy_conformance" -> conformance
                                  [] g = "profile" -> "default"
                                  [] OTHER -> quote.name]
          [] f = "score_profile" -> "default"
          [] OTHER -> quote.name]

\* badge_dims: the rows that are read off the score.
BadgeDims(assurance) ==
    [split    |-> <<assurance.score.platform_score, assurance.score.quote_score>>,
     evidence |-> assurance.score.evidence_class,
     attacks  |-> assurance.score.scoring_attacks]

\* The web application adds the outcome of its own verification of the quote.
WebDimensions(quote, assurance) ==
    [measurement |-> IF quote.crypto = TRUE THEN "verified" ELSE "mismatch",
     debug       |-> IF quote.debug_disabled THEN "OFF" ELSE "ON"]
    @@ BadgeDims(assurance)

PolicyVersion(policy) ==
    IF policy = None THEN UNSPECIFIED ELSE PolicyHash(policy)

\* identity.derivation_references
Reference(role, id, hash, location, inline) ==
    [role |-> role, id |-> id, hash |-> hash, location |-> location,
     inline |-> inline]

CommittedReference(role) ==
    IF role \in Published
    THEN Reference(role, role, role, role, Blank)
    ELSE Reference(role, Blank, Blank, Blank, Blank)

DerivationReferences(policy, input) ==
    <<Reference("engine", "engine", "engine", Blank, Blank),
      Reference("schema", "1", "1", Blank, Blank),
      Reference("weights", "default", "default", Blank, Blank),
      CommittedReference("rubric"),
      CommittedReference("knowledge_base"),
      IF policy = None
      THEN Reference("policy", UNSPECIFIED, Blank, Blank, Blank)
      ELSE Reference("policy", Cardinality(DOMAIN policy.rules),
                     PolicyHash(policy), Blank, DOMAIN policy.rules),
      Reference("input", input, input, Blank, Blank)>>

CreateSignedBundle(quote, verdict, dimensions, input, now, key) ==
    LET assurance == Assurance(quote, verdict.conformance)
        Committed(role) == IF role \in Published THEN role ELSE Blank
    IN  SignBundle(
            [bundle_id              |-> now,
             timestamp              |-> now,
             expires_at             |-> now + Ttl,
             workload               |-> quote.name,
             platform               |-> quote.platform,
             engine_version         |-> "engine",
             schema_version         |-> "1",
             weight_profile         |-> "default",
             policy_version         |-> PolicyVersion(verdict.policy),
             rubric_version         |-> Committed("rubric"),
             knowledge_base_version |-> Committed("knowledge_base"),
             references             |-> DerivationReferences(verdict.policy, input),
             evidence_graph_summary |-> quote.name,
             policy_evaluation      |-> verdict.evaluation,
             assurance              |-> assurance,
             compliance_mappings    |-> <<>>,
             secret_release         |-> None,
             attack_db_snapshot     |-> "snapshot",
             dimensions             |-> dimensions,
             signatures             |-> <<>>],
            key)

\* The log entry is attached to the signature of a bundle that is signed.
Anchored(bundle, anchor) ==
    LET sig == bundle.signatures[1]
    IN  [bundle EXCEPT !.signatures =
            <<[key_id        |-> sig.key_id,
               algorithm     |-> sig.algorithm,
               signature_hex |-> sig.signature_hex,
               rekor_entry   |-> anchor]>>]

\* A signed bundle and the badge that is rendered for it.
Artifact(quote, verdict, bundle, dimensions) ==
    [quote   |-> quote,
     verdict |-> verdict,
     bundle  |-> bundle,
     badge   |-> BadgeSvg(bundle.assurance, bundle.bundle_id,
                          bundle.signatures[1].signature_hex, dimensions)]

\* run_submit: the dimensions that are signed are rendered; the raw quote is
\* not among the references.
Submission(quote, module, now, key) ==
    LET verdict    == Verdict[module][quote]
        dimensions == WebDimensions(quote, Assurance(quote, verdict.conformance))
        bundle     == CreateSignedBundle(quote, verdict, dimensions, Blank, now, key)
    IN  Artifact(quote, verdict, bundle, dimensions)

\* _cmd_verify: the badge is rendered from the bundle's dimensions; the raw
\* quote is among the references.  RekorAnchor says how a bundle comes by its
\* log entry.
Appraisal(quote, module, now, key, anchor) ==
    LET verdict    == Verdict[module][quote]
        dimensions == BadgeDims(Assurance(quote, verdict.conformance))
        bundle     == Anchored(CreateSignedBundle(quote, verdict, dimensions,
                                                  quote.name, now, key),
                               anchor)
    IN  Artifact(quote, verdict, bundle, bundle.dimensions)

Ids == 0 .. Horizon

\* All that the two programs can have signed in a second.
Judged == {x \in Quotes \X (Modules \cup {NoFile}) : Verdict[x[2]][x[1]] # PolicyError}

SignedAt(now) ==
    {Submission(x[1], x[2], now, k) : x \in Judged, k \in 1 .. MaxSigned}
    \cup
    {Appraisal(x[1], x[2], now, k, a) :
        x \in Judged, k \in 1 .. MaxSigned \cup {OperatorKey}, a \in Anchors}

\* An assurance, a signature or a hash is never mistaken for nothing.
ASSUME NothingAssumption ==
    \A now \in Ids : \A s \in SignedAt(now) :
        LET b   == s.bundle
            hex == b.signatures[1].signature_hex
        IN  /\ b.assurance # None
            /\ hex # Blank
            /\ BadgeCommitment(b.bundle_id, b.assurance.level, hex, b.dimensions) # None

\* A policy that loads has finitely many rules, and an outcome under it is not
\* mistaken for none.
ASSUME PoliciesAreFinite ==
    \A m \in Modules :
        LET policy == LoadPolicy(m)
        IN  policy # PolicyError => IsFiniteSet(DOMAIN policy.rules)

ASSUME OutcomesAreSomething ==
    \A x \in Judged :
        x[2] # NoFile =>
            LET v == Verdict[x[2]][x[1]]
            IN  v.evaluation # None /\ v.conformance # None

Bundles == [n \in DOMAIN signed |-> ToDict(signed[n].bundle)]

NoFiles == [badge |-> None, bundle |-> None]

-----------------------------------------------------------------------------
Init ==
    /\ second = 0
    /\ static = [i \in Ids |-> NoFiles]
    /\ evaluations = <<>>
    /\ handler = None
    /\ output = NoFiles
    /\ runs = [r \in Runs |-> None]
    /\ signed = <<>>

Tick ==
    /\ second < Horizon
    /\ second' = second + 1
    /\ UNCHANGED <<static, evaluations, handler, output, runs, signed>>

\* run_submit, up to the first file.  A quote that is not understood, and a
\* policy that does not load or evaluate, end the request with nothing done.
\* The handler does not yield from here on, so no other submission is served.
\* The policy file may have been edited since the last one.
Submit ==
    /\ handler = None
    /\ Len(signed) < MaxSigned
    /\ \E quote \in Quotes, module \in Modules \cup {NoFile} :
         /\ Verdict[module][quote] # PolicyError
         /\ signed' = Append(signed, Submission(quote, module, second, Len(signed) + 1))
    /\ handler' = [at |-> "badge", nth |-> Len(signed) + 1]
    /\ UNCHANGED <<second, static, evaluations, output, runs>>

\* Where the submission in progress keeps its files.
Slot == signed[handler.nth].bundle.bundle_id

WriteBadge ==
    /\ handler # None
    /\ handler.at = "badge"
    /\ static' = [static EXCEPT ![Slot] =
                    [badge |-> signed[handler.nth].badge, bundle |-> @.bundle]]
    /\ handler' = [at |-> "bundle", nth |-> handler.nth]
    /\ UNCHANGED <<second, evaluations, output, runs, signed>>

WriteBundle ==
    /\ handler # None
    /\ handler.at = "bundle"
    /\ static' = [static EXCEPT ![Slot] =
                    [badge |-> @.badge, bundle |-> Bundles[handler.nth]]]
    /\ handler' = [at |-> "list", nth |-> handler.nth]
    /\ UNCHANGED <<second, evaluations, output, runs, signed>>

\* evaluations.insert(0, eval_record), and the answer.
List ==
    /\ handler # None
    /\ handler.at = "list"
    /\ evaluations' = <<[id |-> Slot, nth |-> handler.nth]>> \o evaluations
    /\ handler' = None
    /\ UNCHANGED <<second, static, output, runs, signed>>

\* What a kill leaves of the files that are being written at this point.
Interrupted(files, at) ==
    CASE at = "badge"  -> {files, [badge |-> Truncated, bundle |-> files.bundle]}
      [] at = "bundle" -> {files, [badge |-> files.badge, bundle |-> Truncated]}
      [] OTHER         -> {files}

\* Mutated form of Restart: the list outlives the process.
RestartKeepingList ==
    /\ handler' = None
    /\ IF handler = None
       THEN static' = static
       ELSE \E files \in Interrupted(static[Slot], handler.at) :
              static' = [static EXCEPT ![Slot] = files]
    /\ UNCHANGED <<second, evaluations, output, runs, signed>>

\* The process is killed, or reloads its source, and is started again.
Restart ==
    /\ evaluations' = <<>>
    /\ handler' = None
    /\ IF handler = None
       THEN static' = static
       ELSE \E files \in Interrupted(static[Slot], handler.at) :
              static' = [static EXCEPT ![Slot] = files]
    /\ UNCHANGED <<second, output, runs, signed>>

-----------------------------------------------------------------------------
\* _cmd_verify, up to the first file.  The policy is an argument; the key is
\* the operator's or made for the run.
Appraise(r) ==
    /\ runs[r] = None
    /\ Len(signed) < MaxSigned
    /\ \E quote \in Quotes, module \in Modules, anchor \in Anchors,
          key \in {OperatorKey, Len(signed) + 1} :
         /\ Verdict[module][quote] # PolicyError
         /\ signed' = Append(signed, Appraisal(quote, module, second, key, anchor))
    /\ runs' = [runs EXCEPT ![r] = [at |-> "bundle", nth |-> Len(signed) + 1]]
    /\ UNCHANGED <<second, static, evaluations, handler, output>>

At(r, place) == runs[r] # None /\ runs[r].at = place

SaveBundle(r) ==
    /\ At(r, "bundle")
    /\ output' = [badge |-> output.badge, bundle |-> Bundles[runs[r].nth]]
    /\ runs' = [runs EXCEPT ![r] = [at |-> "badge", nth |-> runs[r].nth]]
    /\ UNCHANGED <<second, static, evaluations, handler, signed>>

SaveBadge(r) ==
    /\ At(r, "badge")
    /\ output' = [badge |-> signed[runs[r].nth].badge, bundle |-> output.bundle]
    /\ runs' = [runs EXCEPT ![r] = [at |-> "ended", nth |-> runs[r].nth]]
    /\ UNCHANGED <<second, static, evaluations, handler, signed>>

KillRun(r) ==
    /\ At(r, "bundle") \/ At(r, "badge")
    /\ output' \in Interrupted(output, runs[r].at)
    /\ runs' = [runs EXCEPT ![r] = [at |-> "ended", nth |-> runs[r].nth]]
    /\ UNCHANGED <<second, static, evaluations, handler, signed>>

Next ==
    \/ Tick
    \/ Submit
    \/ WriteBadge
    \/ WriteBundle
    \/ List
    \/ Restart
    \/ \E r \in Runs : Appraise(r) \/ SaveBundle(r) \/ SaveBadge(r) \/ KillRun(r)

Spec == Init /\ [][Next]_vars

-----------------------------------------------------------------------------
Folders == {static[i] : i \in Ids} \cup {output}

IsThere(content) == content # None /\ content # Truncated

\* The commitment that run_verify computes for the reader to compare.
ExpectedCommitment(b) ==
    IF b.signatures # <<>> /\ b.assurance # None
    THEN BadgeCommitment(b.bundle_id, b.assurance.level,
                         b.signatures[1].signature_hex, b.dimensions)
    ELSE Blank

\* run_verify.  What it answers for a bundle without a signature is never
\* computed: `expired` has no value on that branch.
VerifyPage(content) ==
    LET b == FromDict(content)
    IN  CASE ~IsThere(content) -> [error |-> "Invalid JSON file."]
          [] IsThere(content) /\ b.signatures = <<>> ->
                [error |-> "Internal Server Error"]
          [] OTHER ->
                [error               |-> None,
                 bundle              |-> b,
                 sig_state           |-> SignatureState(b),
                 expired             |-> b.expires_at < second,
                 expected_commitment |-> ExpectedCommitment(b)]

\* run_verify_badge, given a badge and a bundle file.
BadgePage(svg, content) ==
    LET b == FromDict(content)
    IN  CASE ~IsThere(svg) \/ svg.commitment = None ->
                [error |-> "Badge SVG missing commitment", match |-> None]
          [] IsThere(svg) /\ svg.commitment # None /\ ~IsThere(content) ->
                [error |-> "Failed to read bundle JSON", match |-> None]
          [] OTHER ->
                [error |-> None,
                 match |-> IF b.signatures = <<>> THEN None
                           ELSE VerifyBadge(svg, b.signatures[1].signature_hex)]

\* _cmd_verify_badge --badge-svg, given the signature of a bundle: it has no
\* reading mode.
VerifyBadgeExitCode(svg, signature_hex) ==
    IF /\ IsThere(svg)
       /\ svg.commitment # None
       /\ signature_hex # Blank
       /\ VerifyBadge(svg, signature_hex)
    THEN 0 ELSE 1

Listed == SubSeq(evaluations, 1, IF Len(evaluations) < Shown THEN Len(evaluations) ELSE Shown)

(* The list, the handler and the command-line runs refer to bundles that   *)
(* were signed, under ids whose files the application keeps (run_submit).  *)
TypeOK ==
    /\ second \in Ids
    /\ \A i \in Ids : DOMAIN static[i] = {"badge", "bundle"}
    /\ \A i \in DOMAIN evaluations :
         evaluations[i].id \in Ids /\ evaluations[i].nth \in DOMAIN signed
    /\ handler # None =>
         handler.at \in {"badge", "bundle", "list"} /\ handler.nth \in DOMAIN signed
    /\ DOMAIN static = Ids /\ DOMAIN runs = Runs
    /\ \A r \in Runs :
         runs[r] # None =>
           runs[r].at \in {"bundle", "badge", "ended"} /\ runs[r].nth \in DOMAIN signed

\* Every bundle file that is whole verifies against its own signature once it
\* has been loaded again, whatever the policy found and whoever wrote it
\* (docs/TRUST-MODEL.md, "every bundle the CLI and web UI write now verifies
\* against its own signature"; serialize_bundle_for_signing, from_dict).
StoredBundleVerifies ==
    \A folder \in Folders :
        IsThere(folder.bundle) => VerifyPage(folder.bundle).sig_state = "valid"

\* A badge and a bundle that lie about are called a match exactly if they were
\* made together: the commitment that run_verify shows, run_verify_badge and
\* `confidior verify-badge` agree, also when same-second submissions, kills
\* and concurrent runs have left the files of different ones (docs/TRUST-
\* MODEL.md, "The badge is tied to the bundle"; compute_badge_commitment).
BadgeBindsItsBundle ==
    \A f, g \in Folders :
        IsThere(f.badge) /\ IsThere(g.bundle) =>
            LET page == VerifyPage(g.bundle)
                hex  == page.bundle.signatures[1].signature_hex
                together == \E n \in DOMAIN signed :
                              f.badge = signed[n].badge /\ g.bundle = Bundles[n]
            IN  /\ (page.expected_commitment = f.badge.commitment) <=> together
                /\ (BadgePage(f.badge, g.bundle).match = TRUE) <=> together
                /\ (VerifyBadgeExitCode(f.badge, hex) = 0) <=> together

\* An evaluation on the index leads to a whole badge and a whole bundle, its
\* own or those of a later submission that got the same id: the files are
\* written before the record is inserted, and the list is lost with the
\* process that may have left a file half written (run_submit, index).
ListedEvaluationIsServed ==
    \A i \in DOMAIN Listed :
        LET e == Listed[i]
            Successors == {n \in DOMAIN signed :
                             n >= e.nth /\ signed[n].bundle.bundle_id = e.id}
        IN  /\ \E n \in Successors : static[e.id].badge = signed[n].badge
            /\ \E n \in Successors : static[e.id].bundle = Bundles[n]

\* The decision and the conformance of a stored bundle, computed by two
\* functions from the same outcomes, agree: ALLOW is full conformance, DENY is
\* a failed share, and nothing is lost between the three shares (evaluate,
\* policy_conformance).
DecisionMatchesConformance ==
    \A folder \in Folders :
        IsThere(folder.bundle) =>
            LET b == FromDict(folder.bundle)
                p == b.policy_evaluation
                c == b.assurance.score.policy_conformance
            IN  /\ p = None <=> c = None
                /\ p # None =>
                     /\ p.decision = "ALLOW" <=> c.satisfied = c.total
                     /\ p.decision = "DENY" <=> c.failed > 0
                     /\ c.satisfied + c.failed + c.not_evaluated = c.total

\* Two verdicts on one quote that name the same policy version were reached by
\* the same rules and do not differ (identity.py policy_hash: "so a policy
\* edited after the run cannot be passed off as the one behind the verdict").
PolicyVersionNamesThePolicy ==
    \A m, n \in DOMAIN signed :
        signed[m].quote = signed[n].quote
          /\ signed[m].bundle.policy_version = signed[n].bundle.policy_version
        => signed[m].bundle.policy_evaluation = signed[n].bundle.policy_evaluation
=============================================================================
