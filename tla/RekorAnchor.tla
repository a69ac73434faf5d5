----------------------------- MODULE RekorAnchor -----------------------------
(***************************************************************************)
(* Anchoring a signed bundle in the Rekor transparency log.  A run of      *)
(* `verify` signs its bundle, posts the digest of the signed payload,      *)
(* attaches what the log answers and a checkpoint it fetches separately,   *)
(* saves the bundle and reports whether the anchor verifies.               *)
(*                                                                         *)
(* The log is external: it appends entries, signs a head now and then, and *)
(* answers late, incompletely, with another entry's proof, or not at all.  *)
(***************************************************************************)
EXTENDS AnchorCheck

CONSTANTS
    Runs,        \* the runs of `verify`; each makes one bundle
    Foreign,     \* a digest somebody else anchors
    TrustRoots,  \* whether the trust root names the log's key: subset of BOOLEAN
    MaxLog       \* bound on the log

ASSUME MaxLogIsNat == MaxLog \in Nat
ASSUME ForeignIsForeign == Foreign \notin Runs \X Nat
ASSUME NoneIsNoVerdict == None # "verified"

VARIABLES
    log,        \* the digests in the log, in order
    head,       \* the size of the tree the log signed last
    trusts,     \* the verifier's trust root names the log's key
    wire,       \* by run: the submission is "unsent", "sent" or "integrated"
    phase,      \* by run
    bundle,     \* by run: [id, signatures, anchor]
    file,       \* by run: the bundle on disk, or None
    report      \* by run: the phrase printed about the anchor, or None

vars == <<log, head, trusts, wire, phase, bundle, file, report>>

-----------------------------------------------------------------------------
\* A digest names the bundle and how many signatures the bytes include.
Digest(b) == <<b.id, b.signatures>>

\* Mutated form of AnchoredPayload: the bundle as it is after signing.
PayloadWithSignature(b) == Digest(b)

\* _serialize_signed_payload empties the signatures again.
AnchoredPayload(b) == Digest([b EXCEPT !.signatures = 0])

\* Mutated form of Written: the body is not part of the bundle's schema.
WrittenWithoutBody(b) ==
    IF b.anchor = None THEN b ELSE [b EXCEPT !.anchor.body = None]

\* to_dict: the body goes out only with a proof or a checkpoint.
Written(b) ==
    IF b.anchor # None /\ b.anchor.proof = None /\ b.anchor.checkpoint = None
    THEN [b EXCEPT !.anchor.body = None] ELSE b

-----------------------------------------------------------------------------
Init ==
    /\ log = <<>>
    /\ head = 0
    /\ trusts \in TrustRoots
    /\ wire = [r \in Runs |-> "unsent"]
    /\ phase = [r \in Runs |-> "built"]
    /\ bundle = [r \in Runs |-> [id |-> r, signatures |-> 0, anchor |-> None]]
    /\ file = [r \in Runs |-> None]
    /\ report = [r \in Runs |-> None]

\* The external log.

ForeignEntry ==
    /\ Len(log) < MaxLog
    /\ log' = Append(log, Foreign)
    /\ UNCHANGED <<head, trusts, wire, phase, bundle, file, report>>

\* A request may be integrated after the run gave up on it, or was killed.
Integrate(r) ==
    /\ wire[r] = "sent"
    /\ Len(log) < MaxLog
    /\ log' = Append(log, AnchoredPayload(bundle[r]))
    /\ wire' = [wire EXCEPT ![r] = "integrated"]
    /\ UNCHANGED <<head, trusts, phase, bundle, file, report>>

Publish ==
    /\ head < Len(log)
    /\ head' = Len(log)
    /\ UNCHANGED <<log, trusts, wire, phase, bundle, file, report>>

-----------------------------------------------------------------------------
(* A run of `verify`.                                                      *)

Sign(r) ==
    /\ phase[r] = "built"
    /\ bundle' = [bundle EXCEPT ![r].signatures = 1]
    /\ phase' = [phase EXCEPT ![r] = "signed"]
    /\ UNCHANGED <<log, head, trusts, wire, file, report>>

Submit(r) ==
    /\ phase[r] = "signed"
    /\ wire' = [wire EXCEPT ![r] = "sent"]
    /\ phase' = [phase EXCEPT ![r] = "posted"]
    /\ UNCHANGED <<log, head, trusts, bundle, file, report>>

\* Mutated form of GiveUp: a refused request is noticed, a lost answer is not.
GiveUpIfRefused(r) ==
    /\ phase[r] = "posted" /\ wire[r] = "sent"
    /\ phase' = [phase EXCEPT ![r] = "ready"]
    /\ UNCHANGED <<log, head, trusts, wire, bundle, file, report>>

\* RekorError: no URL, a refused or timed out submission, an answer that does not
\* parse.  The bundle stays as it is, signed and not anchored.
GiveUp(r) ==
    /\ phase[r] \in {"signed", "posted"}
    /\ phase' = [phase EXCEPT ![r] = "ready"]
    /\ UNCHANGED <<log, head, trusts, wire, bundle, file, report>>

\* The answer arrives; the checkpoint is fetched after it.
Receive(r, answer) ==
    /\ phase[r] = "posted"
    /\ wire[r] = "integrated"
    /\ phase' = [phase EXCEPT ![r] = "answered"]
    /\ bundle' = [bundle EXCEPT ![r].anchor =
                     [index |-> answer.index, body |-> answer.body,
                      proof |-> answer.proof, checkpoint |-> None]]
    /\ UNCHANGED <<log, head, trusts, wire, file, report>>

\* An answer that is empty, or names no index or time: the StopIteration or the
\* KeyError is no RekorError, nothing catches it, and the bundle is not saved.
AnswerRaises(r) ==
    /\ phase[r] = "posted"
    /\ wire[r] = "integrated"
    /\ phase' = [phase EXCEPT ![r] = "raised"]
    /\ UNCHANGED <<log, head, trusts, wire, bundle, file, report>>

FetchCheckpoint(r, checkpoint) ==
    /\ phase[r] = "answered"
    /\ bundle' = [bundle EXCEPT ![r].anchor.checkpoint = checkpoint]
    /\ phase' = [phase EXCEPT ![r] = "ready"]
    /\ UNCHANGED <<log, head, trusts, wire, file, report>>

Save(r) ==
    /\ phase[r] = "ready"
    /\ file' = [file EXCEPT ![r] = Written(bundle[r])]
    /\ phase' = [phase EXCEPT ![r] = "saved"]
    /\ UNCHANGED <<log, head, trusts, wire, bundle, report>>

Report(r) ==
    /\ phase[r] = "saved"
    /\ report' = [report EXCEPT ![r] =
                     IF bundle[r].anchor = None THEN None
                     ELSE AnchorState(bundle[r].anchor, trusts)]
    /\ phase' = [phase EXCEPT ![r] = "done"]
    /\ UNCHANGED <<log, head, trusts, wire, bundle, file>>

Killed(r) ==
    /\ phase[r] \notin {"done", "raised", "killed"}
    /\ phase' = [phase EXCEPT ![r] = "killed"]
    /\ UNCHANGED <<log, head, trusts, wire, bundle, file, report>>

-----------------------------------------------------------------------------
OwnStep(r) ==
    \/ Sign(r)
    \/ Submit(r)
    \/ GiveUp(r)
    \/ \E c \in Checkpoints(head) : FetchCheckpoint(r, c)
    \/ Save(r)
    \/ Report(r)

Next ==
    \/ ForeignEntry
    \/ Publish
    \/ \E r \in Runs : Integrate(r) \/ AnswerRaises(r) \/ OwnStep(r) \/ Killed(r)
    \/ \E r \in Runs, i \in DOMAIN log :
          /\ log[i] = AnchoredPayload(bundle[r])
          /\ \E a \in Answers(log, i) : Receive(r, a)

Spec == Init /\ [][Next]_vars

\* A run takes its own steps as long as it lives, and every request it makes
\* has a timeout; the log owes it nothing, an answer least of all.
FairSpec == Spec /\ \A r \in Runs : WF_vars(OwnStep(r))

-----------------------------------------------------------------------------
Anchored(r) == bundle[r].anchor # None

\* The anchors reported as verified.
Verified == {bundle[r].anchor : r \in {q \in Runs : report[q] = "verified"}}

(* The log only grows under a signed head; a run past the wire holds a     *)
(* signed bundle (anchor_to_rekor).                                        *)
TypeOK ==
    /\ Len(log) \in 0 .. MaxLog
    /\ head \in 0 .. Len(log)
    /\ trusts \in TrustRoots
    /\ wire \in [Runs -> {"unsent", "sent", "integrated"}]
    /\ phase \in [Runs -> {"built", "signed", "posted", "answered", "ready",
                           "saved", "done", "raised", "killed"}]
    /\ \A r \in Runs :
          /\ bundle[r].id = r
          /\ phase[r] \notin {"built", "killed"} => bundle[r].signatures = 1
          /\ wire[r] # "unsent" => bundle[r].signatures = 1

(* An anchor, in memory or on disk, is of the bundle that carries it: the  *)
(* log holds at its index the digest of the very bytes that were signed,   *)
(* however late the log integrated the entry and however many others it    *)
(* took in between (anchor_to_rekor, _serialize_signed_payload).           *)
AnchorCoversSignedBytes ==
    \A r \in Runs :
        Anchored(r) =>
            /\ bundle[r].anchor.index + 1 \in DOMAIN log
            /\ log[bundle[r].anchor.index + 1] = <<r, 0>>
            /\ file[r] # None => file[r].anchor.index = bundle[r].anchor.index

(* "verified" is never a missing half read as a success: it takes a body   *)
(* and a proof, which places it in the log, a checkpoint that is an intact *)
(* note, and a trust root that knows the log's key.  A proof whose stated  *)
(* root does not decode is left out of the second half: it can pass where  *)
(* nothing was rebuilt (_anchor_state, verify_inclusion_proof).            *)
VerifiedHasBothHalves ==
    \A a \in Verified :
        /\ trusts
        /\ a.checkpoint \notin {None, Malformed}
        /\ a.checkpoint.intact
        /\ a.body # None
        /\ Legible(a.proof)
        /\ a.proof.root # None =>
              /\ a.proof.index + 1 \in DOMAIN log
              /\ log[a.proof.index + 1] = a.body

(* When the stated root decodes and the checkpoint is no older than the    *)
(* proof, the tree the log signed has the entry where the proof says it is *)
(* (_anchor_state).                                                        *)
CoveringCheckpointProves ==
    \A a \in Verified :
        a.proof.root # None /\ a.checkpoint.size >= Len(a.proof.root) =>
            \E i \in 1 .. a.checkpoint.size : i = a.proof.index + 1 /\ log[i] = a.body

(* Reading the saved bundle back, a third party reaches the verdict the    *)
(* run printed (EvidenceBundle.to_dict / from_dict, _anchor_state).        *)
AnchorSurvivesSaving ==
    \A r \in Runs :
        phase[r] = "done" /\ Anchored(r)
            => AnchorState(file[r].anchor, trusts) = report[r]

(* A run that is not killed saves its bundle and reports, whether or not   *)
(* the log ever answers; only an answer that lacks what the code indexes   *)
(* ends it in a traceback (anchor_to_rekor fails soft on a RekorError).    *)
EveryRunReports == \A r \in Runs : <>(phase[r] \in {"done", "raised", "killed"})
=============================================================================
