-------------------------- MODULE RekorAnchor_proofs --------------------------
(***************************************************************************)
(* Proofs about RekorAnchor, for any number of runs and a log of any size. *)
(* The argument: the log is append-only, so what was true of an entry's    *)
(* position when the log answered stays true (AnchorInv); a bundle does    *)
(* not change once it is saved (FileInv, ReportInv).                       *)
(***************************************************************************)
EXTENDS RekorAnchor, SequenceTheorems, TLAPS

Entries == {Foreign} \cup (Runs \X Nat)

Proofs ==
    [index : Nat, path : {None} \cup Seq(Entries), root : {None} \cup Seq(Entries)]

Notes == [size : Nat, intact : BOOLEAN]

Anchors == [index : Nat, body : {None} \cup Entries, proof : {None, Malformed} \cup Proofs,
            checkpoint : {None, Malformed} \cup Notes]

\* The bundle of a run, with nothing said yet about its anchor's truth.
Bundles(r) == [id : {r}, signatures : {0, 1}, anchor : {None} \cup Anchors]

LogInv == log \in Seq(Entries)

BundleInv ==
    /\ DOMAIN bundle = Runs
    /\ \A r \in Runs : bundle[r] \in Bundles(r)
    /\ \A r \in Runs : phase[r] = "answered" => bundle[r].anchor \in Anchors

Prefix(s, t) == Len(s) <= Len(t) /\ \A i \in 1 .. Len(s) : s[i] = t[i]

\* What an anchor says is so, of a log that has grown since.
Truthful(r, a, l) ==
    /\ a.index + 1 \in 1 .. Len(l)
    /\ l[a.index + 1] = <<r, 0>>
    /\ Legible(a.proof) => /\ a.proof \in Proofs
                           /\ a.proof.root # None => Prefix(a.proof.root, l)

\* Nothing says that None is no anchor, so a run that has an answer is named too.
Answered(r) == Anchored(r) \/ phase[r] = "answered"

AnchorInv == \A r \in Runs : Answered(r) => Truthful(r, bundle[r].anchor, log)

FileInv ==
    /\ DOMAIN file = Runs
    /\ \A r \in Runs :
          /\ phase[r] \notin {"saved", "done", "killed"} => file[r] = None
          /\ file[r] # None \/ phase[r] \in {"saved", "done"}
                => file[r] = Written(bundle[r])

ReportInv ==
    /\ DOMAIN report = Runs
    /\ \A r \in Runs :
          IF phase[r] = "done"
          THEN report[r] = IF bundle[r].anchor = None THEN None
                           ELSE AnchorState(bundle[r].anchor, trusts)
          ELSE report[r] = None

IInv == TypeOK /\ LogInv /\ BundleInv /\ AnchorInv /\ FileInv /\ ReportInv

-----------------------------------------------------------------------------
(* Appending to a log keeps every entry in its place.                      *)
LEMMA Appended ==
    ASSUME NEW l \in Seq(Entries), NEW e \in Entries
    PROVE  /\ Append(l, e) \in Seq(Entries)
           /\ Len(Append(l, e)) = Len(l) + 1
           /\ \A i \in 1 .. Len(l) : Append(l, e)[i] = l[i]
    OBVIOUS

LEMMA TruthfulOfAppended ==
    ASSUME NEW l \in Seq(Entries), NEW e \in Entries, NEW r, NEW a,
           a.index \in Nat, Truthful(r, a, l)
    PROVE  Truthful(r, a, Append(l, e))
<1>1. /\ Len(Append(l, e)) = Len(l) + 1
      /\ \A i \in 1 .. Len(l) : Append(l, e)[i] = l[i]
  BY Appended
<1>2. Len(l) \in Nat
  OBVIOUS
<1>3. ASSUME Legible(a.proof)
      PROVE  /\ a.proof \in Proofs
             /\ a.proof.root # None => Prefix(a.proof.root, Append(l, e))
  <2>1. a.proof \in Proofs /\ (a.proof.root # None => Prefix(a.proof.root, l))
    BY <1>3 DEF Truthful
  <2>2. ASSUME a.proof.root # None
        PROVE  Prefix(a.proof.root, Append(l, e))
    <3>1. Len(a.proof.root) \in Nat /\ Prefix(a.proof.root, l)
      BY <2>1, <2>2 DEF Proofs
    <3>. QED
      BY <3>1, <1>1, <1>2 DEF Prefix
  <2>3. QED
    BY <2>1, <2>2
<1>4. QED
  BY <1>1, <1>2, <1>3 DEF Truthful

(* The digest that is anchored is that of the bundle without signatures.   *)
LEMMA PayloadOf ==
    ASSUME NEW r \in Runs, NEW b \in Bundles(r)
    PROVE  AnchoredPayload(b) = <<r, 0>> /\ AnchoredPayload(b) \in Entries
    BY DEF Bundles, AnchoredPayload, Digest, Entries

(* The log's answers are about the entry they are an answer for.           *)
LEMMA AnswersTruthful ==
    ASSUME NEW l \in Seq(Entries), NEW i \in 1 .. Len(l), NEW r \in Runs,
           l[i] = <<r, 0>>, NEW answer \in Answers(l, i)
    PROVE  LET a == [index |-> answer.index, body |-> answer.body,
                     proof |-> answer.proof, checkpoint |-> None]
           IN  a \in Anchors /\ Truthful(r, a, l)
<1> DEFINE a == [index |-> answer.index, body |-> answer.body,
                 proof |-> answer.proof, checkpoint |-> None]
<1>1. Len(l) \in Nat /\ l[i] \in Entries
  OBVIOUS
<1>2. /\ answer.index = i - 1
      /\ answer.body \in {None, l[i]}
      /\ \/ answer.proof \in {None, Malformed}
         \/ answer.proof = [index |-> i - 1, path |-> None, root |-> None]
         \/ answer.proof \in [index : 0 .. Len(l) - 1, path : {l}, root : {l}]
  BY <1>1 DEF Answers, ProofsOf
<1>3. Legible(answer.proof) => answer.proof \in Proofs /\ answer.proof.root \in {None, l}
  BY <1>1, <1>2 DEF Proofs, Legible
<1>4. a \in Anchors
  BY <1>1, <1>2, <1>3 DEF Anchors, Legible
<1>5. Truthful(r, a, l)
  BY <1>1, <1>2, <1>3 DEF Truthful, Prefix
<1>6. QED
  BY <1>4, <1>5

(* Saving drops the body only where no proof is left to check it with.     *)
LEMMA WrittenKeepsState ==
    ASSUME NEW r \in Runs, NEW b \in Bundles(r), NEW t, b.anchor # None
    PROVE  /\ Written(b).anchor.index = b.anchor.index
           /\ AnchorState(Written(b).anchor, t) = AnchorState(b.anchor, t)
<1>1. b.anchor \in Anchors
  BY DEF Bundles
<1>2. CASE Written(b) = b
  BY <1>2
<1>3. CASE /\ b.anchor.proof = None
           /\ Written(b) = [b EXCEPT !.anchor.body = None]
  <2>1. Written(b).anchor = [b.anchor EXCEPT !.body = None]
    BY <1>3 DEF Bundles
  <2>2. /\ Written(b).anchor.proof = None
        /\ Written(b).anchor.index = b.anchor.index
    BY <1>1, <1>3, <2>1 DEF Anchors
  <2>3. QED
    BY <1>3, <2>2 DEF AnchorState
<1>4. QED
  BY <1>2, <1>3 DEF Written

-----------------------------------------------------------------------------
LEMMA InitIInv == Init => IInv
<1>1. SUFFICES ASSUME Init PROVE IInv
  OBVIOUS
<1>2. TypeOK
  BY <1>1, MaxLogIsNat DEF Init, TypeOK
<1>3. LogInv /\ BundleInv /\ FileInv /\ ReportInv
  BY <1>1 DEF Init, LogInv, BundleInv, Bundles, FileInv, ReportInv
<1>4. AnchorInv
  BY <1>1 DEF Init, AnchorInv, Answered, Anchored
<1>5. QED
  BY <1>2, <1>3, <1>4 DEF IInv

(* The steps of the log: the runs' own state stays, the log grows.         *)
LEMMA LogStep ==
    ASSUME IInv, NEW e \in Entries, Len(log) < MaxLog, log' = Append(log, e),
           UNCHANGED <<head, trusts, phase, bundle, file, report>>,
           wire' \in [Runs -> {"unsent", "sent", "integrated"}],
           \A r \in Runs : wire'[r] # "unsent" => bundle[r].signatures = 1
    PROVE  IInv'
<1>1. log \in Seq(Entries)
  BY DEF IInv, LogInv
<1>2. Len(log) \in Nat /\ log' \in Seq(Entries) /\ Len(log') = Len(log) + 1
  BY <1>1, Appended
<1>3. TypeOK'
  BY <1>2, MaxLogIsNat DEF IInv, TypeOK
<1>4. LogInv' /\ BundleInv' /\ FileInv' /\ ReportInv'
  BY <1>2 DEF IInv, LogInv, BundleInv, Bundles, FileInv, ReportInv, Written
<1>5. AnchorInv'
  <2>1. SUFFICES ASSUME NEW r \in Runs, Answered(r)
                 PROVE  Truthful(r, bundle[r].anchor, log')
    BY DEF AnchorInv, Answered, Anchored
  <2>2. Truthful(r, bundle[r].anchor, log) /\ bundle[r].anchor.index \in Nat
    BY <2>1 DEF IInv, AnchorInv, Answered, Anchored, BundleInv, Bundles, Anchors
  <2>3. QED
    BY <1>1, <2>2, TruthfulOfAppended
<1>6. QED
  BY <1>3, <1>4, <1>5 DEF IInv

(* A step of run r that leaves the log, the bundles and the wire alone.    *)
LEMMA RunStep ==
    ASSUME IInv, NEW r \in Runs,
           NEW p \in {"signed", "ready", "saved", "done", "raised", "killed"},
           phase' = [phase EXCEPT ![r] = p],
           p # "killed" => bundle[r].signatures = 1,
           UNCHANGED <<log, head, trusts, wire, bundle>>,
           FileInv', ReportInv'
    PROVE  IInv'
<1>1. TypeOK'
  BY DEF IInv, TypeOK
<1>2. LogInv' /\ BundleInv' /\ AnchorInv'
  BY DEF IInv, TypeOK, LogInv, BundleInv, Bundles, AnchorInv, Answered, Anchored,
     Truthful
<1>3. QED
  BY <1>1, <1>2 DEF IInv

LEMMA NextIInv == IInv /\ [Next]_vars => IInv'
<1>1. SUFFICES ASSUME IInv, [Next]_vars PROVE IInv'
  OBVIOUS
<1>2. /\ log \in Seq(Entries) /\ Len(log) \in Nat
      /\ phase \in [Runs -> {"built", "signed", "posted", "answered", "ready",
                             "saved", "done", "raised", "killed"}]
      /\ \A r \in Runs : bundle[r] \in Bundles(r)
  BY <1>1 DEF IInv, LogInv, TypeOK, BundleInv
<1>3. CASE ForeignEntry
  <2>1. Foreign \in Entries
    BY DEF Entries
  <2>2. QED
    BY <1>1, <1>3, <2>1, LogStep DEF ForeignEntry, IInv, TypeOK
<1>4. CASE Publish
  <2>1. TypeOK'
    BY <1>1, <1>2, <1>4 DEF Publish, IInv, TypeOK
  <2>2. QED
    BY <1>1, <1>4, <2>1 DEF Publish, IInv, LogInv, BundleInv, AnchorInv, Answered, Anchored,
       FileInv, ReportInv
<1>5. ASSUME NEW r \in Runs, Integrate(r) PROVE IInv'
  <2>1. AnchoredPayload(bundle[r]) \in Entries
    BY <1>2, PayloadOf
  <2>2. QED
    BY <1>1, <1>5, <2>1, LogStep DEF Integrate, IInv, TypeOK
<1>6. ASSUME NEW r \in Runs, Sign(r) PROVE IInv'
  <2>1. /\ bundle' = [bundle EXCEPT ![r].signatures = 1]
        /\ phase' = [phase EXCEPT ![r] = "signed"]
        /\ phase[r] = "built"
    BY <1>6 DEF Sign
  <2>2. \A q \in Runs : /\ bundle'[q] \in Bundles(q)
                        /\ bundle'[q].anchor = bundle[q].anchor
                        /\ bundle'[q].signatures
                             = IF q = r THEN 1 ELSE bundle[q].signatures
                        /\ q # r => bundle'[q] = bundle[q]
    BY <1>1, <1>2, <2>1 DEF IInv, BundleInv, Bundles
  <2>3. TypeOK'
    BY <1>1, <1>2, <1>6, <2>1, <2>2 DEF Sign, IInv, TypeOK, Bundles
  <2>4. BundleInv'
    BY <1>1, <1>2, <2>1, <2>2 DEF IInv, BundleInv
  <2>5. LogInv' /\ AnchorInv'
    BY <1>1, <1>6, <2>2 DEF Sign, IInv, LogInv, AnchorInv, Answered, Anchored
  <2>6. FileInv' /\ ReportInv'
    BY <1>1, <1>2, <1>6, <2>1, <2>2 DEF Sign, IInv, FileInv, ReportInv, Written
  <2>7. QED
    BY <2>3, <2>4, <2>5, <2>6 DEF IInv
<1>7. ASSUME NEW r \in Runs, Submit(r) PROVE IInv'
  <2>1. TypeOK'
    BY <1>1, <1>7 DEF Submit, IInv, TypeOK
  <2>2. LogInv' /\ BundleInv' /\ AnchorInv'
    BY <1>1, <1>2, <1>7 DEF Submit, IInv, LogInv, BundleInv, AnchorInv, Answered, Anchored
  <2>3. FileInv' /\ ReportInv'
    BY <1>1, <1>2, <1>7 DEF Submit, IInv, FileInv, ReportInv
  <2>4. QED
    BY <2>1, <2>2, <2>3 DEF IInv
<1>8. ASSUME NEW r \in Runs, GiveUp(r) PROVE IInv'
  <2>1. FileInv' /\ ReportInv'
    BY <1>1, <1>2, <1>8 DEF GiveUp, IInv, FileInv, ReportInv
  <2>2. bundle[r].signatures = 1
    BY <1>1, <1>8 DEF GiveUp, IInv, TypeOK
  <2>3. QED
    BY <1>1, <1>8, <2>1, <2>2, RunStep DEF GiveUp
<1>9. ASSUME NEW r \in Runs, NEW i \in DOMAIN log,
             log[i] = AnchoredPayload(bundle[r]),
             NEW answer \in Answers(log, i), Receive(r, answer)
      PROVE  IInv'
  <2> DEFINE a == [index |-> answer.index, body |-> answer.body,
                   proof |-> answer.proof, checkpoint |-> None]
  <2>1. log[i] = <<r, 0>> /\ i \in 1 .. Len(log)
    BY <1>2, <1>9, PayloadOf
  <2>2. a \in Anchors /\ Truthful(r, a, log)
    BY <1>2, <2>1, AnswersTruthful
  <2>3. /\ bundle' = [bundle EXCEPT ![r].anchor = a]
        /\ phase' = [phase EXCEPT ![r] = "answered"]
        /\ phase[r] = "posted"
    BY <1>9 DEF Receive
  <2> HIDE DEF a
  <2>4. \A q \in Runs : /\ bundle'[q] \in Bundles(q)
                        /\ bundle'[q].anchor = IF q = r THEN a ELSE bundle[q].anchor
                        /\ bundle'[q].signatures = bundle[q].signatures
                        /\ q # r => bundle'[q] = bundle[q]
    BY <1>1, <1>2, <2>2, <2>3 DEF IInv, BundleInv, Bundles
  <2>5. TypeOK'
    BY <1>1, <1>2, <1>9, <2>3, <2>4 DEF Receive, IInv, TypeOK, Bundles
  <2>6. BundleInv'
    <3>1. DOMAIN bundle' = Runs
      BY <1>1, <2>3 DEF IInv, BundleInv
    <3>2. ASSUME NEW q \in Runs, phase'[q] = "answered" PROVE bundle'[q].anchor \in Anchors
      <4>1. CASE q = r
        BY <2>2, <2>4, <4>1
      <4>2. CASE q # r
        <5>1. phase[q] = "answered"
          BY <1>1, <1>2, <2>3, <3>2, <4>2
        <5> QED
          BY <1>1, <2>4, <4>2, <5>1 DEF IInv, BundleInv
      <4> QED
        BY <4>1, <4>2
    <3> QED
      BY <2>4, <3>1, <3>2 DEF BundleInv
  <2>7. LogInv' /\ AnchorInv'
    BY <1>1, <1>9, <2>2, <2>4 DEF Receive, IInv, LogInv, AnchorInv, Answered, Anchored
  <2>8. FileInv' /\ ReportInv'
    BY <1>1, <1>2, <1>9, <2>3, <2>4 DEF Receive, IInv, FileInv, ReportInv, Written
  <2>9. QED
    BY <2>5, <2>6, <2>7, <2>8 DEF IInv
<1>10. ASSUME NEW r \in Runs, NEW c \in Checkpoints(head), FetchCheckpoint(r, c)
       PROVE  IInv'
  <2>1. /\ bundle' = [bundle EXCEPT ![r].anchor.checkpoint = c]
        /\ phase' = [phase EXCEPT ![r] = "ready"]
        /\ phase[r] = "answered"
    BY <1>10 DEF FetchCheckpoint
  <2>2. bundle[r].anchor \in Anchors
    BY <1>1, <2>1 DEF IInv, BundleInv
  <2>3. c \in {None, Malformed} \cup Notes
    BY <1>1, <1>2 DEF Checkpoints, Notes, IInv, TypeOK
  <2>4. \A q \in Runs :
           /\ bundle'[q] \in Bundles(q)
           /\ q # r => bundle'[q] = bundle[q]
           /\ bundle'[q].signatures = bundle[q].signatures
    BY <1>1, <1>2, <2>1, <2>2, <2>3 DEF IInv, BundleInv, Bundles, Anchors
  <2>5. /\ bundle'[r].anchor.index = bundle[r].anchor.index
        /\ bundle'[r].anchor.proof = bundle[r].anchor.proof
    BY <1>1, <1>2, <2>1, <2>2 DEF IInv, BundleInv, Bundles, Anchors
  <2>6. TypeOK'
    BY <1>1, <1>2, <1>10, <2>1, <2>4 DEF FetchCheckpoint, IInv, TypeOK, Bundles
  <2>7. BundleInv'
    <3>1. DOMAIN bundle' = Runs
      BY <1>1, <2>1 DEF IInv, BundleInv
    <3>2. ASSUME NEW q \in Runs, phase'[q] = "answered" PROVE bundle'[q].anchor \in Anchors
      <4>1. q # r /\ phase[q] = "answered"
        BY <1>1, <1>2, <2>1, <3>2
      <4> QED
        BY <1>1, <2>4, <4>1 DEF IInv, BundleInv
    <3> QED
      BY <2>4, <3>1, <3>2 DEF BundleInv
  <2>8. Truthful(r, bundle[r].anchor, log)
    BY <1>1, <2>1 DEF IInv, AnchorInv, Answered
  <2>9. LogInv' /\ AnchorInv'
    BY <1>1, <1>10, <2>4, <2>5, <2>8
       DEF FetchCheckpoint, IInv, LogInv, AnchorInv, Answered, Anchored, Truthful
  <2>10. FileInv' /\ ReportInv'
    BY <1>1, <1>2, <1>10, <2>1, <2>4 DEF FetchCheckpoint, IInv, FileInv, ReportInv, Written
  <2>11. QED
    BY <2>6, <2>7, <2>9, <2>10 DEF IInv
<1>11. ASSUME NEW r \in Runs, Save(r) PROVE IInv'
  <2>1. FileInv' /\ ReportInv'
    BY <1>1, <1>2, <1>11 DEF Save, IInv, FileInv, ReportInv
  <2>2. bundle[r].signatures = 1
    BY <1>1, <1>11 DEF Save, IInv, TypeOK
  <2>3. QED
    BY <1>1, <1>11, <2>1, <2>2, RunStep DEF Save
<1>12. ASSUME NEW r \in Runs, Report(r) PROVE IInv'
  <2>1. FileInv' /\ ReportInv'
    BY <1>1, <1>2, <1>12 DEF Report, IInv, FileInv, ReportInv
  <2>2. bundle[r].signatures = 1
    BY <1>1, <1>12 DEF Report, IInv, TypeOK
  <2>3. QED
    BY <1>1, <1>12, <2>1, <2>2, RunStep DEF Report
<1>13. ASSUME NEW r \in Runs, Killed(r) PROVE IInv'
  <2>1. FileInv' /\ ReportInv'
    BY <1>1, <1>2, <1>13 DEF Killed, IInv, FileInv, ReportInv
  <2>2. QED
    BY <1>1, <1>13, <2>1, RunStep DEF Killed
<1>14. ASSUME NEW r \in Runs, AnswerRaises(r) PROVE IInv'
  <2>1. FileInv' /\ ReportInv'
    BY <1>1, <1>2, <1>14 DEF AnswerRaises, IInv, FileInv, ReportInv
  <2>2. bundle[r].signatures = 1
    BY <1>1, <1>14 DEF AnswerRaises, IInv, TypeOK
  <2>3. QED
    BY <1>1, <1>14, <2>1, <2>2, RunStep DEF AnswerRaises
<1>15. CASE UNCHANGED vars
  BY <1>1, <1>15 DEF vars, IInv, TypeOK, LogInv, BundleInv, Bundles, AnchorInv, Answered, Anchored,
     Truthful, FileInv, Written, ReportInv
<1>16. QED
  BY <1>1, <1>3, <1>4, <1>5, <1>6, <1>7, <1>8, <1>9, <1>10, <1>11, <1>12, <1>13, <1>14, <1>15
     DEF Next, OwnStep

LEMMA IInvAlways == Spec => []IInv
  BY InitIInv, NextIInv, PTL DEF Spec

-----------------------------------------------------------------------------
(* The log only grows under a signed head, and a run past the wire holds a *)
(* signed bundle (anchor_to_rekor): TypeOK, for any number of runs.        *)
THEOREM TypeCorrect == Spec => []TypeOK
<1>1. IInv => TypeOK
  BY DEF IInv
<1>2. QED
  BY <1>1, IInvAlways, PTL

(* However many runs there are and however the log orders, delays and      *)
(* interleaves their entries, an anchor is of the signed bytes of the      *)
(* bundle that carries it, on disk too (anchor_to_rekor,                   *)
(* _serialize_signed_payload, EvidenceBundle.to_dict).                     *)
THEOREM CoversSignedBytes == Spec => []AnchorCoversSignedBytes
<1>1. ASSUME IInv PROVE AnchorCoversSignedBytes
  <2>1. SUFFICES ASSUME NEW r \in Runs, Anchored(r)
                 PROVE  /\ bundle[r].anchor.index + 1 \in DOMAIN log
                        /\ log[bundle[r].anchor.index + 1] = <<r, 0>>
                        /\ file[r] # None => file[r].anchor.index = bundle[r].anchor.index
    BY DEF AnchorCoversSignedBytes
  <2>2. Truthful(r, bundle[r].anchor, log) /\ log \in Seq(Entries)
    BY <1>1, <2>1 DEF IInv, AnchorInv, Answered, LogInv
  <2>3. bundle[r] \in Bundles(r) /\ bundle[r].anchor # None
    BY <1>1, <2>1 DEF IInv, BundleInv, Anchored
  <2>4. file[r] # None => file[r] = Written(bundle[r])
    BY <1>1 DEF IInv, FileInv
  <2>5. QED
    BY <2>2, <2>3, <2>4, WrittenKeepsState DEF Truthful
<1>2. QED
  BY <1>1, IInvAlways, PTL

\* A stated root that decodes is matched only by one that was rebuilt from the body.
LEMMA RebuiltHasBody ==
    ASSUME NEW body, NEW proof, proof.root # None, Recomputed(body, proof) = proof.root
    PROVE  /\ proof.index + 1 \in DOMAIN proof.root
           /\ proof.root[proof.index + 1] = body
<1>1. /\ proof.index + 1 \in DOMAIN proof.path
      /\ proof.root = [proof.path EXCEPT ![proof.index + 1] = body]
  BY DEF Recomputed
<1>2. QED
  BY <1>1

\* What _anchor_state has gone through when it says "verified".
LEMMA VerifiedMeans ==
    ASSUME IInv, NEW a \in Verified
    PROVE  /\ trusts
           /\ a.checkpoint \in Notes
           /\ a.checkpoint \notin {None, Malformed}
           /\ a.checkpoint.intact
           /\ a.body # None
           /\ Legible(a.proof)
           /\ a.proof \in Proofs
           /\ a.proof.root # None => Prefix(a.proof.root, log)
           /\ Recomputed(a.body, a.proof) = a.proof.root
<1>1. PICK r \in Runs : report[r] = "verified" /\ a = bundle[r].anchor
  BY DEF Verified
<1>2. phase[r] = "done" /\ a # None /\ AnchorState(a, trusts) = "verified"
  BY <1>1, NoneIsNoVerdict DEF IInv, ReportInv
<1>3. a \in Anchors /\ Truthful(r, a, log)
  BY <1>1, <1>2 DEF IInv, BundleInv, Bundles, AnchorInv, Answered, Anchored
<1>4. /\ VerifyInclusionProof(a) = "True"
      /\ VerifyCheckpoint(a.checkpoint, trusts) = "True"
  BY <1>2 DEF AnchorState, VerifyInclusionProof
<1>5. /\ Legible(a.proof)
      /\ a.body # None
      /\ Recomputed(a.body, a.proof) = a.proof.root
  BY <1>4 DEF VerifyInclusionProof
<1>6. trusts /\ a.checkpoint \notin {None, Malformed} /\ a.checkpoint.intact
  BY <1>4 DEF VerifyCheckpoint
<1>7. QED
  BY <1>3, <1>5, <1>6 DEF Anchors, Truthful, Legible

\* The tree the proof is of is one the log has grown from, so the log has the body.
LEMMA VerifiedInLog ==
    ASSUME IInv, NEW a \in Verified, a.proof.root # None
    PROVE  /\ a.proof.index + 1 \in DOMAIN log
           /\ log[a.proof.index + 1] = a.body
           /\ a.proof.index + 1 \in 1 .. Len(a.proof.root)
<1>1. log \in Seq(Entries)
  BY DEF IInv, LogInv
<1>2. a.proof.index \in Nat /\ a.proof.root \in Seq(Entries)
  BY VerifiedMeans DEF Proofs
<1>3. /\ a.proof.index + 1 \in 1 .. Len(a.proof.root)
      /\ a.proof.root[a.proof.index + 1] = a.body
  BY VerifiedMeans, RebuiltHasBody, <1>2
<1>4. Prefix(a.proof.root, log)
  BY VerifiedMeans
<1>5. QED
  BY <1>1, <1>2, <1>3, <1>4 DEF Prefix

(* What "verified" rests on, in any log: both halves were there, and a     *)
(* stated root that decodes was rebuilt from the body (_anchor_state).     *)
THEOREM VerifiedSound == Spec => []VerifiedHasBothHalves
<1>1. IInv => VerifiedHasBothHalves
  BY VerifiedMeans, VerifiedInLog DEF VerifiedHasBothHalves
<1>2. QED
  BY <1>1, IInvAlways, PTL

(* However the log grew between the answer and the checkpoint, a signed    *)
(* checkpoint as new as the proof has the entry under it, where the stated *)
(* root decodes (verify_checkpoint, _anchor_state).                        *)
THEOREM CoveringCheckpointSound == Spec => []CoveringCheckpointProves
<1>1. IInv => CoveringCheckpointProves
  <2>1. SUFFICES ASSUME IInv, NEW a \in Verified, a.proof.root # None,
                        a.checkpoint.size >= Len(a.proof.root)
                 PROVE  \E i \in 1 .. a.checkpoint.size :
                           i = a.proof.index + 1 /\ log[i] = a.body
    BY DEF CoveringCheckpointProves
  <2>2. a.checkpoint.size \in Nat /\ Len(a.proof.root) \in Nat /\ a.proof.index \in Nat
    BY VerifiedMeans, <2>1 DEF Notes, Proofs
  <2>3. a.proof.index + 1 \in 1 .. a.checkpoint.size
    BY VerifiedInLog, <2>1, <2>2
  <2>4. QED
    BY VerifiedInLog, <2>1, <2>3
<1>2. QED
  BY <1>1, IInvAlways, PTL

(* For every answer of the log, complete or not, the bundle on disk gives  *)
(* the verdict its run printed (EvidenceBundle.to_dict, _anchor_state).    *)
THEOREM SurvivesSaving == Spec => []AnchorSurvivesSaving
<1>1. ASSUME IInv PROVE AnchorSurvivesSaving
  <2>1. SUFFICES ASSUME NEW r \in Runs, phase[r] = "done", Anchored(r)
                 PROVE  AnchorState(file[r].anchor, trusts) = report[r]
    BY DEF AnchorSurvivesSaving
  <2>2. bundle[r] \in Bundles(r) /\ bundle[r].anchor # None
    BY <1>1, <2>1 DEF IInv, BundleInv, Anchored
  <2>3. file[r] = Written(bundle[r])
    BY <1>1, <2>1 DEF IInv, FileInv
  <2>4. report[r] = AnchorState(bundle[r].anchor, trusts)
    BY <1>1, <2>1, <2>2 DEF IInv, ReportInv
  <2>5. QED
    BY <2>2, <2>3, <2>4, WrittenKeepsState
<1>2. QED
  BY <1>1, IInvAlways, PTL
=============================================================================
