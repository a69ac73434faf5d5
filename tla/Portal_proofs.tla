---------------------------- MODULE Portal_proofs ----------------------------
(***************************************************************************)
(* Proofs about Portal, for every set of quotes, policies and runs and     *)
(* every number of submissions: types; that what the index lists can be    *)
(* fetched; that a stored bundle verifies and its decision agrees with its *)
(* conformance; that a badge matches its own bundle and no other.          *)
(***************************************************************************)
EXTENDS Portal, SequenceTheorems, FiniteSetTheorems, WellFoundedInduction, TLAPS

Artifacts == UNION {SignedAt(now) : now \in Ids}

\* A bundle is filed under the second it was signed in.
LEMMA FiledByTheSecond ==
    ASSUME NEW now \in Ids, NEW s \in SignedAt(now)
    PROVE  s.bundle.bundle_id = now
<1>1. \A q, v, d, i, k :
          /\ "bundle_id" \in DOMAIN CreateSignedBundle(q, v, d, i, now, k)
          /\ CreateSignedBundle(q, v, d, i, now, k).bundle_id = now
  <2>1. \A b, k : DOMAIN SignBundle(b, k) = DOMAIN b
    BY DEF SignBundle
  <2>2. \A b, k : "bundle_id" \in DOMAIN b => SignBundle(b, k).bundle_id = b.bundle_id
    BY DEF SignBundle
  <2>. QED  BY <2>1, <2>2 DEF CreateSignedBundle
<1>2. \A b, a : "bundle_id" \in DOMAIN b => Anchored(b, a).bundle_id = b.bundle_id
  BY DEF Anchored
<1>3. \A q, v, b, d : Artifact(q, v, b, d).bundle = b
  BY DEF Artifact
<1>4. CASE \E q, m, k : s = Submission(q, m, now, k)
  BY <1>1, <1>3, <1>4 DEF Submission
<1>5. CASE \E q, m, k, a : s = Appraisal(q, m, now, k, a)
  BY <1>1, <1>2, <1>3, <1>5 DEF Appraisal
<1>. QED  BY <1>4, <1>5 DEF SignedAt

-----------------------------------------------------------------------------
\* The files under an id are whole and of submissions from the n-th on that
\* were signed in that second.
Successors(id, n) == {m \in DOMAIN signed : m >= n /\ signed[m].bundle.bundle_id = id}

BadgeServed(id, n) == \E m \in Successors(id, n) : static[id].badge = signed[m].badge

BundleServed(id, n) == \E m \in Successors(id, n) : static[id].bundle = Bundles[m]

EvaluationsServed ==
    \A i \in DOMAIN evaluations :
        LET e == evaluations[i]
        IN  BadgeServed(e.id, e.nth) /\ BundleServed(e.id, e.nth)

\* Positions in what was signed, and the ids that go with them.
Positions ==
    /\ second \in Ids
    /\ signed \in Seq(Artifacts)
    /\ DOMAIN static = Ids
    /\ evaluations \in Seq([id : Ids, nth : Nat])
    /\ \A i \in DOMAIN evaluations : evaluations[i].nth \in DOMAIN signed
    /\ handler # None =>
         /\ handler \in [at : {"badge", "bundle", "list"}, nth : Nat]
         /\ handler.nth \in DOMAIN signed
         /\ \A i \in DOMAIN evaluations : evaluations[i].nth <= handler.nth

\* What the submission in progress has written is there.
InProgress ==
    handler # None =>
        /\ handler.at \in {"bundle", "list"} =>
             static[Slot].badge = signed[handler.nth].badge
        /\ handler.at = "list" => static[Slot].bundle = Bundles[handler.nth]

IInv == Positions /\ EvaluationsServed /\ InProgress

\* The id a bundle is filed under is a second of the clock.
LEMMA IdsOfSigned ==
    ASSUME signed \in Seq(Artifacts), NEW n \in DOMAIN signed
    PROVE  signed[n].bundle.bundle_id \in Ids
<1>1. signed[n] \in Artifacts
  OBVIOUS
<1>2. PICK now \in Ids : signed[n] \in SignedAt(now)
  BY <1>1 DEF Artifacts
<1>. QED  BY <1>2, FiledByTheSecond

LEMMA Initially == Init => IInv
<1>. SUFFICES ASSUME Init PROVE IInv
  OBVIOUS
<1>1. Positions
  BY HorizonAssumption DEF Init, Positions, Ids
<1>2. EvaluationsServed
  BY DEF Init, EvaluationsServed
<1>3. InProgress
  BY DEF Init, InProgress
<1>. QED  BY <1>1, <1>2, <1>3 DEF IInv

\* Signing once more changes nothing that was signed.
LEMMA SigningKeeps ==
    ASSUME IInv, NEW a \in Artifacts, signed' = Append(signed, a)
    PROVE  /\ signed' \in Seq(Artifacts)
           /\ Len(signed') = Len(signed) + 1
           /\ DOMAIN signed' = DOMAIN signed \cup {Len(signed) + 1}
           /\ \A n \in DOMAIN signed : signed'[n] = signed[n] /\ Bundles'[n] = Bundles[n]
           /\ \A id \in Ids, n \in Nat : Successors(id, n) \in SUBSET Successors(id, n)'
<1>1. signed \in Seq(Artifacts)
  BY DEF IInv, Positions
<1>2. /\ signed' \in Seq(Artifacts)
      /\ Len(signed') = Len(signed) + 1
      /\ DOMAIN signed = 1 .. Len(signed)
      /\ DOMAIN signed' = 1 .. Len(signed) + 1
      /\ \A n \in DOMAIN signed : signed'[n] = signed[n]
  BY <1>1, AppendProperties
<1>3. DOMAIN signed' = DOMAIN signed \cup {Len(signed) + 1}
  BY <1>1, <1>2, LenProperties
<1>4. \A n \in DOMAIN signed : Bundles'[n] = Bundles[n]
  BY <1>2, <1>3 DEF Bundles
<1>5. \A id \in Ids, n \in Nat : Successors(id, n) \in SUBSET Successors(id, n)'
  BY <1>2, <1>3 DEF Successors
<1>. QED  BY <1>2, <1>3, <1>4, <1>5

-----------------------------------------------------------------------------
\* A step that touches neither the web application's files nor its list nor
\* what was signed.
LEMMA OtherSteps ==
    ASSUME IInv, second' \in Ids, UNCHANGED <<static, evaluations, handler, signed>>
    PROVE  IInv'
<1>1. Positions'
  BY DEF IInv, Positions
<1>2. Bundles' = Bundles
  BY DEF Bundles
<1>3. EvaluationsServed'
  BY <1>2 DEF IInv, EvaluationsServed, BadgeServed, BundleServed, Successors
<1>4. InProgress'
  BY <1>2 DEF IInv, InProgress, Slot
<1>. QED  BY <1>1, <1>3, <1>4 DEF IInv

\* What is served stays served when another bundle has been signed.
LEMMA ServedAfterSigning ==
    ASSUME IInv, NEW a \in Artifacts, signed' = Append(signed, a),
           UNCHANGED <<static, evaluations>>
    PROVE  EvaluationsServed'
<1>1. evaluations \in Seq([id : Ids, nth : Nat])
  BY DEF IInv, Positions
<1> SUFFICES ASSUME NEW i \in DOMAIN evaluations
             PROVE  /\ BadgeServed(evaluations[i].id, evaluations[i].nth)'
                    /\ BundleServed(evaluations[i].id, evaluations[i].nth)'
  BY DEF EvaluationsServed
<1> DEFINE id == evaluations[i].id
           n == evaluations[i].nth
<1>2. id \in Ids /\ n \in Nat
  <2>1. evaluations[i] \in [id : Ids, nth : Nat]
    BY <1>1, ElementOfSeq, LenProperties
  <2>. QED  BY <2>1
<1>3. \A m \in Successors(id, n) :
          /\ m \in Successors(id, n)'
          /\ signed'[m] = signed[m]
          /\ Bundles'[m] = Bundles[m]
  BY <1>2, SigningKeeps DEF Successors
<1>4. PICK m \in Successors(id, n) : static[id].badge = signed[m].badge
  BY DEF IInv, EvaluationsServed, BadgeServed
<1>5. PICK k \in Successors(id, n) : static[id].bundle = Bundles[k]
  BY DEF IInv, EvaluationsServed, BundleServed
<1>6. BadgeServed(id, n)'
  BY <1>3, <1>4 DEF BadgeServed
<1>7. BundleServed(id, n)'
  BY <1>3, <1>5 DEF BundleServed
<1>. QED  BY <1>6, <1>7

\* Both programs sign nothing but artifacts of the present second.
LEMMA Signing ==
    ASSUME IInv, Submit \/ \E r \in Runs : Appraise(r)
    PROVE  \E a \in Artifacts : signed' = Append(signed, a)
<1>1. second \in Ids /\ signed \in Seq(Artifacts)
  BY DEF IInv, Positions
<1>2. CASE Submit
  <2>1. PICK quote \in Quotes, module \in Modules \cup {NoFile} :
           /\ Verdict[module][quote] # PolicyError
           /\ signed' = Append(signed, Submission(quote, module, second, Len(signed) + 1))
    BY <1>2 DEF Submit
  <2>2. Len(signed) + 1 \in 1 .. MaxSigned
    BY <1>1, <1>2, LenProperties, MaxSignedAssumption DEF Submit
  <2>3. <<quote, module>> \in Judged
    BY <2>1 DEF Judged
  <2>4. \E x \in Judged, k \in 1 .. MaxSigned :
           Submission(quote, module, second, Len(signed) + 1)
              = Submission(x[1], x[2], second, k)
    <3>1. <<quote, module>>[1] = quote /\ <<quote, module>>[2] = module
      OBVIOUS
    <3>. QED  BY <2>2, <2>3, <3>1
  <2>5. Submission(quote, module, second, Len(signed) + 1) \in SignedAt(second)
    BY <2>4 DEF SignedAt
  <2>. QED  BY <1>1, <2>1, <2>5 DEF Artifacts
<1>3. ASSUME NEW r \in Runs, Appraise(r)
      PROVE  \E a \in Artifacts : signed' = Append(signed, a)
  <2>1. PICK quote \in Quotes, module \in Modules, anchor \in Anchors,
             key \in {OperatorKey, Len(signed) + 1} :
           /\ Verdict[module][quote] # PolicyError
           /\ signed' = Append(signed, Appraisal(quote, module, second, key, anchor))
    BY <1>3 DEF Appraise
  <2>2. key \in 1 .. MaxSigned \cup {OperatorKey}
    BY <1>1, <1>3, LenProperties, MaxSignedAssumption DEF Appraise
  <2>3. <<quote, module>> \in Judged
    BY <2>1 DEF Judged
  <2>4. \E x \in Judged, k \in 1 .. MaxSigned \cup {OperatorKey}, a \in Anchors :
           Appraisal(quote, module, second, key, anchor)
              = Appraisal(x[1], x[2], second, k, a)
    <3>1. <<quote, module>>[1] = quote /\ <<quote, module>>[2] = module
      OBVIOUS
    <3>. QED  BY <2>2, <2>3, <3>1
  <2>5. Appraisal(quote, module, second, key, anchor) \in SignedAt(second)
    BY <2>4 DEF SignedAt
  <2>. QED  BY <1>1, <2>1, <2>5 DEF Artifacts
<1>. QED  BY <1>2, <1>3

LEMMA SubmitStep == IInv /\ Submit => IInv'
<1>. SUFFICES ASSUME IInv, Submit PROVE IInv'
  OBVIOUS
<1>1. second \in Ids /\ signed \in Seq(Artifacts)
  BY DEF IInv, Positions
<1>2. PICK a \in Artifacts : signed' = Append(signed, a)
  BY Signing
<1>3. /\ signed' \in Seq(Artifacts)
      /\ Len(signed') = Len(signed) + 1
      /\ DOMAIN signed' = DOMAIN signed \cup {Len(signed) + 1}
  BY <1>2, SigningKeeps
<1>4. /\ UNCHANGED <<second, static, evaluations>>
      /\ handler' = [at |-> "badge", nth |-> Len(signed) + 1]
  BY DEF Submit
<1>5. Positions'
  BY <1>1, <1>3, <1>4, LenProperties DEF IInv, Positions
<1>6. EvaluationsServed'
  BY <1>2, <1>4, ServedAfterSigning
<1>7. InProgress'
  BY <1>4 DEF InProgress
<1>. QED  BY <1>5, <1>6, <1>7 DEF IInv

LEMMA AppraiseStep == \A r \in Runs : IInv /\ Appraise(r) => IInv'
<1>. SUFFICES ASSUME NEW r \in Runs, IInv, Appraise(r) PROVE IInv'
  OBVIOUS
<1>1. second \in Ids /\ signed \in Seq(Artifacts)
  BY DEF IInv, Positions
<1>2. PICK a \in Artifacts : signed' = Append(signed, a)
  BY Signing
<1>3. /\ signed' \in Seq(Artifacts)
      /\ DOMAIN signed' = DOMAIN signed \cup {Len(signed) + 1}
      /\ \A n \in DOMAIN signed : signed'[n] = signed[n] /\ Bundles'[n] = Bundles[n]
  BY <1>2, SigningKeeps
<1>4. UNCHANGED <<second, static, evaluations, handler>>
  BY DEF Appraise
<1>5. Positions'
  BY <1>1, <1>3, <1>4 DEF IInv, Positions
<1>6. EvaluationsServed'
  BY <1>2, <1>4, ServedAfterSigning
<1>7. InProgress'
  BY <1>3, <1>4 DEF IInv, Positions, InProgress, Slot
<1>. QED  BY <1>5, <1>6, <1>7 DEF IInv

-----------------------------------------------------------------------------
\* The submission in progress is the latest on the list's account: overwriting
\* a file under its id leaves it one of a successor.
LEMMA SlotSucceeds ==
    ASSUME IInv, handler # None
    PROVE  /\ Slot \in Ids
           /\ handler.nth \in DOMAIN signed
           /\ \A i \in DOMAIN evaluations :
                evaluations[i].id = Slot =>
                  handler.nth \in Successors(Slot, evaluations[i].nth)
           /\ handler.nth \in Successors(Slot, handler.nth)
<1>1. /\ signed \in Seq(Artifacts)
      /\ handler.nth \in DOMAIN signed
      /\ handler.nth \in Nat
      /\ \A i \in DOMAIN evaluations : evaluations[i].nth <= handler.nth
      /\ \A i \in DOMAIN evaluations : evaluations[i].nth \in Nat
  BY DEF IInv, Positions
<1>2. Slot \in Ids
  BY <1>1, IdsOfSigned DEF Slot
<1>. QED  BY <1>1, <1>2 DEF Successors, Slot

LEMMA WriteBadgeStep == IInv /\ WriteBadge => IInv'
<1>. SUFFICES ASSUME IInv, WriteBadge PROVE IInv'
  OBVIOUS
<1>1. /\ handler # None
      /\ handler' = [at |-> "bundle", nth |-> handler.nth]
      /\ UNCHANGED <<second, evaluations, signed>>
  BY DEF WriteBadge
<1>2. /\ DOMAIN static' = DOMAIN static
      /\ \A id \in Ids \ {Slot} : static'[id] = static[id]
      /\ static'[Slot].badge = signed[handler.nth].badge
      /\ static'[Slot].bundle = static[Slot].bundle
  BY <1>1, SlotSucceeds DEF WriteBadge, IInv, Positions
<1>3. Bundles' = Bundles /\ Slot' = Slot
  BY <1>1 DEF Bundles, Slot
<1>4. Positions'
  BY <1>1, <1>2 DEF IInv, Positions
<1>5. EvaluationsServed'
  <2> SUFFICES ASSUME NEW i \in DOMAIN evaluations
               PROVE  /\ BadgeServed(evaluations[i].id, evaluations[i].nth)'
                      /\ BundleServed(evaluations[i].id, evaluations[i].nth)'
    BY <1>1 DEF EvaluationsServed
  <2>1. evaluations[i].id \in Ids
    <3>1. evaluations \in Seq([id : Ids, nth : Nat])
      BY DEF IInv, Positions
    <3>2. evaluations[i] \in [id : Ids, nth : Nat]
      BY <3>1, ElementOfSeq, LenProperties
    <3>. QED  BY <3>2
  <2>2. /\ BadgeServed(evaluations[i].id, evaluations[i].nth)
        /\ BundleServed(evaluations[i].id, evaluations[i].nth)
    BY DEF IInv, EvaluationsServed
  <2>3. CASE evaluations[i].id = Slot
    <3>1. BadgeServed(evaluations[i].id, evaluations[i].nth)'
      BY <1>1, <1>2, <2>3, SlotSucceeds DEF BadgeServed, Successors
    <3>2. BundleServed(evaluations[i].id, evaluations[i].nth)'
      BY <1>1, <1>2, <1>3, <2>2, <2>3 DEF BundleServed, Successors
    <3>. QED  BY <3>1, <3>2
  <2>4. CASE evaluations[i].id # Slot
    BY <1>1, <1>2, <1>3, <2>1, <2>2, <2>4 DEF BadgeServed, BundleServed, Successors
  <2>. QED  BY <2>3, <2>4
<1>6. InProgress'
  BY <1>1, <1>2, <1>3 DEF InProgress
<1>. QED  BY <1>4, <1>5, <1>6 DEF IInv

LEMMA WriteBundleStep == IInv /\ WriteBundle => IInv'
<1>. SUFFICES ASSUME IInv, WriteBundle PROVE IInv'
  OBVIOUS
<1>1. /\ handler # None
      /\ handler.at = "bundle"
      /\ handler' = [at |-> "list", nth |-> handler.nth]
      /\ UNCHANGED <<second, evaluations, signed>>
  BY DEF WriteBundle
<1>2. /\ DOMAIN static' = DOMAIN static
      /\ \A id \in Ids \ {Slot} : static'[id] = static[id]
      /\ static'[Slot].bundle = Bundles[handler.nth]
      /\ static'[Slot].badge = static[Slot].badge
  BY <1>1, SlotSucceeds DEF WriteBundle, IInv, Positions
<1>3. Bundles' = Bundles /\ Slot' = Slot
  BY <1>1 DEF Bundles, Slot
<1>4. Positions'
  BY <1>1, <1>2 DEF IInv, Positions
<1>5. EvaluationsServed'
  <2> SUFFICES ASSUME NEW i \in DOMAIN evaluations
               PROVE  /\ BadgeServed(evaluations[i].id, evaluations[i].nth)'
                      /\ BundleServed(evaluations[i].id, evaluations[i].nth)'
    BY <1>1 DEF EvaluationsServed
  <2>1. evaluations[i].id \in Ids
    <3>1. evaluations \in Seq([id : Ids, nth : Nat])
      BY DEF IInv, Positions
    <3>2. evaluations[i] \in [id : Ids, nth : Nat]
      BY <3>1, ElementOfSeq, LenProperties
    <3>. QED  BY <3>2
  <2>2. /\ BadgeServed(evaluations[i].id, evaluations[i].nth)
        /\ BundleServed(evaluations[i].id, evaluations[i].nth)
    BY DEF IInv, EvaluationsServed
  <2>3. CASE evaluations[i].id = Slot
    <3>1. BundleServed(evaluations[i].id, evaluations[i].nth)'
      BY <1>1, <1>2, <1>3, <2>3, SlotSucceeds DEF BundleServed, Successors
    <3>2. BadgeServed(evaluations[i].id, evaluations[i].nth)'
      BY <1>1, <1>2, <2>2, <2>3 DEF BadgeServed, Successors
    <3>. QED  BY <3>1, <3>2
  <2>4. CASE evaluations[i].id # Slot
    BY <1>1, <1>2, <1>3, <2>1, <2>2, <2>4 DEF BadgeServed, BundleServed, Successors
  <2>. QED  BY <2>3, <2>4
<1>6. InProgress'
  BY <1>1, <1>2, <1>3 DEF IInv, InProgress
<1>. QED  BY <1>4, <1>5, <1>6 DEF IInv

\* The record is inserted when both files are there.
LEMMA ListStep == IInv /\ List => IInv'
<1>. SUFFICES ASSUME IInv, List PROVE IInv'
  OBVIOUS
<1> DEFINE e == [id |-> Slot, nth |-> handler.nth]
<1>1. /\ handler # None
      /\ handler.at = "list"
      /\ evaluations' = <<e>> \o evaluations
      /\ handler' = None
      /\ UNCHANGED <<second, static, signed>>
  BY DEF List
<1>2. /\ evaluations \in Seq([id : Ids, nth : Nat])
      /\ handler.nth \in Nat
      /\ handler.nth \in DOMAIN signed
      /\ \A i \in DOMAIN evaluations : evaluations[i].nth \in DOMAIN signed
  BY <1>1 DEF IInv, Positions
<1>3. e \in [id : Ids, nth : Nat]
  BY <1>1, <1>2, SlotSucceeds
<1>4. /\ evaluations' \in Seq([id : Ids, nth : Nat])
      /\ \A i \in DOMAIN evaluations' :
           evaluations'[i] = e \/ \E k \in DOMAIN evaluations : evaluations'[i] = evaluations[k]
  <2>1. <<e>> \in Seq([id : Ids, nth : Nat]) /\ Len(<<e>>) = 1 /\ <<e>>[1] = e
    BY <1>3
  <2>2. /\ evaluations' \in Seq([id : Ids, nth : Nat])
        /\ Len(evaluations') = 1 + Len(evaluations)
        /\ \A i \in 1 .. 1 + Len(evaluations) :
             evaluations'[i] = IF i <= 1 THEN <<e>>[i] ELSE evaluations[i - 1]
    BY <1>1, <1>2, <2>1, ConcatProperties
  <2>3. /\ DOMAIN evaluations = 1 .. Len(evaluations)
        /\ DOMAIN evaluations' = 1 .. 1 + Len(evaluations)
        /\ Len(evaluations) \in Nat
    BY <1>2, <2>2, LenProperties
  <2> SUFFICES ASSUME NEW i \in DOMAIN evaluations'
               PROVE  \/ evaluations'[i] = e
                      \/ \E k \in DOMAIN evaluations : evaluations'[i] = evaluations[k]
    BY <2>2
  <2>4. CASE i = 1
    BY <2>1, <2>2, <2>3, <2>4
  <2>5. CASE i # 1
    <3>1. i - 1 \in DOMAIN evaluations /\ evaluations'[i] = evaluations[i - 1]
      BY <2>2, <2>3, <2>5
    <3>. QED  BY <3>1
  <2>. QED  BY <2>4, <2>5
<1>5. Positions'
  BY <1>1, <1>2, <1>4 DEF IInv, Positions
<1>6. BadgeServed(e.id, e.nth) /\ BundleServed(e.id, e.nth)
  BY <1>1, SlotSucceeds DEF IInv, InProgress, BadgeServed, BundleServed
<1>7. Bundles' = Bundles
  BY <1>1 DEF Bundles
<1>8. \A i \in DOMAIN evaluations' :
          /\ BadgeServed(evaluations'[i].id, evaluations'[i].nth)
          /\ BundleServed(evaluations'[i].id, evaluations'[i].nth)
  BY <1>4, <1>6 DEF IInv, EvaluationsServed
<1>9. EvaluationsServed'
  BY <1>1, <1>7, <1>8 DEF EvaluationsServed, BadgeServed, BundleServed, Successors
<1>10. InProgress'
  BY <1>1 DEF InProgress
<1>. QED  BY <1>5, <1>9, <1>10 DEF IInv

\* A kill may leave a file half written, but takes the list with it.
LEMMA RestartStep == IInv /\ Restart => IInv'
<1>. SUFFICES ASSUME IInv, Restart PROVE IInv'
  OBVIOUS
<1>1. /\ evaluations' = <<>>
      /\ handler' = None
      /\ DOMAIN static' = DOMAIN static
      /\ UNCHANGED <<second, signed>>
  BY DEF Restart
<1>2. Positions'
  BY <1>1 DEF IInv, Positions
<1>3. EvaluationsServed'
  BY <1>1 DEF EvaluationsServed
<1>4. InProgress'
  BY <1>1 DEF InProgress
<1>. QED  BY <1>2, <1>3, <1>4 DEF IInv

LEMMA Step == IInv /\ [Next]_vars => IInv'
<1>. SUFFICES ASSUME IInv, [Next]_vars PROVE IInv'
  OBVIOUS
<1>1. second \in Ids
  BY DEF IInv, Positions
<1>2. CASE Tick
  <2>1. second' \in Ids
    BY <1>1, <1>2, HorizonAssumption DEF Tick, Ids
  <2>. QED  BY <1>2, <2>1, OtherSteps DEF Tick
<1>3. CASE Submit
  BY <1>3, SubmitStep
<1>4. CASE WriteBadge
  BY <1>4, WriteBadgeStep
<1>5. CASE WriteBundle
  BY <1>5, WriteBundleStep
<1>6. CASE List
  BY <1>6, ListStep
<1>7. CASE Restart
  BY <1>7, RestartStep
<1>8. CASE \E r \in Runs : Appraise(r)
  BY <1>8, AppraiseStep
<1>9. CASE \E r \in Runs : SaveBundle(r) \/ SaveBadge(r) \/ KillRun(r)
  BY <1>1, <1>9, OtherSteps DEF SaveBundle, SaveBadge, KillRun
<1>10. CASE UNCHANGED vars
  BY <1>1, <1>10, OtherSteps DEF vars
<1>. QED  BY <1>2, <1>3, <1>4, <1>5, <1>6, <1>7, <1>8, <1>9, <1>10 DEF Next

LEMMA Invariance == Spec => []IInv
BY Initially, Step, PTL DEF Spec

-----------------------------------------------------------------------------
\* The index shows the first of the evaluations.
LEMMA ListedIsEvaluated ==
    ASSUME evaluations \in Seq([id : Ids, nth : Nat]), NEW i \in DOMAIN Listed
    PROVE  i \in DOMAIN evaluations /\ Listed[i] = evaluations[i]
<1> DEFINE k == IF Len(evaluations) < Shown THEN Len(evaluations) ELSE Shown
<1>1. Len(evaluations) \in Nat /\ DOMAIN evaluations = 1 .. Len(evaluations)
  BY LenProperties
<1>2. k \in Nat /\ k <= Len(evaluations)
  BY <1>1, ShownAssumption
<1>3. Listed = [j \in 1 .. k |-> evaluations[1 + j - 1]]
  BY <1>1, <1>2 DEF Listed
<1>. QED  BY <1>1, <1>2, <1>3

\* However many were submitted, in the same second or not, and wherever the
\* process was killed, every evaluation the index lists leads to a whole badge
\* and a whole bundle (run_submit, index).
THEOREM ListedIsServed == Spec => []ListedEvaluationIsServed
<1>1. ASSUME IInv PROVE ListedEvaluationIsServed
  <2> SUFFICES ASSUME NEW i \in DOMAIN Listed
               PROVE  /\ BadgeServed(Listed[i].id, Listed[i].nth)
                      /\ BundleServed(Listed[i].id, Listed[i].nth)
    BY DEF ListedEvaluationIsServed, BadgeServed, BundleServed, Successors
  <2>1. i \in DOMAIN evaluations /\ Listed[i] = evaluations[i]
    BY <1>1, ListedIsEvaluated DEF IInv, Positions
  <2>. QED  BY <1>1, <2>1 DEF IInv, EvaluationsServed
<1>. QED  BY <1>1, Invariance, PTL

-----------------------------------------------------------------------------
FilesAndRuns ==
    /\ DOMAIN static = Ids /\ DOMAIN runs = Runs
    /\ \A i \in Ids : DOMAIN static[i] = {"badge", "bundle"}
    /\ \A r \in Runs :
         runs[r] # None =>
           runs[r].at \in {"bundle", "badge", "ended"} /\ runs[r].nth \in DOMAIN signed

LEMMA SignedGrows ==
    ASSUME IInv, NEW r \in Runs, Submit \/ Appraise(r)
    PROVE  DOMAIN signed' = DOMAIN signed \cup {Len(signed) + 1}
<1>1. signed \in Seq(Artifacts)
  BY DEF IInv, Positions
<1>2. PICK a : signed' = Append(signed, a)
  BY DEF Submit, Appraise
<1>3. \A n \in Nat : 1 .. n + 1 = (1 .. n) \cup {n + 1}
  OBVIOUS
<1>. QED  BY <1>1, <1>2, <1>3

LEMMA FilesAndRunsStep == IInv /\ FilesAndRuns /\ [Next]_vars => FilesAndRuns'
<1>. SUFFICES ASSUME IInv, FilesAndRuns, [Next]_vars PROVE FilesAndRuns'
  OBVIOUS
<1>1. CASE UNCHANGED <<static, runs, signed>>
  BY <1>1 DEF FilesAndRuns
<1>2. CASE WriteBadge \/ WriteBundle
  <2>1. DOMAIN static' = Ids /\ \A i \in Ids : DOMAIN static'[i] = {"badge", "bundle"}
    BY <1>2 DEF WriteBadge, WriteBundle, FilesAndRuns
  <2>. QED  BY <1>2, <2>1 DEF WriteBadge, WriteBundle, FilesAndRuns
<1>3. CASE Restart
  <2>1. \A at : \A i \in Ids : \A files \in Interrupted(static[i], at) :
           DOMAIN files = {"badge", "bundle"}
    BY DEF Interrupted, FilesAndRuns
  <2>2. DOMAIN static' = Ids /\ \A i \in Ids : DOMAIN static'[i] = {"badge", "bundle"}
    <3>1. CASE handler = None
      BY <1>3, <3>1 DEF Restart, FilesAndRuns
    <3>2. CASE handler # None
      <4>1. Slot \in Ids
        BY <3>2, SlotSucceeds
      <4>. QED  BY <1>3, <2>1, <3>2, <4>1 DEF Restart, FilesAndRuns
    <3>. QED  BY <3>1, <3>2
  <2>. QED  BY <1>3, <2>2 DEF Restart, FilesAndRuns
<1>4. CASE Submit
  <2>1. \A r \in Runs : DOMAIN signed' = DOMAIN signed \cup {Len(signed) + 1}
    BY <1>4, SignedGrows
  <2>. QED  BY <1>4, <2>1 DEF Submit, FilesAndRuns
<1>5. ASSUME NEW r \in Runs, Appraise(r) PROVE FilesAndRuns'
  <2>1. DOMAIN signed' = DOMAIN signed \cup {Len(signed) + 1}
    BY <1>5, SignedGrows
  <2>. QED  BY <1>5, <2>1 DEF Appraise, FilesAndRuns
<1>6. ASSUME NEW r \in Runs, SaveBundle(r) \/ SaveBadge(r) \/ KillRun(r)
      PROVE  FilesAndRuns'
  <2>1. runs[r] # None
    <3>1. \A place : At(r, place) => runs[r] # None
      BY DEF At
    <3>. QED  BY <1>6, <3>1 DEF SaveBundle, SaveBadge, KillRun
  <2>. QED  BY <1>6, <2>1 DEF SaveBundle, SaveBadge, KillRun, FilesAndRuns
<1>. QED  BY <1>1, <1>2, <1>3, <1>4, <1>5, <1>6 DEF Next, Tick, List, vars

\* Every submission, every run and every evaluation on the list refers to a
\* bundle that was signed, and no step of either program leaves it dangling
\* (run_submit, _cmd_verify).
THEOREM TypeCorrect == Spec => []TypeOK
<1>1. Init => FilesAndRuns
  BY DEF Init, FilesAndRuns, NoFiles
<1>2. ASSUME IInv, FilesAndRuns PROVE TypeOK
  <2>1. \A i \in DOMAIN evaluations : evaluations[i].id \in Ids
    <3>1. evaluations \in Seq([id : Ids, nth : Nat])
      BY <1>2 DEF IInv, Positions
    <3>2. \A i \in DOMAIN evaluations : evaluations[i] \in [id : Ids, nth : Nat]
      BY <3>1, ElementOfSeq, LenProperties
    <3>. QED  BY <3>2
  <2>. QED  BY <1>2, <2>1 DEF IInv, Positions, FilesAndRuns, TypeOK
<1>. QED  BY <1>1, <1>2, Invariance, FilesAndRunsStep, PTL DEF Spec

-----------------------------------------------------------------------------
(* The round trip through storage.                                         *)

\* An object is a function on its keys.
IsObject(o, keys) == o = [k \in keys |-> o[k]]

\* What from_dict reads is what to_dict writes, section by section.
LEMMA KeysCovered ==
    /\ Required.bundle \cup DOMAIN Default.bundle = Keys.bundle
    /\ Required.policy_evaluation \cup DOMAIN Default.policy_evaluation
         = Keys.policy_evaluation
    /\ Required.assurance \cup DOMAIN Default.assurance = Keys.assurance
    /\ Required.score \cup DOMAIN Default.score = Keys.score
    /\ Required.signature \cup DOMAIN Default.signature = Keys.signature
<1>1. Required.bundle \cup DOMAIN Default.bundle = Keys.bundle
  BY DEF Required, Default, Keys
<1>2. Required.policy_evaluation \cup DOMAIN Default.policy_evaluation
        = Keys.policy_evaluation
  BY DEF Required, Default, Keys
<1>3. Required.assurance \cup DOMAIN Default.assurance = Keys.assurance
  BY DEF Required, Default, Keys
<1>4. Required.score \cup DOMAIN Default.score = Keys.score
  BY DEF Required, Default, Keys
<1>5. Required.signature \cup DOMAIN Default.signature = Keys.signature
  BY DEF Required, Default, Keys
<1>. QED  BY <1>1, <1>2, <1>3, <1>4, <1>5

\* A section that is written whole is read as it was.
LEMMA SectionRoundTrip ==
    ASSUME NEW section, NEW o, IsObject(o, Keys[section]),
           Required[section] \cup DOMAIN Default[section] = Keys[section]
    PROVE  Write(section, o) = o /\ Read(section, o) = o
<1>1. DOMAIN o = Keys[section]
  BY DEF IsObject
<1>2. Write(section, o) = o
  BY DEF IsObject, Write, Restrict
<1>3. Read(section, o) = [k \in Keys[section] |-> o[k]]
  BY <1>1 DEF Read
<1>. QED  BY <1>2, <1>3 DEF IsObject

LEMMA OptionalRoundTrip ==
    ASSUME NEW section, NEW o, o = None \/ IsObject(o, Keys[section]),
           Required[section] \cup DOMAIN Default[section] = Keys[section]
    PROVE  Optional(section, o) = o /\ OptionalRead(section, o) = o
BY SectionRoundTrip DEF Optional, OptionalRead

\* A reference leaves out what is blank, and a missing key is read as blank.
LEMMA ReferenceRoundTrip ==
    ASSUME NEW role, NEW id, NEW hash, NEW location, NEW inline,
           NEW r, r = Reference(role, id, hash, location, inline)
    PROVE  Read("reference", ReferenceDict(r)) = r
<1> DEFINE all == {"role", "id", "hash", "location", "inline"}
           kept == {"role", "id"} \cup {k \in {"hash", "location", "inline"} : r[k] # Blank}
<1>1. r = [k \in all |-> r[k]]
  BY DEF Reference
<1>2. ReferenceDict(r) = [k \in kept |-> r[k]]
  BY DEF ReferenceDict, Restrict
<1>3. /\ Required["reference"] \cup DOMAIN Default["reference"] = all
      /\ \A k \in {"id", "hash", "location", "inline"} : Default["reference"][k] = Blank
  BY DEF Required, Default
<1>4. \A k \in all \ kept : r[k] = Blank /\ Default["reference"][k] = Blank
  BY <1>3
<1>5. \A k \in all :
         (IF k \in kept THEN [j \in kept |-> r[j]][k] ELSE Default["reference"][k]) = r[k]
  BY <1>4
<1> HIDE DEF all, kept
<1>6. Read("reference", ReferenceDict(r)) = [k \in all |-> r[k]]
  BY <1>2, <1>3, <1>5 DEF Read
<1>. QED  BY <1>1, <1>6

LEMMA AssuranceRoundTrip ==
    ASSUME NEW a, IsObject(a, Keys.assurance), IsObject(a.score, Keys.score)
    PROVE  AssuranceFrom(AssuranceDict(a)) = a
<1>1. Optional("score", a.score) = a.score /\ OptionalRead("score", a.score) = a.score
  BY KeysCovered, OptionalRoundTrip
<1>2. Write("assurance", a) = a /\ Read("assurance", a) = a
  BY KeysCovered, SectionRoundTrip
<1>3. [a EXCEPT !.score = a.score] = a
  BY DEF IsObject
<1>4. AssuranceDict(a) = a
  BY <1>1, <1>2, <1>3 DEF AssuranceDict
<1>. QED  BY <1>1, <1>2, <1>3, <1>4 DEF AssuranceFrom

\* What create_signed_bundle hands to sign_bundle.
Storable(b) ==
    /\ IsObject(b, Keys.bundle)
    /\ b.references = [i \in DOMAIN b.references |-> b.references[i]]
    /\ \A i \in DOMAIN b.references :
          \E role, id, hash, location, inline :
              b.references[i] = Reference(role, id, hash, location, inline)
    /\ b.policy_evaluation = None \/ IsObject(b.policy_evaluation, Keys.policy_evaluation)
    /\ IsObject(b.assurance, Keys.assurance)
    /\ IsObject(b.assurance.score, Keys.score)

\* Everything but the signatures' log entries comes back: an entry with neither
\* proof nor checkpoint loses its body.
LEMMA BundleRoundTrip ==
    ASSUME NEW b, Storable(b),
           NEW signatures, NEW u, u = FromDict(ToDict([b EXCEPT !.signatures = signatures]))
    PROVE  /\ u = [b EXCEPT !.signatures =
                      [i \in DOMAIN signatures |-> SignatureFrom(SignatureDict(signatures[i]))]]
<1> DEFINE s == [b EXCEPT !.signatures = signatures]
           d == ToDict(s)
           sigs == [i \in DOMAIN signatures |-> SignatureDict(signatures[i])]
           refs == [i \in DOMAIN b.references |-> ReferenceDict(b.references[i])]
<1>1. /\ {"references", "policy_evaluation", "assurance", "signatures"} \subseteq Keys.bundle
      /\ DOMAIN b = Keys.bundle
  BY DEF Keys, Storable, IsObject
<1>2. /\ IsObject(s, Keys.bundle)
      /\ \A k \in Keys.bundle : s[k] = IF k = "signatures" THEN signatures ELSE b[k]
  BY <1>1 DEF IsObject
<1>3. Write("bundle", s) = s
  BY <1>2, KeysCovered, SectionRoundTrip
<1>4. Optional("policy_evaluation", b.policy_evaluation) = b.policy_evaluation
      /\ OptionalRead("policy_evaluation", b.policy_evaluation) = b.policy_evaluation
  BY KeysCovered, OptionalRoundTrip DEF Storable
<1> HIDE DEF s
<1>5. d = [s EXCEPT !.references = refs,
                    !.policy_evaluation = b.policy_evaluation,
                    !.assurance = AssuranceDict(b.assurance),
                    !.signatures = sigs]
  BY <1>1, <1>2, <1>3, <1>4 DEF ToDict
<1>6. /\ IsObject(d, Keys.bundle)
      /\ \A k \in Keys.bundle :
           d[k] = CASE k = "references" -> refs
                    [] k = "assurance" -> AssuranceDict(b.assurance)
                    [] k = "signatures" -> sigs
                    [] OTHER -> b[k]
  <2>1. DOMAIN s = Keys.bundle
    BY <1>2 DEF IsObject
  <2> HIDE DEF refs, sigs, d
  <2>2. /\ d.references = refs
        /\ d.policy_evaluation = b.policy_evaluation
        /\ d.assurance = AssuranceDict(b.assurance)
        /\ d.signatures = sigs
        /\ \A k \in Keys.bundle \ {"references", "policy_evaluation", "assurance", "signatures"} :
              d[k] = b[k]
    BY <1>1, <1>2, <1>5, <2>1
  <2>3. IsObject(d, Keys.bundle)
    BY <1>5, <2>1 DEF IsObject
  <2>. QED  BY <2>2, <2>3
<1>7. Read("bundle", d) = d
  BY <1>6, KeysCovered, SectionRoundTrip
<1>8. [i \in DOMAIN refs |-> Read("reference", refs[i])] = b.references
  <2>1. \A i \in DOMAIN b.references :
            Read("reference", ReferenceDict(b.references[i])) = b.references[i]
    BY ReferenceRoundTrip DEF Storable
  <2>2. [i \in DOMAIN refs |-> Read("reference", refs[i])]
          = [i \in DOMAIN b.references |-> b.references[i]]
    BY <2>1
  <2>. QED  BY <2>2 DEF Storable
<1>9. AssuranceFrom(AssuranceDict(b.assurance)) = b.assurance
  BY AssuranceRoundTrip DEF Storable
<1>10. [i \in DOMAIN sigs |-> SignatureFrom(sigs[i])]
         = [i \in DOMAIN signatures |-> SignatureFrom(SignatureDict(signatures[i]))]
  OBVIOUS
<1>11. u = FromDict(d)
  BY DEF s
<1> HIDE DEF refs, sigs, d
<1>12. /\ d.references = refs
       /\ d.policy_evaluation = b.policy_evaluation
       /\ d.assurance = AssuranceDict(b.assurance)
       /\ d.signatures = sigs
       /\ \A k \in Keys.bundle \ {"references", "assurance", "signatures"} : d[k] = b[k]
  BY <1>1, <1>6
<1>13. u = [d EXCEPT !.references = b.references,
                     !.policy_evaluation = b.policy_evaluation,
                     !.assurance = b.assurance,
                     !.signatures =
                        [i \in DOMAIN signatures |-> SignatureFrom(SignatureDict(signatures[i]))]]
  <2>1. u = [d EXCEPT
                !.references = [i \in DOMAIN d.references |-> Read("reference", d.references[i])],
                !.policy_evaluation = OptionalRead("policy_evaluation", d.policy_evaluation),
                !.assurance = AssuranceFrom(d.assurance),
                !.signatures = [i \in DOMAIN d.signatures |-> SignatureFrom(d.signatures[i])]]
    BY <1>1, <1>7, <1>11, <1>12 DEF FromDict
  <2>2. [i \in DOMAIN d.references |-> Read("reference", d.references[i])] = b.references
    BY <1>8, <1>12
  <2>3. OptionalRead("policy_evaluation", d.policy_evaluation) = b.policy_evaluation
    BY <1>4, <1>12
  <2>4. AssuranceFrom(d.assurance) = b.assurance
    BY <1>9, <1>12
  <2>5. [i \in DOMAIN d.signatures |-> SignatureFrom(d.signatures[i])]
          = [i \in DOMAIN signatures |-> SignatureFrom(SignatureDict(signatures[i]))]
    BY <1>10, <1>12
  <2>. QED  BY <2>1, <2>2, <2>3, <2>4, <2>5
<1> DEFINE out == [i \in DOMAIN signatures |-> SignatureFrom(SignatureDict(signatures[i]))]
<1>14. DOMAIN d = Keys.bundle
  BY <1>6 DEF IsObject
<1> HIDE DEF out
<1>. QED  BY <1>1, <1>12, <1>13, <1>14 DEF out, Storable, IsObject

\* A signature keeps its key and its bytes.
LEMMA SignatureRoundTrip ==
    ASSUME NEW key, NEW algorithm, NEW hex, NEW entry,
           NEW s, s = [key_id |-> key, algorithm |-> algorithm, signature_hex |-> hex,
                       rekor_entry |-> entry]
    PROVE  LET t == SignatureFrom(SignatureDict(s))
           IN  t.key_id = key /\ t.signature_hex = hex
<1> DEFINE d == [s EXCEPT !.rekor_entry = RekorEntryDict(entry)]
<1>1. Write("signature", s) = s
  BY DEF Write, Restrict, Keys
<1>2. SignatureDict(s) = d
  BY <1>1 DEF SignatureDict
<1>3. IsObject(d, Keys.signature) /\ d.key_id = key /\ d.signature_hex = hex
  BY DEF IsObject, Keys
<1> HIDE DEF d
<1>4. Read("signature", d) = d
  BY <1>3, KeysCovered, SectionRoundTrip
<1>5. SignatureFrom(d) = [d EXCEPT !.rekor_entry = OptionalRead("rekor_entry", d.rekor_entry)]
  BY <1>4 DEF SignatureFrom
<1>. QED  BY <1>2, <1>3, <1>5 DEF IsObject, Keys

\* A verdict that is signed has no evaluation or a whole one.
LEMMA JudgedEvaluation ==
    ASSUME NEW x \in Judged, NEW v, v = Verdict[x[2]][x[1]]
    PROVE  v.evaluation = None \/ IsObject(v.evaluation, Keys.policy_evaluation)
<1>1. x[1] \in Quotes /\ x[2] \in Modules \cup {NoFile} /\ v # PolicyError
  BY DEF Judged
<1>2. v = Judge(x[2], x[1])
  BY <1>1 DEF Verdict
<1> DEFINE policy == LoadPolicy(x[2])
           evaluation == Evaluate(policy, x[1])
<1>3. CASE x[2] = NoFile
  BY <1>2, <1>3 DEF Judge
<1>4. CASE x[2] # NoFile
  <2>1. evaluation # PolicyError /\ v.evaluation = evaluation
    <3> HIDE DEF policy, evaluation
    <3>1. policy # PolicyError /\ evaluation # PolicyError
      BY <1>1, <1>2, <1>4 DEF Judge, policy, evaluation
    <3>. QED  BY <1>2, <1>4, <3>1 DEF Judge, policy, evaluation
  <2>2. \A d, p, f, n, g :
           IsObject([decision |-> d, rules_passed |-> p, rules_failed |-> f,
                     rules_not_evaluated |-> n, findings |-> g], Keys.policy_evaluation)
    BY DEF IsObject, Keys
  <2>3. \E d, p, f, n, g :
           evaluation = [decision |-> d, rules_passed |-> p, rules_failed |-> f,
                         rules_not_evaluated |-> n, findings |-> g]
    <3> HIDE DEF policy
    <3>. QED  BY <2>1, Zenon DEF Evaluate
  <2>. QED  BY <2>1, <2>2, <2>3
<1>. QED  BY <1>3, <1>4

LEMMA AssuranceShape ==
    ASSUME NEW quote, NEW conformance
    PROVE  /\ IsObject(Assurance(quote, conformance), Keys.assurance)
           /\ IsObject(Assurance(quote, conformance).score, Keys.score)
<1>1. IsObject(Assurance(quote, conformance), Keys.assurance)
  BY DEF IsObject, Assurance
<1>2. "score" \in Keys.assurance
  BY DEF Keys
<1>3. IsObject(Assurance(quote, conformance).score, Keys.score)
  BY <1>2 DEF IsObject, Assurance
<1>. QED  BY <1>1, <1>3

\* References are a list of them.
LEMMA ReferencesShape ==
    ASSUME NEW policy, NEW input, NEW refs, refs = DerivationReferences(policy, input)
    PROVE  /\ refs = [i \in DOMAIN refs |-> refs[i]]
           /\ \A i \in DOMAIN refs :
                 \E role, id, hash, location, inline :
                     refs[i] = Reference(role, id, hash, location, inline)
<1> DEFINE IsRef(r) ==
        \E role, id, hash, location, inline : r = Reference(role, id, hash, location, inline)
<1>1. \A role : IsRef(CommittedReference(role))
  BY DEF CommittedReference
<1>2. \A role, id, hash, location, inline : IsRef(Reference(role, id, hash, location, inline))
  OBVIOUS
<1>3. IsRef(IF policy = None
            THEN Reference("policy", UNSPECIFIED, Blank, Blank, Blank)
            ELSE Reference("policy", Cardinality(DOMAIN policy.rules),
                           PolicyHash(policy), Blank, DOMAIN policy.rules))
  BY <1>2
<1> HIDE DEF IsRef
<1>4. /\ refs = [i \in DOMAIN refs |-> refs[i]]
      /\ \A i \in DOMAIN refs : IsRef(refs[i])
  BY <1>1, <1>2, <1>3 DEF DerivationReferences
<1>. QED  BY <1>4 DEF IsRef

Sig(b, key, entry) ==
    [key_id |-> key, algorithm |-> "Ed25519",
     signature_hex |-> [key |-> key, payload |-> ToDict(b)], rekor_entry |-> entry]

SignedOver(b, key, entry) == [b EXCEPT !.signatures = <<Sig(b, key, entry)>>]

Unsigned(b) == Storable(b) /\ b.signatures = <<>>

\* A bundle carries both halves of what its policy came to.
Carries(b, v) ==
    /\ b.policy_evaluation = v.evaluation
    /\ b.assurance.score.policy_conformance = v.conformance

LEMMA CreatedForm ==
    ASSUME NEW quote, NEW v, NEW dimensions, NEW input, NEW now, NEW key,
           v.evaluation = None \/ IsObject(v.evaluation, Keys.policy_evaluation)
    PROVE  \E b : /\ Unsigned(b)
                  /\ Carries(b, v)
                  /\ b.dimensions = dimensions
                  /\ CreateSignedBundle(quote, v, dimensions, input, now, key)
                       = SignedOver(b, key, None)
<1> DEFINE Committed(role) == IF role \in Published THEN role ELSE Blank
           b == [bundle_id              |-> now,
                 timestamp              |-> now,
                 expires_at             |-> now + Ttl,
                 workload               |-> quote.name,
                 platform               |-> quote.platform,
                 engine_version         |-> "engine",
                 schema_version         |-> "1",
                 weight_profile         |-> "default",
                 policy_version         |-> PolicyVersion(v.policy),
                 rubric_version         |-> Committed("rubric"),
                 knowledge_base_version |-> Committed("knowledge_base"),
                 references             |-> DerivationReferences(v.policy, input),
                 evidence_graph_summary |-> quote.name,
                 policy_evaluation      |-> v.evaluation,
                 assurance              |-> Assurance(quote, v.conformance),
                 compliance_mappings    |-> <<>>,
                 secret_release         |-> None,
                 attack_db_snapshot     |-> "snapshot",
                 dimensions             |-> dimensions,
                 signatures             |-> <<>>]
<1>1. IsObject(b, Keys.bundle)
  BY DEF IsObject, Keys
<1>2. /\ b.references = DerivationReferences(v.policy, input)
      /\ b.policy_evaluation = v.evaluation
      /\ b.assurance = Assurance(quote, v.conformance)
      /\ b.dimensions = dimensions
      /\ b.signatures = <<>>
  OBVIOUS
<1>3. CreateSignedBundle(quote, v, dimensions, input, now, key) = SignBundle(b, key)
  BY DEF CreateSignedBundle
<1> HIDE DEF b
<1>4. Unsigned(b)
  BY <1>1, <1>2, ReferencesShape, AssuranceShape DEF Unsigned, Storable
<1>6. Carries(b, v)
  <2>1. Assurance(quote, v.conformance).score.policy_conformance = v.conformance
    BY DEF Assurance, Keys
  <2>. QED  BY <1>2, <2>1 DEF Carries
<1>5. SignBundle(b, key) = SignedOver(b, key, None)
  <2>1. Append(<<>>, Sig(b, key, None)) = <<Sig(b, key, None)>>
    OBVIOUS
  <2>2. SignBundle(b, key) = [b EXCEPT !.signatures = Append(@, Sig(b, key, None))]
    BY DEF SignBundle, Sig, Serialize
  <2>. QED  BY <1>2, <2>1, <2>2 DEF SignedOver
<1>. QED  BY <1>2, <1>3, <1>4, <1>5, <1>6

\* Everything that is signed: a bundle, the signature over its bytes, the badge
\* that was rendered for the two.
SignedForm(s) ==
    \E b, key, entry :
        /\ Unsigned(b)
        /\ \E x \in Judged : Carries(b, Verdict[x[2]][x[1]])
        /\ s.bundle = SignedOver(b, key, entry)
        /\ s.badge = BadgeSvg(b.assurance, b.bundle_id,
                              [key |-> key, payload |-> ToDict(b)], b.dimensions)

\* The fields of a signed bundle.
LEMMA SignedFields ==
    ASSUME NEW b, Unsigned(b), NEW key, NEW entry, NEW s, s = SignedOver(b, key, entry)
    PROVE  /\ IsObject(s, Keys.bundle)
           /\ s.signatures = <<Sig(b, key, entry)>>
           /\ s.signatures[1].key_id = key
           /\ s.signatures[1].algorithm = "Ed25519"
           /\ s.signatures[1].signature_hex = [key |-> key, payload |-> ToDict(b)]
           /\ s.assurance = b.assurance
           /\ s.bundle_id = b.bundle_id
           /\ s.dimensions = b.dimensions
<1>1. /\ {"signatures", "assurance", "bundle_id", "dimensions"} \subseteq DOMAIN b
      /\ DOMAIN b = Keys.bundle
  BY DEF Unsigned, Storable, IsObject, Keys
<1>2. s.signatures = <<Sig(b, key, entry)>> /\ s.signatures[1] = Sig(b, key, entry)
  BY <1>1 DEF SignedOver
<1>3. s.assurance = b.assurance /\ s.bundle_id = b.bundle_id /\ s.dimensions = b.dimensions
  BY <1>1 DEF SignedOver
<1>4. IsObject(s, Keys.bundle)
  BY <1>1 DEF SignedOver, IsObject
<1>. QED  BY <1>2, <1>3, <1>4 DEF Sig

LEMMA SignedHaveForm ==
    ASSUME NEW now \in Ids, NEW s \in SignedAt(now)
    PROVE  SignedForm(s)
<1>1. ASSUME NEW x \in Judged, NEW k, s = Submission(x[1], x[2], now, k)
      PROVE  SignedForm(s)
  <2> DEFINE v == Verdict[x[2]][x[1]]
             dimensions == WebDimensions(x[1], Assurance(x[1], v.conformance))
             c == CreateSignedBundle(x[1], v, dimensions, Blank, now, k)
  <2>1. s = Artifact(x[1], v, c, dimensions)
    BY <1>1 DEF Submission
  <2>2. v.evaluation = None \/ IsObject(v.evaluation, Keys.policy_evaluation)
    BY JudgedEvaluation
  <2> HIDE DEF v, dimensions
  <2>3. PICK b : Unsigned(b) /\ Carries(b, v) /\ b.dimensions = dimensions /\ c = SignedOver(b, k, None)
    BY <2>2, CreatedForm
  <2> HIDE DEF c
  <2>4. /\ s.bundle = c
        /\ s.badge = BadgeSvg(c.assurance, c.bundle_id, c.signatures[1].signature_hex,
                              dimensions)
    BY <2>1 DEF Artifact
  <2>5. \E y \in Judged : Carries(b, Verdict[y[2]][y[1]])
    BY <2>3 DEF v
  <2>. QED  BY <2>3, <2>4, <2>5, SignedFields DEF SignedForm
<1>2. ASSUME NEW x \in Judged, NEW k, NEW a, s = Appraisal(x[1], x[2], now, k, a)
      PROVE  SignedForm(s)
  <2> DEFINE v == Verdict[x[2]][x[1]]
             dimensions == BadgeDims(Assurance(x[1], v.conformance))
             c == CreateSignedBundle(x[1], v, dimensions, x[1].name, now, k)
             e == Anchored(c, a)
  <2>1. s = Artifact(x[1], v, e, e.dimensions)
    BY <1>2 DEF Appraisal
  <2>2. v.evaluation = None \/ IsObject(v.evaluation, Keys.policy_evaluation)
    BY JudgedEvaluation
  <2> HIDE DEF v, dimensions
  <2>3. PICK b : Unsigned(b) /\ Carries(b, v) /\ b.dimensions = dimensions /\ c = SignedOver(b, k, None)
    BY <2>2, CreatedForm
  <2> HIDE DEF c
  <2>4. e = [c EXCEPT !.signatures = <<Sig(b, k, a)>>]
    <3> DEFINE sig == c.signatures[1]
    <3>1. /\ sig.key_id = k /\ sig.algorithm = "Ed25519"
          /\ sig.signature_hex = [key |-> k, payload |-> ToDict(b)]
      BY <2>3, SignedFields
    <3>2. [key_id |-> sig.key_id, algorithm |-> sig.algorithm,
           signature_hex |-> sig.signature_hex, rekor_entry |-> a] = Sig(b, k, a)
      BY <3>1 DEF Sig
    <3>3. e = [c EXCEPT !.signatures =
                 <<[key_id |-> sig.key_id, algorithm |-> sig.algorithm,
                    signature_hex |-> sig.signature_hex, rekor_entry |-> a]>>]
      BY DEF Anchored
    <3>. QED  BY <3>2, <3>3
  <2>5. e = SignedOver(b, k, a)
    BY <2>3, <2>4 DEF SignedOver, Unsigned, Storable, IsObject
  <2> HIDE DEF e
  <2>6. /\ s.bundle = e
        /\ s.badge = BadgeSvg(e.assurance, e.bundle_id, e.signatures[1].signature_hex,
                              e.dimensions)
    BY <2>1 DEF Artifact
  <2>7. \E y \in Judged : Carries(b, Verdict[y[2]][y[1]])
    BY <2>3 DEF v
  <2>. QED  BY <2>3, <2>5, <2>6, <2>7, SignedFields DEF SignedForm
<1>. QED  BY <1>1, <1>2 DEF SignedAt

-----------------------------------------------------------------------------
(* What lies in the files.                                                 *)

BadgeFiles == {None, Truncated} \cup {signed[n].badge : n \in DOMAIN signed}

BundleFiles == {None, Truncated} \cup {Bundles[n] : n \in DOMAIN signed}

Folder(f) == f.badge \in BadgeFiles /\ f.bundle \in BundleFiles

\* Whoever was killed where: a file is missing, cut short, or was written whole.
FilesInv == (\A i \in Ids : Folder(static[i])) /\ Folder(output)

LEMMA FoldersStay ==
    ASSUME IInv, UNCHANGED signed \/ Submit \/ (\E r \in Runs : Appraise(r)), NEW f
    PROVE  Folder(f) => Folder(f)'
<1>1. CASE UNCHANGED signed
  BY <1>1 DEF Folder, BadgeFiles, BundleFiles, Bundles
<1>2. CASE Submit \/ \E r \in Runs : Appraise(r)
  <2>1. PICK a \in Artifacts : signed' = Append(signed, a)
    BY <1>2, Signing
  <2>2. /\ DOMAIN signed \subseteq DOMAIN signed'
        /\ \A n \in DOMAIN signed : signed'[n] = signed[n] /\ Bundles'[n] = Bundles[n]
    BY <2>1, SigningKeeps
  <2>. QED  BY <2>2 DEF Folder, BadgeFiles, BundleFiles
<1>. QED  BY <1>1, <1>2

LEMMA InterruptedFolder ==
    ASSUME NEW f, Folder(f), NEW at, NEW g \in Interrupted(f, at)
    PROVE  Folder(g)
BY DEF Interrupted, Folder, BadgeFiles, BundleFiles

LEMMA FilesStep == IInv /\ FilesAndRuns /\ FilesInv /\ [Next]_vars => FilesInv'
<1>. SUFFICES ASSUME IInv, FilesAndRuns, FilesInv, [Next]_vars PROVE FilesInv'
  OBVIOUS
<1>1. \A n \in DOMAIN signed : signed[n].badge \in BadgeFiles /\ Bundles[n] \in BundleFiles
  BY DEF BadgeFiles, BundleFiles
<1>2. CASE UNCHANGED <<static, output>> /\ (UNCHANGED signed \/ Submit
                                            \/ \E r \in Runs : Appraise(r))
  BY <1>2, FoldersStay DEF FilesInv
<1>3. CASE WriteBadge \/ WriteBundle
  <2>1. handler # None /\ UNCHANGED <<output, signed>>
    BY <1>3 DEF WriteBadge, WriteBundle
  <2>2. Slot \in Ids /\ handler.nth \in DOMAIN signed /\ DOMAIN static = Ids
    BY <2>1, SlotSucceeds DEF FilesAndRuns
  <2>3. ASSUME NEW i \in Ids PROVE Folder(static'[i])
    BY <1>1, <1>3, <2>2 DEF WriteBadge, WriteBundle, FilesInv, Folder
  <2>. QED  BY <2>1, <2>3, FoldersStay DEF FilesInv
<1>4. CASE Restart
  <2>1. UNCHANGED <<output, signed>>
    BY <1>4 DEF Restart
  <2>2. ASSUME NEW i \in Ids PROVE Folder(static'[i])
    <3>1. CASE handler = None
      BY <1>4, <3>1 DEF Restart, FilesInv
    <3>2. CASE handler # None
      <4>1. Slot \in Ids /\ DOMAIN static = Ids
        BY <3>2, SlotSucceeds DEF FilesAndRuns
      <4>2. PICK files \in Interrupted(static[Slot], handler.at) :
                static' = [static EXCEPT ![Slot] = files]
        BY <1>4, <3>2 DEF Restart
      <4>3. Folder(files)
        BY <4>1, <4>2, InterruptedFolder DEF FilesInv
      <4>. QED  BY <4>1, <4>2, <4>3 DEF FilesInv
    <3>. QED  BY <3>1, <3>2
  <2>. QED  BY <2>1, <2>2, FoldersStay DEF FilesInv
<1>5. ASSUME NEW r \in Runs, SaveBundle(r) \/ SaveBadge(r) \/ KillRun(r)
      PROVE  FilesInv'
  <2>1. runs[r] # None /\ UNCHANGED <<static, signed>>
    <3>1. \A place : At(r, place) => runs[r] # None
      BY DEF At
    <3>. QED  BY <1>5, <3>1 DEF SaveBundle, SaveBadge, KillRun
  <2>2. runs[r].nth \in DOMAIN signed
    BY <2>1 DEF FilesAndRuns
  <2>3. Folder(output')
    <3>1. CASE SaveBundle(r) \/ SaveBadge(r)
      BY <1>1, <2>2, <3>1 DEF SaveBundle, SaveBadge, FilesInv, Folder
    <3>2. CASE KillRun(r)
      BY <3>2, InterruptedFolder DEF KillRun, FilesInv
    <3>. QED  BY <1>5, <3>1, <3>2
  <2>. QED  BY <2>1, <2>3, FoldersStay DEF FilesInv
<1>6. \/ UNCHANGED <<static, output>> /\ (UNCHANGED signed \/ Submit
                                          \/ \E r \in Runs : Appraise(r))
      \/ WriteBadge \/ WriteBundle
      \/ Restart
      \/ \E r \in Runs : SaveBundle(r) \/ SaveBadge(r) \/ KillRun(r)
  BY DEF Next, vars, Tick, Submit, List, Appraise
<1>. QED  BY <1>2, <1>3, <1>4, <1>5, <1>6

LEMMA FilesAlways == Spec => [](IInv /\ FilesInv)
<1>1. Init => FilesAndRuns /\ FilesInv
  BY DEF Init, FilesAndRuns, FilesInv, NoFiles, Folder, BadgeFiles, BundleFiles
<1>. QED  BY <1>1, Invariance, FilesAndRunsStep, FilesStep, PTL DEF Spec

\* A stored bundle, loaded again: all of it but the log entry of its signature.
ReadsBackAs(u, b, key) ==
    /\ u.signatures # <<>>
    /\ u.signatures[1].key_id = key
    /\ u.signatures[1].signature_hex = [key |-> key, payload |-> ToDict(b)]
    /\ u.policy_evaluation = b.policy_evaluation
    /\ u.assurance = b.assurance
    /\ u.bundle_id = b.bundle_id
    /\ u.dimensions = b.dimensions
    /\ SignatureState(u) = "valid"

LEMMA ReadBack ==
    ASSUME NEW b, Unsigned(b), NEW key, NEW entry
    PROVE  ReadsBackAs(FromDict(ToDict(SignedOver(b, key, entry))), b, key)
<1> SUFFICES ASSUME NEW u, u = FromDict(ToDict(SignedOver(b, key, entry)))
             PROVE  ReadsBackAs(u, b, key)
  OBVIOUS
<1> DEFINE sigs == <<Sig(b, key, entry)>>
           back == [i \in DOMAIN sigs |-> SignatureFrom(SignatureDict(sigs[i]))]
           hex == [key |-> key, payload |-> ToDict(b)]
<1>1. u = [b EXCEPT !.signatures = back]
  BY BundleRoundTrip DEF SignedOver, Unsigned
<1>2. /\ DOMAIN back = {1}
      /\ back[1] = SignatureFrom(SignatureDict(Sig(b, key, entry)))
  BY DEF sigs
<1>3. back[1].key_id = key /\ back[1].signature_hex = hex
  BY <1>2, SignatureRoundTrip DEF Sig
<1>4. back # <<>>
  BY <1>2
<1> HIDE DEF back
<1>5. /\ {"signatures", "policy_evaluation", "assurance", "bundle_id", "dimensions"}
           \subseteq DOMAIN b
      /\ DOMAIN b = Keys.bundle
  BY DEF Unsigned, Storable, IsObject, Keys
<1>6. /\ u.signatures = back
      /\ u.policy_evaluation = b.policy_evaluation
      /\ u.assurance = b.assurance
      /\ u.bundle_id = b.bundle_id
      /\ u.dimensions = b.dimensions
  BY <1>1, <1>5
<1>7. [u EXCEPT !.signatures = <<>>] = b
  <2>1. [u EXCEPT !.signatures = <<>>] = [b EXCEPT !.signatures = <<>>]
    BY <1>1, <1>5
  <2>2. [b EXCEPT !.signatures = <<>>] = b
    BY <1>5 DEF Unsigned, Storable, IsObject
  <2>. QED  BY <2>1, <2>2
<1>8. SignatureState(u) = "valid"
  BY <1>3, <1>4, <1>6, <1>7 DEF SignatureState, Serialize
<1>. QED  BY <1>3, <1>4, <1>6, <1>8 DEF ReadsBackAs

LEMMA SignedAreSigned ==
    ASSUME IInv, NEW n \in DOMAIN signed
    PROVE  SignedForm(signed[n]) /\ \E now \in Ids : signed[n] \in SignedAt(now)
<1>1. signed[n] \in Artifacts
  BY DEF IInv, Positions
<1>2. PICK now \in Ids : signed[n] \in SignedAt(now)
  BY <1>1 DEF Artifacts
<1>. QED  BY <1>2, SignedHaveForm

\* Whatever the policy found, whoever wrote the file and whoever was killed: a
\* whole bundle file verifies when it is loaded again (from_dict, to_dict,
\* serialize_bundle_for_signing).
THEOREM StoredVerifies == Spec => []StoredBundleVerifies
<1>1. ASSUME IInv, FilesInv PROVE StoredBundleVerifies
  <2> SUFFICES ASSUME NEW f, Folder(f), IsThere(f.bundle)
               PROVE  VerifyPage(f.bundle).sig_state = "valid"
    BY <1>1 DEF StoredBundleVerifies, Folders, FilesInv
  <2>1. PICK n \in DOMAIN signed : f.bundle = Bundles[n]
    BY DEF Folder, BundleFiles, IsThere
  <2>2. f.bundle = ToDict(signed[n].bundle)
    BY <2>1 DEF Bundles
  <2>3. PICK c, other, log :
           Unsigned(c) /\ signed[n].bundle = SignedOver(c, other, log)
    <3>1. SignedForm(signed[n])
      BY <1>1, SignedAreSigned
    <3>. QED  BY <3>1 DEF SignedForm
  <2>4. Unsigned(c) /\ f.bundle = ToDict(SignedOver(c, other, log))
    BY <2>2, <2>3
  <2>5. ReadsBackAs(FromDict(f.bundle), c, other)
    BY <2>4, ReadBack
  <2>6. PICK u : u = FromDict(f.bundle)
    OBVIOUS
  <2>7. u.signatures # <<>> /\ SignatureState(u) = "valid"
    BY <2>5, <2>6 DEF ReadsBackAs
  <2>. QED  BY <2>6, <2>7 DEF VerifyPage
<1>. QED  BY <1>1, FilesAlways, PTL

\* A signature determines what is bound by it.
LEMMA SignatureDetermines ==
    ASSUME NEW b, Unsigned(b), NEW c, Unsigned(c), ToDict(b) = ToDict(c)
    PROVE  b = c
<1>1. \A x : Unsigned(x) => [x EXCEPT !.signatures = <<>>] = x
  BY DEF Unsigned, Storable, IsObject, Keys
<1>2. ASSUME NEW x, Unsigned(x) PROVE FromDict(ToDict(x)) = x
  <2>1. FromDict(ToDict([x EXCEPT !.signatures = <<>>]))
          = [x EXCEPT !.signatures =
                [i \in DOMAIN <<>> |-> SignatureFrom(SignatureDict(<<>>[i]))]]
    BY <1>2, BundleRoundTrip DEF Unsigned
  <2>2. [i \in DOMAIN <<>> |-> SignatureFrom(SignatureDict(<<>>[i]))] = <<>>
    OBVIOUS
  <2>. QED  BY <1>1, <1>2, <2>1, <2>2
<1>. QED  BY <1>2

\* A badge and a stored bundle match, by any of the three ways to tell, exactly
\* if they were made together (run_verify, run_verify_badge, verify-badge).
THEOREM BadgesAreBound == Spec => []BadgeBindsItsBundle
<1>1. ASSUME IInv, FilesInv PROVE BadgeBindsItsBundle
  <2> SUFFICES ASSUME NEW f, Folder(f), NEW g, Folder(g),
                      IsThere(f.badge), IsThere(g.bundle)
               PROVE  LET page == VerifyPage(g.bundle)
                          hex  == page.bundle.signatures[1].signature_hex
                          together == \E n \in DOMAIN signed :
                                        f.badge = signed[n].badge /\ g.bundle = Bundles[n]
                      IN  /\ (page.expected_commitment = f.badge.commitment) <=> together
                          /\ (BadgePage(f.badge, g.bundle).match = TRUE) <=> together
                          /\ (VerifyBadgeExitCode(f.badge, hex) = 0) <=> together
    BY <1>1 DEF BadgeBindsItsBundle, Folders, FilesInv
  <2>1. PICK m \in DOMAIN signed : f.badge = signed[m].badge
    BY DEF Folder, BadgeFiles, IsThere
  <2>2. PICK n \in DOMAIN signed : g.bundle = Bundles[n]
    BY DEF Folder, BundleFiles, IsThere
  <2> DEFINE Hex(b, key) == [key |-> key, payload |-> ToDict(b)]
             Commitment(b, key) ==
                 BadgeCommitment(b.bundle_id, b.assurance.level, Hex(b, key), b.dimensions)
             Badge(b, key) ==
                 [commitment |-> Commitment(b, key), bundle_id |-> b.bundle_id,
                  level |-> b.assurance.level, dimensions |-> b.dimensions]
             Facts(k, b, key, entry) ==
                 /\ Unsigned(b)
                 /\ signed[k].bundle = SignedOver(b, key, entry)
                 /\ signed[k].badge = Badge(b, key)
                 /\ b.assurance # None /\ Hex(b, key) # Blank
                 /\ Commitment(b, key) # None
  <2>3. ASSUME NEW k \in DOMAIN signed PROVE \E b, key, entry : Facts(k, b, key, entry)
    <3>1. PICK b, key, entry :
             /\ Unsigned(b)
             /\ signed[k].bundle = SignedOver(b, key, entry)
             /\ signed[k].badge = BadgeSvg(b.assurance, b.bundle_id, Hex(b, key), b.dimensions)
      BY <1>1, SignedAreSigned DEF SignedForm
    <3>2. PICK now \in Ids : signed[k] \in SignedAt(now)
      BY <1>1, SignedAreSigned
    <3> DEFINE s == signed[k].bundle
    <3>3. /\ s.assurance # None
          /\ s.signatures[1].signature_hex # Blank
          /\ BadgeCommitment(s.bundle_id, s.assurance.level,
                             s.signatures[1].signature_hex, s.dimensions) # None
      BY <3>2, NothingAssumption
    <3>4. /\ s.signatures[1].signature_hex = Hex(b, key)
          /\ s.assurance = b.assurance
          /\ s.bundle_id = b.bundle_id
          /\ s.dimensions = b.dimensions
      BY <3>1, SignedFields
    <3>5. b.assurance # None /\ Hex(b, key) # Blank /\ Commitment(b, key) # None
      BY <3>3, <3>4
    <3>6. signed[k].badge = Badge(b, key)
      BY <3>1, <3>5 DEF BadgeSvg
    <3>. QED  BY <3>1, <3>5, <3>6
  <2>4. PICK b, key, entry : Facts(m, b, key, entry)
    BY <2>3
  <2>5. PICK c, other, log : Facts(n, c, other, log)
    BY <2>3
  <2> DEFINE u == FromDict(g.bundle)
             together == \E k \in DOMAIN signed :
                           f.badge = signed[k].badge /\ g.bundle = Bundles[k]
  <2>6. /\ u.signatures # <<>>
        /\ u.signatures[1].signature_hex = Hex(c, other)
        /\ u.assurance = c.assurance
        /\ u.bundle_id = c.bundle_id
        /\ u.dimensions = c.dimensions
    <3>1. g.bundle = ToDict(SignedOver(c, other, log))
      BY <2>2, <2>5 DEF Bundles
    <3>2. ReadsBackAs(u, c, other)
      BY <2>5, <3>1, ReadBack
    <3> HIDE DEF u
    <3>. QED  BY <3>2 DEF ReadsBackAs
  <2>7. together => Badge(b, key) = Badge(c, other) /\ Hex(b, key) = Hex(c, other)
    <3> SUFFICES ASSUME NEW k \in DOMAIN signed,
                        f.badge = signed[k].badge, g.bundle = Bundles[k]
                 PROVE  Badge(b, key) = Badge(c, other) /\ Hex(b, key) = Hex(c, other)
      OBVIOUS
    <3>1. PICK e, third, proof : Facts(k, e, third, proof)
      BY <2>3
    <3>2. g.bundle = ToDict(SignedOver(e, third, proof))
      BY <3>1 DEF Bundles
    <3>3. /\ u.signatures[1].signature_hex = Hex(e, third)
          /\ u.assurance = e.assurance
          /\ u.bundle_id = e.bundle_id
          /\ u.dimensions = e.dimensions
      <4>1. ReadsBackAs(u, e, third)
        BY <3>1, <3>2, ReadBack
      <4> HIDE DEF u
      <4>. QED  BY <4>1 DEF ReadsBackAs
    <3>4. Badge(b, key) = Badge(e, third)
      BY <2>1, <2>4, <3>1
    <3>5. Hex(e, third) = Hex(c, other)
      BY <2>6, <3>3
    <3>6. Badge(e, third) = Badge(c, other)
      BY <2>6, <3>3, <3>5
    <3>7. Hex(b, key) = Hex(e, third)
      <4>1. Commitment(b, key) = Commitment(e, third)
        BY <3>4
      <4>. QED  BY <4>1 DEF BadgeCommitment
    <3>. QED  BY <3>4, <3>5, <3>6, <3>7
  <2>8. Hex(b, key) = Hex(c, other) => together
    <3> SUFFICES ASSUME Hex(b, key) = Hex(c, other)
                 PROVE  f.badge = signed[n].badge
      BY <2>2
    <3>1. ToDict(b) = ToDict(c) /\ key = other
      OBVIOUS
    <3>2. b = c
      BY <2>4, <2>5, <3>1, SignatureDetermines
    <3>. QED  BY <2>1, <2>4, <2>5, <3>1, <3>2
  <2>9. Commitment(b, key) = Commitment(c, other) => Hex(b, key) = Hex(c, other)
    BY DEF BadgeCommitment
  <2>10. together <=> Hex(b, key) = Hex(c, other)
    BY <2>7, <2>8
  <2>11. together <=> Commitment(b, key) = Commitment(c, other)
    <3>1. Badge(b, key) = Badge(c, other) => Commitment(b, key) = Commitment(c, other)
      OBVIOUS
    <3>. QED  BY <2>7, <2>8, <2>9, <3>1
  <2>12. /\ f.badge.commitment = Commitment(b, key)
         /\ f.badge.commitment # None
         /\ \A hex : VerifyBadge(f.badge, hex) <=> Hex(b, key) = hex
    <3>1. /\ f.badge.commitment = Commitment(b, key)
          /\ f.badge.bundle_id = b.bundle_id
          /\ f.badge.level = b.assurance.level
          /\ f.badge.dimensions = b.dimensions
      BY <2>1, <2>4
    <3>. QED  BY <2>4, <3>1 DEF VerifyBadge, BadgeCommitment
  <2> DEFINE page == VerifyPage(g.bundle)
  <2> HIDE DEF u, Hex, Commitment, Badge, Facts, together
  <2>13. page.bundle = u /\ page.expected_commitment = ExpectedCommitment(u)
    BY <2>6 DEF VerifyPage, u
  <2>14. ExpectedCommitment(u) = Commitment(c, other)
    BY <2>5, <2>6 DEF ExpectedCommitment, Commitment, Facts
  <2>15. BadgePage(f.badge, g.bundle).match = VerifyBadge(f.badge, Hex(c, other))
    BY <2>6, <2>12 DEF BadgePage, u
  <2>16. (VerifyBadgeExitCode(f.badge, Hex(c, other)) = 0)
            <=> VerifyBadge(f.badge, Hex(c, other))
    BY <2>5, <2>12 DEF VerifyBadgeExitCode, Facts
  <2>17. VerifyBadge(f.badge, Hex(c, other)) \in BOOLEAN
    BY DEF VerifyBadge
  <2>. QED  BY <2>6, <2>10, <2>11, <2>12, <2>13, <2>14, <2>15, <2>16, <2>17 DEF together
<1>. QED  BY <1>1, FilesAlways, PTL

-----------------------------------------------------------------------------
(* The weights of rules add up.                                            *)

LEMMA LeastIndex ==
    ASSUME NEW S, S \subseteq Nat, S # {}
    PROVE  \E i \in S : \A j \in S : i <= j
<1>1. PICK m \in S : \A y \in S : <<y, m>> \notin OpToRel(<, Nat)
  BY NatLessThanWellFounded, WFMin, Zenon
<1>2. \A y \in S : m <= y
  <2>1. TAKE y \in S
  <2>2. m \in Nat /\ y \in Nat
    BY <1>1
  <2>3. ~(y < m)
    BY <1>1, <2>2 DEF OpToRel
  <2> QED
    BY <2>2, <2>3
<1> QED
  BY <1>1, <1>2

(* Sums over sets.  g takes every subset of S to its sum of the weights w. *)
Pick(s) == CHOOSE x \in s : TRUE

Sums(g, w, S) ==
    g = [s \in SUBSET S |-> IF s = {} THEN 0 ELSE w[Pick(s)] + g[s \ {Pick(s)}]]

LEMMA OneLess ==
    ASSUME NEW S, IsFiniteSet(S), NEW s \in SUBSET S, NEW x \in s
    PROVE  /\ IsFiniteSet(s) /\ Cardinality(s) \in Nat
           /\ s \ {x} \in SUBSET S
           /\ Cardinality(s) - 1 \in Nat
           /\ Cardinality(s \ {x}) = Cardinality(s) - 1
<1>1. IsFiniteSet(s) /\ IsFiniteSet(s \ {x})
  BY FS_Subset
<1>2. Cardinality(s \ {x}) = Cardinality(s) - 1
  BY <1>1, FS_RemoveElement
<1>3. Cardinality(s) \in Nat /\ Cardinality(s \ {x}) \in Nat
  BY <1>1, FS_CardinalityType
<1>. QED  BY <1>1, <1>2, <1>3

LEMMA SumExists ==
    ASSUME NEW S, IsFiniteSet(S), NEW w
    PROVE  \E g : Sums(g, w, S)
<1> DEFINE Extend(g) == [s \in SUBSET S |-> IF s = {} THEN 0 ELSE w[Pick(s)] + g[s \ {Pick(s)}]]
           UpTo(g, n) == \A s \in SUBSET S : Cardinality(s) <= n => g[s] = Extend(g)[s]
           Bad == {n \in Nat : ~ \E g : UpTo(g, n)}
<1>1. Bad = {}
  <2> SUFFICES ASSUME Bad # {} PROVE FALSE
    OBVIOUS
  <2>1. PICK m \in Bad : \A n \in Bad : m <= n
    <3>1. Bad \subseteq Nat
      OBVIOUS
    <3> HIDE DEF Bad
    <3>. QED  BY <3>1, LeastIndex
  <2>2. m \in Nat /\ ~ \E g : UpTo(g, m)
    OBVIOUS
  <2>3. \E h : \A s \in SUBSET S : s # {} /\ Cardinality(s) <= m => h[s \ {Pick(s)}] = Extend(h)[s \ {Pick(s)}]
    <3>1. CASE m = 0
      <4>1. ASSUME NEW s \in SUBSET S, s # {} PROVE ~(Cardinality(s) <= m)
        <5>1. PICK x \in s : TRUE
          BY <4>1
        <5>2. Cardinality(s) \in Nat /\ Cardinality(s) - 1 \in Nat
          BY <5>1, OneLess
        <5>. QED  BY <3>1, <5>2
      <4>. QED  BY <4>1
    <3>2. CASE m # 0
      <4>1. m - 1 \in Nat /\ m - 1 \notin Bad
        <5> HIDE DEF Bad
        <5>. QED  BY <2>1, <2>2, <3>2
      <4>2. PICK h : UpTo(h, m - 1)
        BY <4>1
      <4>3. ASSUME NEW s \in SUBSET S, s # {}, Cardinality(s) <= m
            PROVE  h[s \ {Pick(s)}] = Extend(h)[s \ {Pick(s)}]
        <5>1. Pick(s) \in s
          BY <4>3 DEF Pick
        <5>2. s \ {Pick(s)} \in SUBSET S /\ Cardinality(s \ {Pick(s)}) <= m - 1
          BY <2>2, <4>3, <5>1, OneLess
        <5>. QED  BY <4>2, <5>2
      <4>. QED  BY <4>3
    <3>. QED  BY <3>1, <3>2
  <2>4. PICK h : \A s \in SUBSET S : s # {} /\ Cardinality(s) <= m => h[s \ {Pick(s)}] = Extend(h)[s \ {Pick(s)}]
    BY <2>3
  <2>5. UpTo(Extend(h), m)
    <3>1. SUFFICES ASSUME NEW s \in SUBSET S, Cardinality(s) <= m
                   PROVE  Extend(h)[s] = Extend(Extend(h))[s]
      OBVIOUS
    <3>2. CASE s = {}
      BY <3>2
    <3>3. CASE s # {}
      <4>1. Extend(h)[s] = w[Pick(s)] + h[s \ {Pick(s)}]
        BY <3>3
      <4>2. Extend(Extend(h))[s] = w[Pick(s)] + Extend(h)[s \ {Pick(s)}]
        BY <3>3
      <4>. QED  BY <2>4, <3>1, <3>3, <4>1, <4>2
    <3>. QED  BY <3>2, <3>3
  <2>. QED  BY <2>2, <2>5
<1>2. Cardinality(S) \in Nat
  BY FS_CardinalityType
<1>3. PICK g : UpTo(g, Cardinality(S))
  BY <1>1, <1>2
<1>4. \A s \in SUBSET S : g[s] = Extend(g)[s]
  BY <1>3, FS_Subset
<1>5. Extend(Extend(g)) = Extend(g)
  <2>1. ASSUME NEW s \in SUBSET S
        PROVE  (IF s = {} THEN 0 ELSE w[Pick(s)] + Extend(g)[s \ {Pick(s)}])
                  = (IF s = {} THEN 0 ELSE w[Pick(s)] + g[s \ {Pick(s)}])
    <3>1. s \ {Pick(s)} \in SUBSET S
      OBVIOUS
    <3>2. Extend(g)[s \ {Pick(s)}] = g[s \ {Pick(s)}]
      BY <1>4, <3>1
    <3> HIDE DEF Next
    <3>. QED  BY <3>2
  <2>. QED  BY <2>1
<1>. QED  BY <1>5 DEF Sums

LEMMA SumInsert ==
    ASSUME NEW S, IsFiniteSet(S), NEW w \in [S -> Nat], NEW g, Sums(g, w, S),
           NEW s \in SUBSET S
    PROVE  /\ g[s] \in Nat
           /\ s = {} => g[s] = 0
           /\ \A x \in s : g[s \ {x}] \in Nat /\ g[s] = w[x] + g[s \ {x}]
<1> DEFINE Good(t) == g[t] \in Nat /\ \A x \in t : g[t] = w[x] + g[t \ {x}]
           Bad == {n \in Nat : \E t \in SUBSET S : Cardinality(t) = n /\ ~Good(t)}
<1>1. g[{}] = 0
  BY DEF Sums
<1>2. ASSUME NEW t \in SUBSET S, t # {}
      PROVE  Pick(t) \in t /\ g[t] = w[Pick(t)] + g[t \ {Pick(t)}]
  <2>1. Pick(t) \in t
    BY <1>2 DEF Pick
  <2>2. g[t] = w[Pick(t)] + g[t \ {Pick(t)}]
    BY <1>2 DEF Sums
  <2>. QED  BY <2>1, <2>2
<1>3. Bad = {}
  <2> SUFFICES ASSUME Bad # {} PROVE FALSE
    OBVIOUS
  <2>1. PICK m \in Bad : \A n \in Bad : m <= n
    <3>1. Bad \subseteq Nat
      OBVIOUS
    <3> HIDE DEF Bad
    <3>. QED  BY <3>1, LeastIndex
  <2>2. PICK t \in SUBSET S : Cardinality(t) = m /\ ~Good(t)
    OBVIOUS
  <2>3. t # {}
    BY <1>1, <2>2
  <2>4. ASSUME NEW x \in t PROVE Good(t \ {x})
    <3>1. /\ t \ {x} \in SUBSET S /\ m - 1 \in Nat
          /\ Cardinality(t \ {x}) = m - 1
      BY <2>2, OneLess
    <3>2. m - 1 \notin Bad
      BY <2>1, <3>1
    <3>. QED  BY <3>1, <3>2
  <2> DEFINE c == Pick(t)
  <2>5. c \in t /\ g[t] = w[c] + g[t \ {c}]
    BY <1>2, <2>3
  <2>6. w[c] \in Nat
    BY <2>5
  <2>7. g[t] \in Nat
    <3>1. g[t \ {c}] \in Nat
      BY <2>4, <2>5
    <3> HIDE DEF c
    <3>. QED  BY <2>5, <2>6, <3>1
  <2> HIDE DEF c
  <2>8. ASSUME NEW x \in t, x # c PROVE g[t] = w[x] + g[t \ {x}]
    <3>1. g[t \ {c}] = w[x] + g[(t \ {c}) \ {x}]
      BY <2>4, <2>5, <2>8
    <3>2. g[t \ {x}] = w[c] + g[(t \ {x}) \ {c}]
      BY <2>4, <2>5, <2>8
    <3>3. (t \ {c}) \ {x} = (t \ {x}) \ {c}
      OBVIOUS
    <3>4. PICK v : v = g[(t \ {x}) \ {c}]
      OBVIOUS
    <3>5. v \in Nat
      <4>1. Good((t \ {x}) \ {c})
        <5>1. t \ {x} \in SUBSET S /\ c \in t \ {x}
          BY <2>5, <2>8
        <5>2. Cardinality(t \ {x}) = m - 1
          BY <2>2, OneLess
        <5>3. PICK k : k = Cardinality(t \ {x}) - 1
          OBVIOUS
        <5>4. /\ (t \ {x}) \ {c} \in SUBSET S
              /\ Cardinality((t \ {x}) \ {c}) = k
              /\ k \in Nat
          <6>1. PICK u : u = t \ {x}
            OBVIOUS
          <6>2. u \in SUBSET S /\ c \in u
            BY <5>1, <6>1
          <6>3. u \ {c} \in SUBSET S /\ Cardinality(u) - 1 \in Nat
                  /\ Cardinality(u \ {c}) = Cardinality(u) - 1
            BY <6>2, OneLess
          <6>. QED  BY <5>3, <6>1, <6>3
        <5>5. k \notin Bad
          <6>1. m \in Nat /\ k < m
            BY <5>2, <5>3, <5>4
          <6> HIDE DEF Bad
          <6>. QED  BY <2>1, <5>4, <6>1
        <5>. QED  BY <5>4, <5>5
      <4>. QED  BY <3>4, <4>1
    <3>6. w[x] \in Nat /\ w[c] \in Nat
      BY <2>5
    <3>7. g[t] = w[c] + (w[x] + v) /\ g[t \ {x}] = w[c] + v
      BY <2>5, <3>1, <3>2, <3>3, <3>4
    <3>8. w[c] + (w[x] + v) = w[x] + (w[c] + v)
      BY <3>5, <3>6
    <3>. QED  BY <3>7, <3>8
  <2>. QED  BY <2>2, <2>5, <2>7, <2>8
<1>4. ASSUME NEW t \in SUBSET S PROVE Good(t)
  <2>1. Cardinality(t) \in Nat
    BY FS_Subset, FS_CardinalityType
  <2>. QED  BY <1>3, <2>1
<1>5. \A x \in s : g[s \ {x}] \in Nat
  BY <1>4
<1>. QED  BY <1>1, <1>4, <1>5

\* Two sums over one set agree, whatever larger sets they were defined on.
LEMMA SumSame ==
    ASSUME NEW S, IsFiniteSet(S), NEW w, NEW g, Sums(g, w, S),
           NEW T \in SUBSET S, NEW v, NEW h, Sums(h, v, T),
           \A x \in T : v[x] = w[x]
    PROVE  \A t \in SUBSET T : h[t] = g[t]
<1> DEFINE Bad == {n \in Nat : \E t \in SUBSET T : Cardinality(t) = n /\ h[t] # g[t]}
<1>1. Bad = {}
  <2> SUFFICES ASSUME Bad # {} PROVE FALSE
    OBVIOUS
  <2>1. PICK m \in Bad : \A n \in Bad : m <= n
    <3>1. Bad \subseteq Nat
      OBVIOUS
    <3> HIDE DEF Bad
    <3>. QED  BY <3>1, LeastIndex
  <2>2. PICK t \in SUBSET T : Cardinality(t) = m /\ h[t] # g[t]
    OBVIOUS
  <2>3. t \in SUBSET S
    OBVIOUS
  <2>4. t # {}
    BY <2>2 DEF Sums
  <2>5. Pick(t) \in t
    BY <2>4 DEF Pick
  <2>6. /\ h[t] = v[Pick(t)] + h[t \ {Pick(t)}]
        /\ g[t] = w[Pick(t)] + g[t \ {Pick(t)}]
    BY <2>3, <2>4 DEF Sums
  <2>7. m - 1 \in Nat /\ Cardinality(t \ {Pick(t)}) = m - 1 /\ t \ {Pick(t)} \in SUBSET T
    BY <2>2, <2>3, <2>5, OneLess
  <2>8. h[t \ {Pick(t)}] = g[t \ {Pick(t)}]
    BY <2>1, <2>7
  <2>. QED  BY <2>2, <2>5, <2>6, <2>8
<1>2. \A t \in SUBSET T : Cardinality(t) \in Nat
  BY FS_Subset, FS_CardinalityType
<1>. QED  BY <1>1, <1>2

\* The sum over two sets without a common element is the sum of the sums.
LEMMA SumUnion ==
    ASSUME NEW S, IsFiniteSet(S), NEW w \in [S -> Nat], NEW g, Sums(g, w, S),
           NEW a \in SUBSET S, NEW b \in SUBSET S, a \cap b = {}
    PROVE  g[a \cup b] = g[a] + g[b]
<1> DEFINE Good(c) == a \cap c = {} => g[a \cup c] = g[a] + g[c]
           Bad == {n \in Nat : \E c \in SUBSET S : Cardinality(c) = n /\ ~Good(c)}
<1>1. Bad = {}
  <2> SUFFICES ASSUME Bad # {} PROVE FALSE
    OBVIOUS
  <2>1. PICK m \in Bad : \A n \in Bad : m <= n
    <3>1. Bad \subseteq Nat
      OBVIOUS
    <3> HIDE DEF Bad
    <3>. QED  BY <3>1, LeastIndex
  <2>2. PICK c \in SUBSET S : Cardinality(c) = m /\ ~Good(c)
    OBVIOUS
  <2>3. a \cap c = {} /\ g[a \cup c] # g[a] + g[c]
    BY <2>2
  <2>4. g[a] \in Nat /\ g[c] \in Nat /\ (c = {} => g[c] = 0)
    BY SumInsert
  <2>5. c # {}
    <3>1. SUFFICES ASSUME c = {} PROVE g[a \cup c] = g[a] + g[c]
      BY <2>3
    <3>2. a \cup c = a
      BY <3>1
    <3>3. g[a \cup c] = g[a]
      BY <3>2
    <3>4. g[c] = 0
      BY <2>4, <3>1
    <3>. QED  BY <2>4, <3>3, <3>4
  <2>6. PICK x \in c : TRUE
    BY <2>5
  <2>7. m - 1 \in Nat /\ Cardinality(c \ {x}) = m - 1 /\ c \ {x} \in SUBSET S
    BY <2>2, OneLess
  <2>8. g[a \cup (c \ {x})] = g[a] + g[c \ {x}]
    <3>1. PICK e : e = c \ {x}
      OBVIOUS
    <3>2. a \cap e = {} /\ e \in SUBSET S /\ Cardinality(e) = m - 1
      BY <2>3, <2>7, <3>1
    <3>3. m - 1 \notin Bad
      <4>1. m \in Nat
        OBVIOUS
      <4> HIDE DEF Bad
      <4>. QED  BY <2>1, <2>7, <4>1
    <3>4. Good(e)
      BY <2>7, <3>2, <3>3
    <3>. QED  BY <3>1, <3>2, <3>4
  <2>9. g[c \ {x}] \in Nat /\ g[c] = w[x] + g[c \ {x}]
    BY <2>6, SumInsert
  <2>10. g[a \cup c] = w[x] + g[(a \cup c) \ {x}]
    <3>1. a \cup c \in SUBSET S /\ x \in a \cup c
      OBVIOUS
    <3>. QED  BY <3>1, SumInsert
  <2>11. (a \cup c) \ {x} = a \cup (c \ {x})
    BY <2>3
  <2>12. w[x] \in Nat
    OBVIOUS
  <2>13. g[a \cup c] = w[x] + (g[a] + g[c \ {x}])
    BY <2>8, <2>10, <2>11
  <2>. QED  BY <2>3, <2>4, <2>9, <2>12, <2>13
<1>2. Cardinality(b) \in Nat
  BY FS_Subset, FS_CardinalityType
<1>. QED  BY <1>1, <1>2

\* What policy_conformance adds up, of the rules of one policy.
LEMMA ConformanceSum ==
    ASSUME NEW policy, IsFiniteSet(DOMAIN policy.rules),
           NEW w, w = [r \in DOMAIN policy.rules |-> SeverityWeight(policy.rules[r].severity)],
           NEW g, Sums(g, w, DOMAIN policy.rules),
           NEW names \in SUBSET DOMAIN policy.rules
    PROVE  MapThenSumSet(LAMBDA r : SeverityWeight(policy.rules[r].severity), names) = g[names]
<1> DEFINE v == [r \in names |-> SeverityWeight(policy.rules[r].severity)]
           Is(h) == h = [s \in SUBSET names |->
                           IF s = {} THEN 0
                           ELSE SeverityWeight(policy.rules[CHOOSE x \in s : TRUE].severity)
                                  + h[s \ {CHOOSE x \in s : TRUE}]]
<1>1. ASSUME NEW h PROVE Is(h) <=> Sums(h, v, names)
  <2>1. ASSUME NEW s \in SUBSET names
        PROVE  (IF s = {} THEN 0
                ELSE SeverityWeight(policy.rules[CHOOSE x \in s : TRUE].severity)
                       + h[s \ {CHOOSE x \in s : TRUE}])
                 = (IF s = {} THEN 0 ELSE v[Pick(s)] + h[s \ {Pick(s)}])
    <3>1. CASE s # {}
      <4>1. Pick(s) \in s
        BY <3>1 DEF Pick
      <4>2. v[Pick(s)] = SeverityWeight(policy.rules[Pick(s)].severity)
        BY <4>1
      <4>. QED  BY <4>2 DEF Pick
    <3>. QED  BY <3>1
  <2>2. [s \in SUBSET names |->
           IF s = {} THEN 0
           ELSE SeverityWeight(policy.rules[CHOOSE x \in s : TRUE].severity)
                  + h[s \ {CHOOSE x \in s : TRUE}]]
          = [s \in SUBSET names |-> IF s = {} THEN 0 ELSE v[Pick(s)] + h[s \ {Pick(s)}]]
    BY <2>1
  <2>. QED  BY <2>2 DEF Sums
<1>2. IsFiniteSet(names)
  BY FS_Subset
<1>3. PICK h : Is(h)
  <2>1. PICK h : Sums(h, v, names)
    BY <1>2, SumExists
  <2> HIDE DEF Is, v
  <2>. QED  BY <1>1, <2>1
<1>4. Is(CHOOSE f : Is(f))
  BY <1>3
<1>5. MapThenSumSet(LAMBDA r : SeverityWeight(policy.rules[r].severity), names)
        = (CHOOSE f : Is(f))[names]
  BY DEF MapThenSumSet, MapThenFoldSet
<1>6. PICK f : f = (CHOOSE k : Is(k))
  OBVIOUS
<1>7. Sums(f, v, names)
  BY <1>1, <1>4, <1>6
<1>8. \A x \in names : v[x] = w[x]
  OBVIOUS
<1> HIDE DEF Is, v
<1>9. f[names] = g[names]
  BY <1>7, <1>8, SumSame
<1>. QED  BY <1>5, <1>6, <1>9

\* The decision and the conformance of one outcome.
AgreeOn(p, c) ==
    /\ p.decision = "ALLOW" <=> c.satisfied = c.total
    /\ p.decision = "DENY" <=> c.failed > 0
    /\ c.satisfied + c.failed + c.not_evaluated = c.total

\* The rules of a policy fall into three parts; the decision asks which of them
\* are empty, the conformance what they weigh, and every rule weighs something.
LEMMA PartsDecide ==
    ASSUME NEW S, IsFiniteSet(S), S # {}, NEW w \in [S -> Nat], \A r \in S : w[r] > 0,
           NEW g, Sums(g, w, S),
           NEW passed, NEW failed, NEW rest,
           passed \cup failed \cup rest = S,
           passed \cap failed = {}, (passed \cup failed) \cap rest = {},
           NEW p, p.decision = Decision(passed, failed, rest),
           NEW c, c.satisfied = g[passed], c.failed = g[failed],
           c.not_evaluated = g[rest], c.total = g[S]
    PROVE  AgreeOn(p, c)
<1>1. passed \in SUBSET S /\ failed \in SUBSET S /\ rest \in SUBSET S
  OBVIOUS
<1>2. ASSUME NEW s \in SUBSET S
      PROVE  g[s] \in Nat /\ (g[s] = 0 <=> s = {})
  <2>1. g[s] \in Nat /\ (s = {} => g[s] = 0)
    BY SumInsert
  <2>2. CASE s # {}
    <3>1. PICK x \in s : TRUE
      BY <2>2
    <3>2. g[s \ {x}] \in Nat /\ g[s] = w[x] + g[s \ {x}]
      BY SumInsert
    <3>3. w[x] \in Nat /\ w[x] > 0
      OBVIOUS
    <3>. QED  BY <2>2, <3>2, <3>3
  <2>. QED  BY <2>1, <2>2
<1>3. g[S] = g[passed] + g[failed] + g[rest]
  <2>1. g[passed \cup failed] = g[passed] + g[failed]
    BY <1>1, SumUnion
  <2>2. passed \cup failed \in SUBSET S
    BY <1>1
  <2>3. g[(passed \cup failed) \cup rest] = g[passed \cup failed] + g[rest]
    BY <1>1, <2>2, SumUnion
  <2>. QED  BY <2>1, <2>3
<1>4. passed = {} => failed # {} \/ rest # {}
  OBVIOUS
<1>5. /\ p.decision = "ALLOW" <=> failed = {} /\ passed # {} /\ rest = {}
      /\ p.decision = "DENY" <=> failed # {}
  BY DEF Decision
<1>6. /\ g[passed] \in Nat /\ g[failed] \in Nat /\ g[rest] \in Nat
      /\ failed = {} <=> g[failed] = 0
      /\ rest = {} <=> g[rest] = 0
  BY <1>1, <1>2
<1>7. c.satisfied = c.total <=> failed = {} /\ rest = {}
  BY <1>3, <1>6
<1>8. c.failed > 0 <=> failed # {}
  BY <1>6
<1>. QED  BY <1>3, <1>4, <1>5, <1>6, <1>7, <1>8 DEF AgreeOn

\* What is judged is judged by a policy that has rules, or by none.
LEMMA JudgedAgree ==
    ASSUME NEW x \in Judged, NEW v, v = Verdict[x[2]][x[1]]
    PROVE  /\ v.evaluation = None <=> v.conformance = None
           /\ v.evaluation # None => AgreeOn(v.evaluation, v.conformance)
<1>1. x[1] \in Quotes /\ x[2] \in Modules \cup {NoFile} /\ v # PolicyError
  BY DEF Judged
<1>2. v = Judge(x[2], x[1])
  BY <1>1 DEF Verdict
<1>3. CASE x[2] = NoFile
  BY <1>2, <1>3 DEF Judge
<1>4. CASE x[2] # NoFile
  <2> DEFINE policy == LoadPolicy(x[2])
             evaluation == Evaluate(policy, x[1])
             conformance == PolicyConformance(evaluation, policy)
  <2>1. /\ policy # PolicyError /\ evaluation # PolicyError
        /\ v.evaluation = evaluation /\ v.conformance = conformance
    <3> HIDE DEF policy, evaluation, conformance
    <3>1. policy # PolicyError /\ evaluation # PolicyError
      BY <1>1, <1>2, <1>4 DEF Judge, policy, evaluation
    <3>. QED  BY <1>2, <1>4, <3>1 DEF Judge, policy, evaluation, conformance
  <2>2. evaluation # None /\ conformance # None
    <3>1. v.evaluation # None /\ v.conformance # None
      BY <1>4, OutcomesAreSomething
    <3>. QED  BY <2>1, <3>1
  <2> DEFINE rules == DOMAIN policy.rules
  <2>3. IsFiniteSet(rules)
    BY <1>1, <1>4, <2>1, PoliciesAreFinite
  <2>4. rules # {}
    BY <2>1 DEF LoadPolicy
  <2> HIDE DEF policy
  <2> DEFINE document == policy.source.document[x[1]]
             evaluated == rules \cap DOMAIN document
             passed == {r \in evaluated : document[r] \in Satisfying}
             failed == evaluated \ passed
             rest == rules \ evaluated
  <2>5. /\ evaluation.decision = Decision(passed, failed, rest)
        /\ evaluation.rules_passed = passed
        /\ evaluation.rules_failed = failed
        /\ evaluation.rules_not_evaluated = rest
    BY <2>1 DEF Evaluate
  <2>6. /\ passed \cup failed \cup rest = rules
        /\ passed \cap failed = {} /\ (passed \cup failed) \cap rest = {}
        /\ passed \in SUBSET rules /\ failed \in SUBSET rules /\ rest \in SUBSET rules
    OBVIOUS
  <2> HIDE DEF evaluation, passed, failed, rest
  <2> DEFINE w == [r \in rules |-> SeverityWeight(policy.rules[r].severity)]
  <2>7. w \in [rules -> Nat] /\ \A r \in rules : w[r] > 0
    BY DEF SeverityWeight
  <2>8. PICK g : Sums(g, w, rules)
    BY <2>3, SumExists
  <2>9. /\ conformance.satisfied = g[passed]
        /\ conformance.failed = g[failed]
        /\ conformance.not_evaluated = g[rest]
        /\ conformance.total = g[rules]
    <3> DEFINE Total(names) ==
            MapThenSumSet(LAMBDA r : SeverityWeight(policy.rules[r].severity), names)
    <3>1. \A names \in SUBSET rules : Total(names) = g[names]
      BY <2>3, <2>8, ConformanceSum
    <3>2. conformance = [satisfied     |-> Total(evaluation.rules_passed),
                         failed        |-> Total(evaluation.rules_failed),
                         not_evaluated |-> Total(evaluation.rules_not_evaluated),
                         total         |-> Total(rules)]
      BY DEF PolicyConformance
    <3> HIDE DEF Total, conformance
    <3>. QED  BY <2>5, <2>6, <3>1, <3>2
  <2> HIDE DEF w, rules, conformance
  <2>10. AgreeOn(evaluation, conformance)
    BY <2>3, <2>4, <2>5, <2>6, <2>7, <2>8, <2>9, PartsDecide
  <2>. QED  BY <2>1, <2>2, <2>10
<1>. QED  BY <1>3, <1>4

\* The decision and the conformance of any stored bundle, read back, agree,
\* though the two are computed apart (evaluate, policy_conformance).
THEOREM DecisionsAgree == Spec => []DecisionMatchesConformance
<1>1. ASSUME IInv, FilesInv PROVE DecisionMatchesConformance
  <2> DEFINE Holds(u) ==
          LET p == u.policy_evaluation
              c == u.assurance.score.policy_conformance
          IN  /\ p = None <=> c = None
              /\ p # None => AgreeOn(p, c)
  <2>1. ASSUME NEW f, Folder(f), IsThere(f.bundle) PROVE Holds(FromDict(f.bundle))
    <3>1. PICK n \in DOMAIN signed : f.bundle = Bundles[n]
      BY <2>1 DEF Folder, BundleFiles, IsThere
    <3>2. f.bundle = ToDict(signed[n].bundle)
      BY <3>1 DEF Bundles
    <3>3. PICK b, key, entry :
             /\ Unsigned(b)
             /\ \E x \in Judged : Carries(b, Verdict[x[2]][x[1]])
             /\ signed[n].bundle = SignedOver(b, key, entry)
      <4>1. SignedForm(signed[n])
        BY <1>1, SignedAreSigned
      <4>. QED  BY <4>1 DEF SignedForm
    <3>4. ReadsBackAs(FromDict(f.bundle), b, key)
      BY <3>2, <3>3, ReadBack
    <3>5. PICK u : u = FromDict(f.bundle)
      OBVIOUS
    <3>6. u.policy_evaluation = b.policy_evaluation /\ u.assurance = b.assurance
      BY <3>4, <3>5 DEF ReadsBackAs
    <3>7. PICK x \in Judged : Carries(b, Verdict[x[2]][x[1]])
      BY <3>3
    <3>8. PICK v : v = Verdict[x[2]][x[1]]
      OBVIOUS
    <3>9. /\ v.evaluation = None <=> v.conformance = None
          /\ v.evaluation # None => AgreeOn(v.evaluation, v.conformance)
      BY <3>8, JudgedAgree
    <3>10. b.policy_evaluation = v.evaluation
           /\ b.assurance.score.policy_conformance = v.conformance
      BY <3>7, <3>8 DEF Carries
    <3>11. Holds(u)
      BY <3>6, <3>9, <3>10
    <3>. QED  BY <3>5, <3>11
  <2> HIDE DEF Holds
  <2>2. ASSUME NEW f \in Folders, IsThere(f.bundle) PROVE Holds(FromDict(f.bundle))
    BY <1>1, <2>1, <2>2 DEF Folders, FilesInv
  <2>. QED  BY <2>2 DEF DecisionMatchesConformance, AgreeOn, Holds
<1>. QED  BY <1>1, FilesAlways, PTL
=============================================================================
