--------------------------- MODULE TcbLookup_proofs ---------------------------
(***************************************************************************)
(* The cached lookup keeps the promise of TcbFeed, for every time to live, *)
(* every set of configurations and documents, and a clock and a service    *)
(* that may move between any two steps of a call.                          *)
(***************************************************************************)
EXTENDS TcbLookup, TLAPS

\* What a request would get now is on record.
FeedIsGiven == \A s \in Live : <<clock, feed[s]>> \in published[s]

\* The response a call holds was given after the call read the clock.
CallWasGiven ==
    call # None /\ call.response # None =>
        \E p \in published[call.source] :
            p[2] = call.response /\ p[1] >= call.now

\* A cached reference was given no earlier than its stamp says.
CacheWasGiven ==
    \A s \in Sources :
        cache[s] # None =>
            IF s \in Live
            THEN \E p \in published[s] :
                    Outcome[p[2]] = cache[s].ref /\ p[1] >= cache[s].fetched_at
            ELSE cache[s].ref = None

IInv == TypeOK /\ FeedIsGiven /\ CallWasGiven /\ CacheWasGiven

-----------------------------------------------------------------------------
\* The initial states are sound.
LEMMA InitSound == Init => IInv
BY SMTT(30) DEF Init, IInv, TypeOK, FeedIsGiven, CallWasGiven, CacheWasGiven

\* Every step of the lookup and of its environment keeps the invariant.
LEMMA StepSound == IInv /\ [Next]_vars => IInv'
<1> SUFFICES ASSUME IInv, [Next]_vars PROVE IInv'
  OBVIOUS
<1> USE DEF IInv
<1>1. CASE Tick
  <2>1. TypeOK'
    BY <1>1, SMTT(30) DEF Tick, TypeOK
  <2>2. \A s \in Live : published[s] \subseteq published'[s]
    BY <1>1 DEF Tick
  <2>3. FeedIsGiven' /\ CallWasGiven' /\ CacheWasGiven'
    BY <1>1, <2>2, SMTT(30)
    DEF Tick, TypeOK, FeedIsGiven, CallWasGiven, CacheWasGiven
  <2> QED BY <2>1, <2>3
<1>2. ASSUME NEW s \in Live, NEW r \in Responses, Publish(s, r) PROVE IInv'
  <2>1. TypeOK'
    BY <1>2, SMTT(30) DEF Publish, TypeOK
  <2>2. \A q \in Live : published[q] \subseteq published'[q]
    BY <1>2 DEF Publish, TypeOK
  <2>3. FeedIsGiven'
    BY <1>2, SMTT(30) DEF Publish, TypeOK, FeedIsGiven
  <2>4. CallWasGiven' /\ CacheWasGiven'
    BY <1>2, <2>2, SMTT(30) DEF Publish, TypeOK, CallWasGiven, CacheWasGiven
  <2> QED BY <2>1, <2>3, <2>4
<1>3. ASSUME NEW s \in Sources, AskHit(s) PROVE IInv'
  BY <1>3 DEF AskHit, TypeOK, FeedIsGiven, CallWasGiven, CacheWasGiven
<1>4. ASSUME NEW s \in Sources, AskSilent(s) PROVE IInv'
  BY <1>4, SMTT(30)
  DEF AskSilent, Key, TypeOK, FeedIsGiven, CallWasGiven, CacheWasGiven
<1>5. ASSUME NEW s \in Sources, AskMiss(s) PROVE IInv'
  BY <1>5, SMTT(30)
  DEF AskMiss, TypeOK, FeedIsGiven, CallWasGiven, CacheWasGiven
<1>6. CASE Respond
  <2>1. TypeOK' /\ FeedIsGiven' /\ CacheWasGiven'
    BY <1>6, SMTT(30) DEF Respond, TypeOK, FeedIsGiven, CacheWasGiven
  <2>2. call'.source = call.source /\ call'.now = call.now
        /\ call'.response = feed[call.source] /\ call.source \in Live
        /\ call.now <= clock
    BY <1>6 DEF Respond, TypeOK
  <2>3. <<clock, feed[call.source]>> \in published[call.source]
    BY <2>2 DEF FeedIsGiven
  <2>4. \E p \in published'[call'.source] : p[2] = call'.response /\ p[1] >= call'.now
    BY <1>6, <2>2, <2>3 DEF Respond, TypeOK
  <2>5. CallWasGiven'
    BY <2>4 DEF CallWasGiven
  <2> QED BY <2>1, <2>5
<1>7. CASE Complete
  <2>1. FeedIsGiven' /\ CallWasGiven'
    BY <1>7 DEF Complete, FeedIsGiven, CallWasGiven
  <2>2. PICK p \in published[call.source] :
            p[2] = call.response /\ p[1] >= call.now
    BY <1>7 DEF Complete, CallWasGiven
  <2>3. Outcome[call.response] \in Outcomes
    BY <1>7 DEF Complete, TypeOK, Outcomes
  <2>4. TypeOK'
    <3> DEFINE entry == [fetched_at |-> call.now, ref |-> Outcome[call.response]]
    <3>1. call.source \in Sources /\ call.now \in 0 .. clock
      BY <1>7 DEF Complete, TypeOK, Live
    <3>2. entry \in [fetched_at : 0 .. clock, ref : Outcomes \cup {None}]
      BY <2>3, <3>1
    <3>3. cache' = [cache EXCEPT ![call.source] = entry]
      BY <1>7 DEF Complete, Key
    <3>4. cache' \in [Sources -> {None} \cup
                          [fetched_at : 0 .. clock, ref : Outcomes \cup {None}]]
      BY <3>1, <3>2, <3>3 DEF TypeOK
    <3> QED BY <1>7, <3>4 DEF Complete, TypeOK
  <2>5. CacheWasGiven'
    BY <1>7, <2>2, SMTT(30) DEF Complete, Key, TypeOK, CacheWasGiven
  <2> QED BY <2>1, <2>4, <2>5
<1>8. CASE Raise
  BY <1>8 DEF Raise, TypeOK, FeedIsGiven, CallWasGiven, CacheWasGiven
<1>9. CASE ClearCache
  BY <1>9 DEF ClearCache, TypeOK, FeedIsGiven, CallWasGiven, CacheWasGiven
<1>10. CASE UNCHANGED vars
  BY <1>10 DEF vars, TypeOK, FeedIsGiven, CallWasGiven, CacheWasGiven
<1> QED
  BY <1>1, <1>2, <1>3, <1>4, <1>5, <1>6, <1>7, <1>8, <1>9, <1>10 DEF Next, Ask

\* The invariant holds in every behaviour of the lookup.
LEMMA Sound == Spec => []IInv
BY InitSound, StepSound, PTL DEF Spec

-----------------------------------------------------------------------------
(* Only configurations with a live source are waited for, and no stamp is  *)
(* of a time to come (fetch_current_tcb).                                  *)
THEOREM TypeCorrect == Spec => []TypeOK
<1>1. IInv => TypeOK
  BY DEF IInv
<1> QED BY <1>1, Sound, PTL

\* What the vendor has given, as the promise counts it.
Given == [s \in Live |-> OutcomesOf(published[s])]

\* One more response on record is one more that was given.
LEMMA GivenOneMore ==
    ASSUME NEW A, NEW p
    PROVE  OutcomesOf(A \cup {p}) = OutcomesOf(A) \cup {Recorded(p)}
BY Zenon DEF OutcomesOf

\* The first response is on record before anything is asked.
LEMMA InitRefines == Init => Feed!Init
<1> SUFFICES ASSUME Init PROVE Feed!Init
  OBVIOUS
<1> DEFINE first == [s \in Live |-> Outcome[feed[s]]]
<1>1. first \in [Live -> Outcomes]
  BY DEF Init, Outcomes
<1>2. Given = [s \in Live |-> {<<0, first[s]>>}]
  BY DEF Init, Given, OutcomesOf, Recorded
<1> QED BY <1>1, <1>2 DEF Init, Feed!Init, Given

\* Every step of the lookup answers as promised or changes nothing of it.
LEMMA StepRefines == IInv /\ [Next]_vars => [Feed!Next]_(Feed!feedVars)
<1> SUFFICES ASSUME IInv, [Next]_vars PROVE Feed!Next \/ UNCHANGED Feed!feedVars
  OBVIOUS
<1> USE DEF IInv
<1>1. UNCHANGED <<clock, published, answer>> => UNCHANGED Feed!feedVars
  BY DEF Feed!feedVars
<1>2. CASE Tick
  <2> DEFINE now == [s \in Live |-> Outcome[feed[s]]]
  <2>1. now \in [Live -> Outcomes]
    BY DEF TypeOK, Outcomes
  <2>2. \A s \in Live : Given'[s] = Given[s] \cup {<<clock', now[s]>>}
    <3> TAKE s \in Live
    <3>1. published'[s] = published[s] \cup {<<clock', feed[s]>>}
      BY <1>2 DEF Tick
    <3>2. Given'[s] = OutcomesOf(published'[s]) /\ Given[s] = OutcomesOf(published[s])
      BY DEF Given
    <3>3. OutcomesOf(published'[s])
              = OutcomesOf(published[s]) \cup {Recorded(<<clock', feed[s]>>)}
      BY <3>1, GivenOneMore
    <3>4. Recorded(<<clock', feed[s]>>) = <<clock', now[s]>>
      BY DEF Recorded
    <3> HIDE DEF now
    <3> QED BY <3>2, <3>3, <3>4, Zenon
  <2>3. Given' = [s \in Live |-> Given[s] \cup {<<clock', now[s]>>}]
    BY <2>2 DEF Given
  <2> QED BY <1>2, <2>1, <2>3 DEF Tick, Feed!Tick, Feed!Next, Given
<1>3. ASSUME NEW s \in Live, NEW r \in Responses, Publish(s, r) PROVE Feed!Next
  <2>1. Outcome[r] \in Outcomes
    BY DEF Outcomes
  <2>2. \A q \in Live : Given'[q] = [Given EXCEPT ![s] = @ \cup {<<clock, Outcome[r]>>}][q]
    <3> TAKE q \in Live
    <3>1. published'[q] = IF q = s THEN published[q] \cup {<<clock, r>>} ELSE published[q]
      BY <1>3 DEF Publish, TypeOK
    <3>2. Given'[q] = OutcomesOf(published'[q]) /\ Given[q] = OutcomesOf(published[q])
      BY DEF Given
    <3>3. OutcomesOf(published[s] \cup {<<clock, r>>})
              = OutcomesOf(published[s]) \cup {Recorded(<<clock, r>>)}
      BY GivenOneMore
    <3>4. Recorded(<<clock, r>>) = <<clock, Outcome[r]>>
      BY DEF Recorded
    <3>5. Given'[q] = IF q = s THEN Given[q] \cup {<<clock, Outcome[r]>>} ELSE Given[q]
      BY <3>1, <3>2, <3>3, <3>4, Zenon
    <3> QED BY <3>5 DEF Given
  <2>3. Given' = [Given EXCEPT ![s] = @ \cup {<<clock, Outcome[r]>>}]
    BY <2>2 DEF Given
  <2> QED BY <1>3, <2>1, <2>3 DEF Publish, Feed!Publish, Feed!Next, Given
<1>4. ASSUME NEW s \in Sources, NEW asked \in 0 .. clock, NEW o \in Outcomes \cup {None},
             IF s \in Live THEN \E p \in published[s] :
                                    Outcome[p[2]] = o /\ asked - p[1] < Ttl
                           ELSE o = None,
             Returns(s, asked, o),
             UNCHANGED <<clock, published>>
      PROVE  Feed!Next
  <2>1. Feed!Justified(s, asked, o)
    <3>1. CASE s \in Live
      <4>1. PICK p \in published[s] : Outcome[p[2]] = o /\ asked - p[1] < Ttl
        BY <1>4, <3>1
      <4>2. <<p[1], Outcome[p[2]]>> \in Given[s]
        BY <3>1 DEF Given, OutcomesOf, Recorded
      <4> QED BY <3>1, <4>1, <4>2 DEF Feed!Justified, Given
    <3> QED BY <1>4, <3>1 DEF Feed!Justified
  <2> QED BY <1>4, <2>1 DEF Returns, Feed!Answer, Feed!Next
<1>5. ASSUME NEW s \in Sources, AskHit(s) PROVE Feed!Next
  <2>1. clock \in 0 .. clock /\ cache[s] # None
    BY <1>5 DEF AskHit, Fresh, Key, TypeOK
  <2>2. IF s \in Live THEN \E p \in published[s] :
                               Outcome[p[2]] = cache[s].ref /\ clock - p[1] < Ttl
                      ELSE cache[s].ref = None
    BY <1>5, <2>1, TtlIsPositive, SMTT(30) DEF AskHit, Fresh, Key, TypeOK, CacheWasGiven
  <2>3. cache[s].ref \in Outcomes \cup {None}
    BY <2>2 DEF Outcomes, TypeOK
  <2> QED BY <1>4, <1>5, <2>1, <2>2, <2>3 DEF AskHit, Key
<1>6. ASSUME NEW s \in Sources, AskSilent(s) PROVE Feed!Next
  BY <1>4, <1>6 DEF AskSilent, TypeOK
<1>7. CASE Complete
  <2>1. PICK p \in published[call.source] :
            p[2] = call.response /\ p[1] >= call.now
    BY <1>7 DEF Complete, CallWasGiven
  <2>2. call.source \in Live /\ call.source \in Sources /\ call.now \in 0 .. clock
    BY <1>7 DEF Complete, TypeOK, Live
  <2>3. Outcome[p[2]] \in Outcomes /\ call.now - p[1] < Ttl
    BY <2>1, <2>2, TtlIsPositive, SMTT(30) DEF TypeOK, Outcomes
  <2> QED BY <1>4, <1>7, <2>1, <2>2, <2>3 DEF Complete
<1> QED
  BY <1>1, <1>2, <1>3, <1>5, <1>6, <1>7
  DEF Next, Ask, AskMiss, Respond, Raise, ClearCache, vars

(* The lookup implements the promise: an answer is the vendor's own for    *)
(* that configuration, given less than a time to live before the question  *)
(* (fetch_current_tcb).                                                    *)
THEOREM PromiseKept == Spec => KeepsThePromise
BY InitRefines, StepRefines, Sound, PTL DEF Spec, KeepsThePromise, Feed!Spec
=============================================================================
