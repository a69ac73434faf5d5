--------------------------- MODULE KeyStore_proofs ---------------------------
(***************************************************************************)
(* Proofs about KeyStore, for every set of processes and of keys.          *)
(***************************************************************************)
EXTENDS KeyStore, TLAPS

(* A run that decided to create holds a key; one that reads found a file.  *)
KeyInv ==
    \A r \in Runs :
        /\ phase[r] \in {"creating", "opened", "written", "created", "loaded"}
              => key[r] \in Keys
        /\ phase[r] = "reading" => file # Absent

(* A truncated file has someone to account for it.                         *)
EmptyInv == file = Empty => \E q \in Runs : phase[q] \in {"opened", "cut"}

(* LostOnlyToARace, from the moment the key is written.                    *)
RaceInv ==
    \A r \in Runs :
        phase[r] \in {"written", "created"} =>
            \/ file = key[r]
            \/ \E q \in Runs \ {r} : phase[q] \in {"opened", "written", "created",
                                                  "killed", "cut"}

IInv == TypeOK /\ KeyInv /\ EmptyInv /\ RaceInv

LEMMA InitIInv == Init => IInv
<1> SUFFICES ASSUME Init PROVE IInv
  OBVIOUS
<1>1. TypeOK
  BY DEF Init, TypeOK, Phases, Ended
<1>2. KeyInv /\ EmptyInv /\ RaceInv
  BY FileStates DEF Init, KeyInv, EmptyInv, RaceInv
<1> QED
  BY <1>1, <1>2 DEF IInv

LEMMA TypeStep == TypeOK /\ KeyInv /\ [Next]_vars => TypeOK'
<1> SUFFICES ASSUME TypeOK, KeyInv, [Next]_vars PROVE TypeOK'
  OBVIOUS
<1> USE DEF TypeOK, Phases, Ended
<1>1. ASSUME NEW r \in Runs, FindsFile(r) PROVE TypeOK'
  BY <1>1 DEF FindsFile, Begins
<1>2. ASSUME NEW r \in Runs, NEW k \in Keys, Generates(r, k) PROVE TypeOK'
  BY <1>2 DEF Generates, Begins
<1>3. ASSUME NEW r \in Runs, Reads(r) PROVE TypeOK'
  BY <1>3 DEF Reads
<1>4. ASSUME NEW r \in Runs, Opens(r) PROVE TypeOK'
  BY <1>4 DEF Opens
<1>5. ASSUME NEW r \in Runs, Writes(r) PROVE TypeOK'
  BY <1>5 DEF Writes
<1>6. ASSUME NEW r \in Runs, Restricts(r) PROVE TypeOK'
  BY <1>6 DEF Restricts, KeyInv
<1>7. ASSUME NEW r \in Runs, Killed(r) PROVE TypeOK'
  BY <1>7 DEF Killed
<1>8. ASSUME NEW r \in Runs, CutShort(r) PROVE TypeOK'
  BY <1>8 DEF CutShort
<1>9. CASE UNCHANGED vars
  BY <1>9 DEF vars
<1> QED
  BY <1>1, <1>2, <1>3, <1>4, <1>5, <1>6, <1>7, <1>8, <1>9 DEF Next

(* One step keeps the three facts about the file.                          *)
LEMMA FileStep == IInv /\ [Next]_vars => (KeyInv /\ EmptyInv /\ RaceInv)'
<1> SUFFICES ASSUME TypeOK, KeyInv, EmptyInv, RaceInv, [Next]_vars
             PROVE  (KeyInv /\ EmptyInv /\ RaceInv)'
  BY DEF IInv
<1> USE FileStates DEF TypeOK, KeyInv, EmptyInv, RaceInv
<1>1. ASSUME NEW r \in Runs, FindsFile(r) PROVE (KeyInv /\ EmptyInv /\ RaceInv)'
  BY <1>1 DEF FindsFile, Begins
<1>2. ASSUME NEW r \in Runs, NEW k \in Keys, Generates(r, k)
      PROVE  (KeyInv /\ EmptyInv /\ RaceInv)'
  BY <1>2 DEF Generates, Begins
<1>3. ASSUME NEW r \in Runs, Reads(r) PROVE (KeyInv /\ EmptyInv /\ RaceInv)'
  BY <1>3 DEF Reads
<1>4. ASSUME NEW r \in Runs, Opens(r) PROVE (KeyInv /\ EmptyInv /\ RaceInv)'
  BY <1>4 DEF Opens
<1>5. ASSUME NEW r \in Runs, Writes(r) PROVE (KeyInv /\ EmptyInv /\ RaceInv)'
  BY <1>5 DEF Writes
<1>6. ASSUME NEW r \in Runs, Restricts(r) PROVE (KeyInv /\ EmptyInv /\ RaceInv)'
  BY <1>6 DEF Restricts
<1>7. ASSUME NEW r \in Runs, Killed(r) PROVE (KeyInv /\ EmptyInv /\ RaceInv)'
  BY <1>7 DEF Killed
<1>8. ASSUME NEW r \in Runs, CutShort(r) PROVE (KeyInv /\ EmptyInv /\ RaceInv)'
  BY <1>8 DEF CutShort
<1>9. CASE UNCHANGED vars
  BY <1>9 DEF vars
<1> QED
  BY <1>1, <1>2, <1>3, <1>4, <1>5, <1>6, <1>7, <1>8, <1>9 DEF Next

LEMMA IInvAlways == Spec => []IInv
<1>1. IInv /\ [Next]_vars => IInv'
  BY TypeStep, FileStep DEF IInv
<1> QED
  BY InitIInv, <1>1, PTL DEF Spec

(* The key file and the runs keep to their states.                         *)
THEOREM TypeCorrect == Spec => []TypeOK
<1>1. IInv => TypeOK
  BY DEF IInv
<1> QED
  BY <1>1, IInvAlways, PTL

(* A created identity that is no longer in the file was overwritten by a   *)
(* run that was creating one as well.                                      *)
THEOREM LostOnlyToARaceHolds == Spec => []LostOnlyToARace
<1>1. IInv => LostOnlyToARace
  BY DEF IInv, RaceInv, LostOnlyToARace
<1> QED
  BY <1>1, IInvAlways, PTL

(* Once settled, settled for good on the same key.                         *)
THEOREM KeySettlesHolds == Spec => KeySettles
<1>1. IInv /\ [Next]_vars => [Settled => file' = file /\ Settled']_vars
  <2> SUFFICES ASSUME IInv, Next, Settled PROVE file' = file /\ Settled'
    OBVIOUS
  <2> USE FileStates DEF IInv, TypeOK, Settled, Creating
  <2>1. PICK r \in Runs :
           \/ FindsFile(r)
           \/ \E k \in Keys : Generates(r, k)
           \/ Reads(r)
           \/ Opens(r)
           \/ Writes(r)
           \/ Restricts(r)
           \/ Killed(r)
           \/ CutShort(r)
    BY DEF Next
  <2>2. CASE FindsFile(r)
    BY <2>2 DEF FindsFile, Begins
  <2>3. CASE Reads(r)
    BY <2>3 DEF Reads
  <2>4. CASE Killed(r)
    BY <2>4 DEF Killed
  <2>5. ~(\E k \in Keys : Generates(r, k))
    BY DEF Generates
  <2>6. ~(Opens(r) \/ Writes(r) \/ Restricts(r) \/ CutShort(r))
    BY DEF Opens, Writes, Restricts, CutShort
  <2> QED
    BY <2>1, <2>2, <2>3, <2>4, <2>5, <2>6
<1> QED
  BY <1>1, IInvAlways, PTL DEF Spec, KeySettles

(* A run is refused only while the file is truncated, and someone is       *)
(* between truncating and writing it or was killed there.                  *)
THEOREM RefusedOnlyMidWriteHolds == Spec => RefusedOnlyMidWrite
<1> DEFINE Accounted ==
        \A r \in Runs :
            phase[r] # "failed" /\ phase'[r] = "failed"
                => \E q \in Runs : phase[q] \in {"opened", "cut"}
<1>1. IInv /\ [Next]_vars => [Accounted]_vars
  <2> SUFFICES ASSUME IInv, Next,
                      NEW r \in Runs, phase[r] # "failed", phase'[r] = "failed"
               PROVE  \E q \in Runs : phase[q] \in {"opened", "cut"}
    OBVIOUS
  <2> USE DEF IInv, TypeOK
  <2>1. PICK s \in Runs : \/ Reads(s)
                          \/ FindsFile(s) \/ \E k \in Keys : Generates(s, k)
                          \/ Opens(s) \/ Writes(s) \/ Restricts(s)
                          \/ Killed(s) \/ CutShort(s)
    BY DEF Next
  <2>2. Reads(s) /\ s = r
    BY <2>1 DEF Reads, FindsFile, Generates, Begins, Opens, Writes, Restricts,
                Killed, CutShort
  <2>3. file = Empty
    BY <2>2 DEF Reads, KeyInv
  <2> QED
    BY <2>3 DEF EmptyInv
<1> QED
  BY <1>1, IInvAlways, PTL DEF Spec, RefusedOnlyMidWrite
=============================================================================
