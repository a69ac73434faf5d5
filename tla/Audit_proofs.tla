----------------------------- MODULE Audit_proofs -----------------------------
(***************************************************************************)
(* Proofs about Audit, for every log, key history and trust root: types;   *)
(* exit 0 of an inspection proves the entry; a verified receipt is one the *)
(* service issued under a pinned key; the anchor and the receipt of one    *)
(* leaf get one answer; pinning a key revokes nothing.                     *)
(***************************************************************************)
EXTENDS Audit, WellFoundedInduction, TLAPS

\* The first position of a set of positions exists.
LEMMA MinExists ==
    ASSUME NEW S \in SUBSET Nat, S # {}
    PROVE  \E i \in S : \A j \in S : i <= j
<1>1. PICK m \in S : \A y \in S : <<y, m>> \notin OpToRel(<, Nat)
  BY NatLessThanWellFounded, WFMin, Zenon
<1>2. \A y \in S : m <= y
  <2>1. TAKE y \in S
  <2>2. m \in Nat /\ y \in Nat
    BY <1>1
  <2>3. ~(y < m)
    BY <1>1, <2>2 DEF OpToRel
  <2>. QED  BY <2>2, <2>3
<1>. QED  BY <1>1, <1>2

\* TrustRoot.key returns an entry of the id, and the first one.
LEMMA KeyIsFirst ==
    ASSUME NEW root \in Seq(Pins), NEW id, Key(root, id) # None
    PROVE  \E i \in DOMAIN root :
               /\ Key(root, id) = root[i]
               /\ root[i].key_id = id
               /\ id # None
               /\ \A j \in DOMAIN root : root[j].key_id = id => i <= j
<1>. DEFINE hits == {i \in DOMAIN root : root[i].key_id = id}
            first == CHOOSE i \in hits : \A j \in hits : i <= j
<1>1. hits # {} /\ id # None /\ Key(root, id) = root[first]
  BY DEF Key
<1>2. \E i \in hits : \A j \in hits : i <= j
  <2>1. hits \in SUBSET Nat
    OBVIOUS
  <2>. HIDE DEF hits
  <2>. QED  BY <1>1, <2>1, MinExists
<1>3. first \in hits /\ \A j \in hits : first <= j
  BY <1>2
<1>. QED  BY <1>1, <1>3

\* One more entry does not change which one is first.
LEMMA KeyStays ==
    ASSUME NEW root \in Seq(Pins), NEW k \in Pins, NEW id, Key(root, id) # None
    PROVE  Key(Append(root, k), id) = Key(root, id)
<1>. DEFINE longer == Append(root, k)
            hits == {i \in DOMAIN longer : longer[i].key_id = id}
            first == CHOOSE i \in hits : \A j \in hits : i <= j
<1>1. PICK f \in DOMAIN root :
          /\ Key(root, id) = root[f]
          /\ root[f].key_id = id
          /\ id # None
          /\ \A j \in DOMAIN root : root[j].key_id = id => f <= j
  BY KeyIsFirst
<1>2. /\ DOMAIN longer = 1 .. Len(root) + 1
      /\ DOMAIN root = 1 .. Len(root)
      /\ \A j \in DOMAIN root : longer[j] = root[j]
  OBVIOUS
<1>3. f \in hits /\ \A j \in hits : f <= j
  BY <1>1, <1>2
<1>4. hits \subseteq Nat
  BY <1>2
<1>5. first = f
  BY <1>3, <1>4
<1>6. Key(longer, id) = longer[first]
  BY <1>1, <1>3 DEF Key
<1>. QED  BY <1>1, <1>2, <1>5, <1>6

-----------------------------------------------------------------------------
\* The trust root in memory is a sequence of keys.
LEMMA RootIsSeq ==
    ASSUME TypeOK, trustFile # Malformed
    PROVE  LoadTrustRoot(trustFile) \in Seq(Pins)
BY DEF TypeOK, LoadTrustRoot

\* What the service signs with the key it uses is of its shape.
LEMMA SignedShapes ==
    ASSUME NEW text \in Seq(Digests), NEW k \in DOMAIN ServiceKeys
    PROVE  /\ SignedNote(text, k) \in NoteShape
           /\ \A h \in Headers, i \in Nat : Receipt(h, i, text, k) \in ReceiptShape
<1>1. ServiceKeys[k] \in DOMAIN CurveOf /\ Witness.material \in DOMAIN CurveOf
  BY ServiceHasKeys
<1>2. ASSUME NEW m \in DOMAIN CurveOf, NEW n \in {ServiceName, Witness.name}
      PROVE  Line(n, m, text) \in LineShape
  BY DEF Line, LineShape
<1>3. SignedNote(text, k) \in NoteShape
  BY <1>1, <1>2 DEF SignedNote, NoteShape
<1>4. ASSUME NEW h \in Headers, NEW i \in Nat
      PROVE  Receipt(h, i, text, k) \in ReceiptShape
  BY <1>1 DEF Receipt, ReceiptShape
<1>. QED  BY <1>3, <1>4

(* The log, the note and the receipts are of their types, the service uses *)
(* one of its keys, and every exit code is one of the four.                *)
THEOREM TypeCorrect == Spec => []TypeOK
<1>1. Init => TypeOK
  <2>. SUFFICES ASSUME Init PROVE TypeOK
    OBVIOUS
  <2>1. 1 \in DOMAIN ServiceKeys
    BY ServiceHasKeys
  <2>2. note \in NoteShape
    <3>1. <<>> \in Seq(Digests)
      OBVIOUS
    <3>2. SignedNote(<<>>, 1) \in NoteShape
      BY <2>1, <3>1, SignedShapes
    <3>. QED  BY <3>2 DEF Init
  <2>3. log \in Seq(Digests) /\ issued \subseteq ReceiptShape
    BY DEF Init
  <2>4. trustFile \in {None, Malformed} \cup Seq(Pins)
    BY DEF Init
  <2>5. key \in DOMAIN ServiceKeys /\ inspection = None
    BY <2>1 DEF Init
  <2>. QED  BY <2>2, <2>3, <2>4, <2>5 DEF TypeOK
<1>2. ASSUME TypeOK, [Next]_vars
      PROVE  TypeOK'
  <2>. USE <1>2 DEF TypeOK
  <2>1. CASE \E d \in Digests : Register(d)
    BY <2>1 DEF Register
  <2>2. CASE Publish
    <3>1. note' \in NoteShape
      BY <2>2, SignedShapes DEF Publish
    <3>. QED  BY <2>2, <3>1 DEF Publish
  <2>3. CASE \E i \in 0 .. Len(log) - 1, h \in Headers : Issue(i, h)
    <3>1. PICK i \in 0 .. Len(log) - 1, h \in Headers : Issue(i, h)
      BY <2>3
    <3>2. Receipt(h, i, log, key) \in ReceiptShape
      BY SignedShapes
    <3>. QED  BY <3>1, <3>2 DEF Issue
  <2>4. CASE Rotate
    <3>1. key' \in DOMAIN ServiceKeys
      BY <2>4, ServiceHasKeys DEF Rotate
    <3>. QED  BY <2>4, <3>1 DEF Rotate
  <2>5. CASE \E k \in Pins : Pin(k)
    BY <2>5 DEF Pin, LoadTrustRoot
  <2>6. CASE \E e \in Answers \cup {None} : InspectEntry(e)
    BY <2>6 DEF InspectEntry, EXIT_ERROR, EXIT_TRACEBACK
  <2>7. CASE \E c \in Notes : InspectCheckpoint(c)
    BY <2>7 DEF InspectCheckpoint, ExitCode, EXIT_TRACEBACK, EXIT_VERIFIED, EXIT_UNPROVEN
  <2>8. CASE UNCHANGED vars
    BY <2>8 DEF vars
  <2>. QED  BY <2>1, <2>2, <2>3, <2>4, <2>5, <2>6, <2>7, <2>8 DEF Next
<1>. QED  BY <1>1, <1>2, PTL DEF Spec

-----------------------------------------------------------------------------
(* What the service signed, in a receipt or a note, and what the log said  *)
(* of an entry, is over a tree the log has grown from.                     *)
Grown(tree) ==
    /\ Len(tree) <= Len(log)
    /\ \A j \in 1 .. Len(tree) : tree[j] = log[j]

HonestReceipt(s) ==
    /\ s.proof + 1 \in DOMAIN s.payload
    /\ Grown(s.payload)
    /\ \E k \in DOMAIN ServiceKeys :
           /\ s = Receipt(s.protected, s.proof, s.payload, k)
           /\ s.protected.alg \in {None, CurveOf[ServiceKeys[k]]}

IssuedInv == \A s \in issued : HonestReceipt(s)

NoteInv ==
    /\ Grown(note.text)
    /\ \E k \in DOMAIN ServiceKeys : note = SignedNote(note.text, k)

HonestEntry(e) ==
    Legible(e.proof) => /\ e.proof \in ProofShape
                        /\ e.proof.root # None => Grown(e.proof.root)

HonestCheckpoint(c) ==
    /\ c \in NoteShape
    /\ Grown(c.text)

\* An inspection is over the trust root it read, and exit 0 after both checks.
InspectionInv ==
    inspection # None =>
        /\ inspection.exit \in {None, EXIT_VERIFIED} =>
               HonestEntry(inspection.entry) /\ inspection.root \in Seq(Pins)
        /\ inspection.exit = EXIT_VERIFIED =>
               /\ VerifyInclusionProof(inspection.entry) = "True"
               /\ VerifyNote(inspection.checkpoint, inspection.root) = "True"
               /\ HonestCheckpoint(inspection.checkpoint)

\* The log is append-only, so a tree it has grown from stays one.
LEMMA GrownStays ==
    ASSUME TypeOK, [Next]_vars, NEW tree \in Seq(Digests), Grown(tree)
    PROVE  Grown(tree)'
<1>1. CASE log' = log
  BY <1>1 DEF Grown
<1>2. CASE \E d \in Digests : log' = Append(log, d)
  <2>1. Len(log') = Len(log) + 1 /\ \A j \in 1 .. Len(log) : log'[j] = log[j]
    BY <1>2 DEF TypeOK
  <2>. QED  BY <2>1 DEF Grown, TypeOK
<1>3. log' = log \/ \E d \in Digests : log' = Append(log, d)
  BY DEF Next, vars, Register, Publish, Issue, Rotate, Pin, InspectEntry, InspectCheckpoint
<1>. QED  BY <1>1, <1>2, <1>3

LEMMA LogIsGrown == ASSUME TypeOK PROVE Grown(log)
BY DEF TypeOK, Grown

LEMMA IssuedInvHolds == Spec => []IssuedInv
<1>1. Init => IssuedInv
  BY DEF Init, IssuedInv
<1>2. ASSUME TypeOK, IssuedInv, [Next]_vars
      PROVE  IssuedInv'
  <2>1. ASSUME NEW s \in issued
        PROVE  HonestReceipt(s)'
    <3>1. HonestReceipt(s) /\ s.payload \in Seq(Digests)
      BY <1>2 DEF IssuedInv, TypeOK, ReceiptShape
    <3>2. Grown(s.payload)'
      BY <1>2, <3>1, GrownStays DEF HonestReceipt
    <3>. QED  BY <3>1, <3>2 DEF HonestReceipt
  <2>2. CASE \E i \in 0 .. Len(log) - 1, h \in Headers : Issue(i, h)
    <3>1. PICK i \in 0 .. Len(log) - 1, h \in Headers : Issue(i, h)
      BY <2>2
    <3>2. PICK s : s = Receipt(h, i, log, key)
      OBVIOUS
    <3>3. issued' = issued \cup {s} /\ log' = log
      BY <3>1, <3>2 DEF Issue
    <3>4. HonestReceipt(s)
      <4>1. /\ s.proof = i
            /\ s.payload = log
            /\ s = Receipt(s.protected, s.proof, s.payload, key)
            /\ s.protected.alg \in {None, CurveOf[ServiceKeys[key]]}
        BY <3>1, <3>2 DEF Issue, Receipt
      <4>2. key \in DOMAIN ServiceKeys /\ i + 1 \in DOMAIN log
        BY <1>2 DEF TypeOK
      <4>. QED  BY <1>2, <4>1, <4>2, LogIsGrown DEF HonestReceipt
    <3>5. HonestReceipt(s)'
      BY <3>3, <3>4 DEF HonestReceipt, Grown
    <3>. QED  BY <2>1, <3>3, <3>5 DEF IssuedInv
  <2>3. CASE issued' = issued
    BY <2>1, <2>3 DEF IssuedInv
  <2>4. issued' = issued \/ \E i \in 0 .. Len(log) - 1, h \in Headers : Issue(i, h)
    BY <1>2 DEF Next, vars, Register, Publish, Rotate, Pin, InspectEntry, InspectCheckpoint
  <2>. QED  BY <2>2, <2>3, <2>4
<1>. QED  BY <1>1, <1>2, TypeCorrect, PTL DEF Spec

LEMMA NoteInvHolds == Spec => []NoteInv
<1>1. Init => NoteInv
  <2>. SUFFICES ASSUME Init PROVE NoteInv
    OBVIOUS
  <2>1. note.text = <<>> /\ note = SignedNote(note.text, 1)
    BY DEF Init, SignedNote
  <2>2. 1 \in DOMAIN ServiceKeys
    BY ServiceHasKeys
  <2>3. Grown(<<>>)
    BY DEF Init, Grown
  <2>. QED  BY <2>1, <2>2, <2>3 DEF NoteInv
<1>2. ASSUME TypeOK, NoteInv, [Next]_vars
      PROVE  NoteInv'
  <2>1. CASE Publish
    <3>1. note' = SignedNote(log, key) /\ log' = log /\ key \in DOMAIN ServiceKeys
      BY <1>2, <2>1 DEF Publish, TypeOK
    <3>2. note'.text = log
      BY <3>1 DEF SignedNote
    <3>3. Grown(note.text)'
      BY <1>2, <3>1, <3>2, LogIsGrown DEF Grown
    <3>. QED  BY <3>1, <3>2, <3>3 DEF NoteInv
  <2>2. CASE note' = note
    <3>1. note.text \in Seq(Digests)
      BY <1>2 DEF TypeOK, NoteShape
    <3>2. Grown(note.text)'
      <4>1. Grown(note.text)
        BY <1>2 DEF NoteInv
      <4>2. \A text \in Seq(Digests) : Grown(text) => Grown(text)'
        BY <1>2, GrownStays
      <4>. QED  BY <2>2, <3>1, <4>1, <4>2 DEF Grown
    <3>. QED  BY <1>2, <2>2, <3>2 DEF NoteInv
  <2>3. Publish \/ note' = note
    BY <1>2 DEF Next, vars, Register, Issue, Rotate, Pin, InspectEntry, InspectCheckpoint
  <2>. QED  BY <2>1, <2>2, <2>3
<1>. QED  BY <1>1, <1>2, TypeCorrect, PTL DEF Spec

LEMMA HonestEntryStays ==
    ASSUME TypeOK, [Next]_vars, NEW e, HonestEntry(e)
    PROVE  HonestEntry(e)'
<1>1. ASSUME Legible(e.proof), e.proof.root # None
      PROVE  Grown(e.proof.root)'
  <2>1. e.proof.root \in Seq(Digests) /\ Grown(e.proof.root)
    BY <1>1 DEF HonestEntry, ProofShape
  <2>. QED  BY <2>1, GrownStays
<1>. QED  BY <1>1 DEF HonestEntry

LEMMA HonestCheckpointStays ==
    ASSUME TypeOK, [Next]_vars, NEW c, HonestCheckpoint(c)
    PROVE  HonestCheckpoint(c)'
<1>1. c.text \in Seq(Digests) /\ Grown(c.text)
  BY DEF HonestCheckpoint, NoteShape
<1>2. Grown(c.text)'
  BY <1>1, GrownStays
<1>. QED  BY <1>2 DEF HonestCheckpoint

\* Whatever note arrives in place of the service's, its text is one the log has grown from.
LEMMA NotesAreHonest ==
    ASSUME TypeOK, NoteInv, NEW c \in Notes, c # None, c # Malformed
    PROVE  HonestCheckpoint(c)
<1>1. note \in NoteShape /\ Grown(note.text)
  BY DEF TypeOK, NoteInv
<1>2. CASE c = note
  BY <1>1, <1>2 DEF HonestCheckpoint
<1>3. CASE c = [note EXCEPT !.text = <<>>]
  <2>1. <<>> \in Seq(Digests)
    OBVIOUS
  <2>2. c.text = <<>> /\ c \in NoteShape
    BY <1>1, <1>3, <2>1 DEF NoteShape
  <2>3. Grown(<<>>)
    BY DEF Grown, TypeOK
  <2>. QED  BY <2>2, <2>3 DEF HonestCheckpoint
<1>. QED  BY <1>2, <1>3 DEF Notes

\* Whatever the log answers for an entry, the proof is over its own tree.
LEMMA AnswersAreHonest ==
    ASSUME TypeOK, NEW e \in Answers
    PROVE  HonestEntry(e)
<1>1. PICK i \in DOMAIN log :
          \/ e.proof \in ProofsOf(log, i)
          \/ e.proof = [index |-> i - 1, path |-> log, root |-> log]
  BY DEF Answers
<1>2. /\ i \in 1 .. Len(log)
      /\ Len(log) \in Nat
      /\ log \in Seq(Digests)
  BY DEF TypeOK
<1>3. Legible(e.proof) => e.proof \in ProofShape /\ e.proof.root \in {None, log}
  BY <1>1, <1>2 DEF ProofsOf, ProofShape, Legible
<1>. QED  BY <1>3, LogIsGrown DEF HonestEntry

LEMMA InspectionInvHolds == Spec => []InspectionInv
<1>1. Init => InspectionInv
  BY DEF Init, InspectionInv
<1>2. ASSUME TypeOK, NoteInv, InspectionInv, [Next]_vars
      PROVE  InspectionInv'
  <2>1. CASE \E e \in Answers \cup {None} : InspectEntry(e)
    <3>1. PICK e \in Answers \cup {None} : InspectEntry(e)
      BY <2>1
    <3>2. PICK root : root = LoadTrustRoot(trustFile)
      OBVIOUS
    <3>3. /\ inspection'.entry = e
          /\ inspection'.root = root
          /\ inspection'.exit = IF e = None THEN EXIT_ERROR
                                ELSE IF root = Malformed THEN EXIT_TRACEBACK
                                ELSE None
      BY <3>1, <3>2 DEF InspectEntry
    <3>4. None # EXIT_ERROR /\ None # EXIT_TRACEBACK /\ None # EXIT_VERIFIED
      BY NoneIsNoValue DEF EXIT_ERROR, EXIT_TRACEBACK, EXIT_VERIFIED
    <3>5. inspection'.exit # EXIT_VERIFIED
      BY <3>3, <3>4 DEF EXIT_ERROR, EXIT_TRACEBACK, EXIT_VERIFIED
    <3>6. ASSUME inspection'.exit = None
          PROVE  HonestEntry(e)' /\ root \in Seq(Pins)
      <4>1. e \in Answers /\ root # Malformed
        BY <3>3, <3>4, <3>6
      <4>2. HonestEntry(e)'
        BY <1>2, <4>1, AnswersAreHonest, HonestEntryStays
      <4>3. trustFile # Malformed
        BY <3>2, <4>1, Sentinels DEF LoadTrustRoot
      <4>. QED  BY <1>2, <3>2, <4>2, <4>3, RootIsSeq
    <3>. QED  BY <3>3, <3>5, <3>6 DEF InspectionInv
  <2>2. CASE \E c \in Notes : InspectCheckpoint(c)
    <3>1. PICK c \in Notes : InspectCheckpoint(c)
      BY <2>2
    <3>2. PICK e, root : e = inspection.entry /\ root = inspection.root
      OBVIOUS
    <3>3. /\ inspection'.entry = e
          /\ inspection'.root = root
          /\ inspection'.checkpoint = c
          /\ inspection'.exit = ExitCode(e, c, root)
      BY <3>1, <3>2 DEF InspectCheckpoint
    <3>4. HonestEntry(e) /\ root \in Seq(Pins)
      BY <1>2, <3>1, <3>2 DEF InspectCheckpoint, InspectionInv
    <3>5. HonestEntry(e)'
      BY <1>2, <3>4, HonestEntryStays
    <3>6. ASSUME inspection'.exit = EXIT_VERIFIED
          PROVE  /\ VerifyInclusionProof(e) = "True"
                 /\ VerifyNote(c, root) = "True"
                 /\ HonestCheckpoint(c)'
      <4>1. /\ c # Malformed
            /\ VerifyInclusionProof(e) = "True"
            /\ CheckpointVerdict(c, root) = "True"
        BY <3>3, <3>6 DEF ExitCode, EXIT_VERIFIED, EXIT_TRACEBACK, EXIT_UNPROVEN
      <4>2. c # None /\ VerifyNote(c, root) = "True"
        BY <4>1 DEF CheckpointVerdict
      <4>3. HonestCheckpoint(c)
        BY <1>2, <4>1, <4>2, NotesAreHonest
      <4>. QED  BY <1>2, <4>1, <4>2, <4>3, HonestCheckpointStays
    <3>. QED  BY <3>3, <3>4, <3>5, <3>6 DEF InspectionInv
  <2>3. CASE inspection' = inspection
    <3>1. PICK i : i = inspection
      OBVIOUS
    <3>2. HonestEntry(i.entry) => HonestEntry(i.entry)'
      BY <1>2, HonestEntryStays
    <3>3. HonestCheckpoint(i.checkpoint) => HonestCheckpoint(i.checkpoint)'
      BY <1>2, HonestCheckpointStays
    <3>. QED  BY <1>2, <2>3, <3>1, <3>2, <3>3 DEF InspectionInv
  <2>4. \/ \E e \in Answers \cup {None} : InspectEntry(e)
        \/ \E c \in Notes : InspectCheckpoint(c)
        \/ inspection' = inspection
    BY <1>2 DEF Next, vars, Register, Publish, Issue, Rotate, Pin
  <2>. QED  BY <2>1, <2>2, <2>3, <2>4
<1>. QED  BY <1>1, <1>2, TypeCorrect, NoteInvHolds, PTL DEF Spec

\* A stated root that decodes is matched only by one that was rebuilt from the body.
LEMMA RebuiltHasBody ==
    ASSUME NEW body, NEW proof, proof.root # None, Recomputed(body, proof) = proof.root
    PROVE  /\ proof.index + 1 \in DOMAIN proof.root
           /\ proof.root[proof.index + 1] = body
<1>1. /\ proof.index + 1 \in DOMAIN proof.path
      /\ proof.root = [proof.path EXCEPT ![proof.index + 1] = body]
  BY DEF Recomputed
<1>. QED  BY <1>1

(* Exit 0 under a checkpoint as new as the proof proves the entry, however *)
(* the log grew between the two answers, where the stated root decodes     *)
(* (run_inspect).                                                          *)
THEOREM LaterCheckpointSound == Spec => []LaterCheckpointProves
<1>1. ASSUME TypeOK, InspectionInv, ExitedZero
      PROVE  LET proof == inspection.entry.proof
                 signed == inspection.checkpoint.text
             IN  /\ \E i \in DOMAIN inspection.root :
                       inspection.root[i].key_id \in {ServiceName, Witness.name}
                 /\ proof.root # None /\ Len(signed) >= Len(proof.root) =>
                        /\ signed[proof.index + 1] = inspection.entry.body
                        /\ log[proof.index + 1] = inspection.entry.body
  <2>. DEFINE proof == inspection.entry.proof
              c == inspection.checkpoint
              at == proof.index + 1
  <2>1. /\ VerifyInclusionProof(inspection.entry) = "True"
        /\ VerifyNote(c, inspection.root) = "True"
        /\ HonestCheckpoint(c)
        /\ HonestEntry(inspection.entry)
    BY <1>1 DEF InspectionInv, ExitedZero
  <2>2. Legible(proof) /\ Recomputed(inspection.entry.body, proof) = proof.root
    BY <2>1, Zenon DEF VerifyInclusionProof
  <2>3. proof \in ProofShape /\ (proof.root # None => Grown(proof.root))
    BY <2>1, <2>2 DEF HonestEntry
  <2>4. c \in NoteShape /\ Grown(c.text)
    BY <2>1 DEF HonestCheckpoint
  <2>5. PICK l \in DOMAIN c.lines, j \in DOMAIN inspection.root :
            inspection.root[j].key_id = c.lines[l].name
    <3>1. Considered(c, inspection.root) # {}
      BY <2>1, Zenon DEF VerifyNote, Parses
    <3>. QED  BY <3>1 DEF Considered
  <2>6. c.lines[l].name \in {ServiceName, Witness.name}
    <3>1. c.lines \in LineShape \X LineShape
      BY <2>4 DEF NoteShape
    <3>2. c.lines[l] \in LineShape
      BY <2>5, <3>1
    <3>. QED  BY <3>2 DEF LineShape
  <2>7. ASSUME proof.root # None, Len(c.text) >= Len(proof.root)
        PROVE  c.text[at] = inspection.entry.body /\ log[at] = inspection.entry.body
    <3>1. proof.root \in Seq(Digests) /\ c.text \in Seq(Digests) /\ log \in Seq(Digests)
      BY <1>1, <2>3, <2>4, <2>7 DEF ProofShape, NoteShape, TypeOK
    <3>2. at \in DOMAIN proof.root /\ proof.root[at] = inspection.entry.body
      BY <2>2, <2>7, RebuiltHasBody
    <3>. HIDE DEF proof, c, at
    <3>3. at \in 1 .. Len(proof.root) /\ at \in 1 .. Len(c.text)
      BY <2>7, <3>1, <3>2
    <3>. QED  BY <2>3, <2>4, <2>7, <3>1, <3>2, <3>3 DEF Grown
  <2>. QED  BY <2>5, <2>6, <2>7
<1>. QED  BY <1>1, TypeCorrect, InspectionInvHolds, PTL DEF LaterCheckpointProves

\* What a verified receipt has passed: each early return of verify_receipt.
LEMMA VerifiedMeans ==
    ASSUME NEW r, NEW d, NEW root \in Seq(Pins), VerifyReceipt(r, d, root).verified
    PROVE  /\ r # Malformed
           /\ ProvesLeaf(r, d)
           /\ r.signature.over = ToBeSigned(r)
           /\ \E j \in DOMAIN root : /\ root[j].key_id = r.protected.kid
                                    /\ root[j].material = r.signature.by
<1>1. /\ r # Malformed
      /\ ProvesLeaf(r, d)
      /\ VerifyReceiptSignature(r, root) = "True"
  BY Zenon DEF VerifyReceipt, Unproven, Decodes
<1>2. /\ Key(root, r.protected.kid) # None
      /\ VerifyWithAlg(Key(root, r.protected.kid), r)
  BY <1>1 DEF VerifyReceiptSignature, KeyId
<1>3. PICK j \in DOMAIN root : /\ Key(root, r.protected.kid) = root[j]
                              /\ root[j].key_id = r.protected.kid
  BY <1>2, KeyIsFirst
<1>4. root[j] \in [key_id : STRING, material : DOMAIN CurveOf, algorithm : STRING]
  BY PinsAreKeys
<1>5. /\ r.signature.over = ToBeSigned(r)
      /\ r.signature.by = root[j].material
  BY <1>2, <1>3, <1>4 DEF VerifyWithAlg, Verifies
<1>. QED  BY <1>1, <1>3, <1>5

\* Whatever was changed on the way, a signature by a key pair is the service's own.
LEMMA DeliveredSignature ==
    ASSUME NEW s, HonestReceipt(s), NEW r \in Delivered(s), r # Malformed,
           r.signature.by # None
    PROVE  /\ r.signature.by = s.signature.by
           /\ r.signature.over = ToBeSigned(s)
<1>1. PICK k \in DOMAIN ServiceKeys : s = Receipt(s.protected, s.proof, s.payload, k)
  BY DEF HonestReceipt
<1>2. s.signature.over = ToBeSigned(s)
  BY <1>1 DEF Receipt, ToBeSigned
<1>3. CASE r = [s EXCEPT !.signature.by = None]
  BY <1>1, <1>3 DEF Receipt
<1>4. CASE r.signature = s.signature
  BY <1>2, <1>4
<1>5. r = [s EXCEPT !.signature.by = None] \/ r.signature = s.signature
  BY <1>1 DEF Delivered, Receipt
<1>. QED  BY <1>3, <1>4, <1>5

(* A receipt that verifies has the leaf in the log at its index and is     *)
(* signed by the service under a pinned key, whatever was done to it on    *)
(* its way (verify_receipt).                                               *)
THEOREM VerifiedReceiptSound == Spec => []VerifiedReceiptIsIssued
<1>1. TypeOK /\ IssuedInv => VerifiedReceiptIsIssued
  <2>. SUFFICES ASSUME TypeOK, IssuedInv, trustFile # Malformed,
                       NEW s \in issued, NEW d \in Digests, NEW r \in Delivered(s),
                       VerifyAsLeaf(d, ExtractReceipts(EncodeSignedStatement(d, <<r, s>>)), None,
                                    LoadTrustRoot(trustFile))[1].verified
                PROVE  /\ r.proof + 1 \in DOMAIN log
                       /\ log[r.proof + 1] = d
                       /\ ToBeSigned(r) = ToBeSigned(s)
                       /\ \E j \in DOMAIN LoadTrustRoot(trustFile) :
                              /\ LoadTrustRoot(trustFile)[j].key_id = r.protected.kid
                              /\ LoadTrustRoot(trustFile)[j].material = s.signature.by
    BY DEF VerifiedReceiptIsIssued
  <2>. DEFINE root == LoadTrustRoot(trustFile)
  <2>1. root \in Seq(Pins)
    BY RootIsSeq
  <2>2. VerifyReceipt(r, d, root).verified
    <3>1. ExtractReceipts(EncodeSignedStatement(d, <<r, s>>)) = <<r, s>>
      BY DEF ExtractReceipts, EncodeSignedStatement
    <3>2. VerifyAsLeaf(d, <<r, s>>, None, root)
              = <<>> \o [i \in DOMAIN <<r, s>> |-> VerifyReceipt(<<r, s>>[i], d, root)]
      BY DEF VerifyAsLeaf
    <3>3. VerifyAsLeaf(d, <<r, s>>, None, root)[1] = VerifyReceipt(r, d, root)
      BY <3>2
    <3>. QED  BY <3>1, <3>3
  <2>. HIDE DEF root
  <2>3. /\ r # Malformed
        /\ ProvesLeaf(r, d)
        /\ r.signature.over = ToBeSigned(r)
    BY <2>1, <2>2, VerifiedMeans
  <2>4. PICK j \in DOMAIN root : /\ root[j].key_id = r.protected.kid
                                /\ root[j].material = r.signature.by
    BY <2>1, <2>2, VerifiedMeans
  <2>5. r.signature.by # None
    BY <2>1, <2>4, PinsAreKeys, NoneIsNoKey
  <2>6. HonestReceipt(s)
    BY DEF IssuedInv
  <2>7. r.signature.by = s.signature.by /\ ToBeSigned(r) = ToBeSigned(s)
    BY <2>3, <2>5, <2>6, DeliveredSignature
  <2>8. Grown(s.payload) /\ s.payload \in Seq(Digests)
    BY <2>6 DEF HonestReceipt, TypeOK, ReceiptShape
  <2>9. r.payload = s.payload
    BY <2>7 DEF ToBeSigned
  <2>10. r.proof + 1 \in DOMAIN s.payload /\ s.payload[r.proof + 1] = d
    BY <2>3, <2>9 DEF ProvesLeaf
  <2>11. r.proof + 1 \in DOMAIN log /\ log[r.proof + 1] = d
    BY <2>8, <2>10 DEF TypeOK, Grown
  <2>. QED  BY <2>4, <2>7, <2>11 DEF root
<1>. QED  BY <1>1, TypeCorrect, IssuedInvHolds, PTL

-----------------------------------------------------------------------------
\* A note that verifies does so under one pair of a line and a key, which stays.
LEMMA NoteStays ==
    ASSUME NEW n, NEW root \in Seq(Pins), NEW k \in Pins, VerifyNote(n, root) = "True"
    PROVE  VerifyNote(n, Append(root, k)) = "True"
<1>. DEFINE longer == Append(root, k)
<1>1. /\ n # Malformed
      /\ \E p \in Considered(n, root) :
             Verifies(root[p[2]], n.text, n.lines[p[1]].signature, ASN1)
  BY Zenon DEF VerifyNote, Parses
<1>2. PICK l \in DOMAIN n.lines, j \in DOMAIN root :
          /\ <<l, j>> \in Considered(n, root)
          /\ Verifies(root[j], n.text, n.lines[l].signature, ASN1)
  BY <1>1 DEF Considered
<1>3. j \in DOMAIN longer /\ longer[j] = root[j]
  OBVIOUS
<1>4. <<l, j>> \in Considered(n, longer)
  BY <1>2, <1>3 DEF Considered
<1>. HIDE DEF longer
<1>5. \E p \in Considered(n, longer) :
          Verifies(longer[p[2]], n.text, n.lines[p[1]].signature, ASN1)
  BY <1>2, <1>3, <1>4
<1>6. VerifyNote(n, longer) = "True"
  BY <1>1, <1>5, Zenon DEF VerifyNote, Parses
<1>. QED  BY <1>6 DEF longer

\* A receipt that verifies does so under the first key of its id, which stays first.
LEMMA ReceiptStays ==
    ASSUME NEW r, NEW d, NEW root \in Seq(Pins), NEW k \in Pins,
           VerifyReceipt(r, d, root).verified
    PROVE  VerifyReceipt(r, d, Append(root, k)).verified
<1>1. VerifyReceiptSignature(r, root) = "True"
  BY Zenon DEF VerifyReceipt, Unproven, Decodes
<1>2. Key(root, r.protected.kid) # None
  BY <1>1 DEF VerifyReceiptSignature, KeyId
<1>3. Key(Append(root, k), r.protected.kid) = Key(root, r.protected.kid)
  BY <1>2, KeyStays
<1>4. VerifyReceiptSignature(r, Append(root, k)) = VerifyReceiptSignature(r, root)
  BY <1>3, Zenon DEF VerifyReceiptSignature, KeyId
<1>5. VerifyReceipt(r, d, Append(root, k)) = VerifyReceipt(r, d, root)
  BY <1>4, Zenon DEF VerifyReceipt
<1>. QED  BY <1>5

(* Pinning a further key takes no verification back (TrustRoot.key,        *)
(* verify_checkpoint).                                                     *)
THEOREM PinningSound == Spec => PinningNeverRevokes
<1>1. ASSUME TypeOK, [Next]_vars, trustFile' # trustFile
      PROVE  /\ VerifyNote(note, LoadTrustRoot(trustFile)) = "True"
                    => VerifyNote(note, LoadTrustRoot(trustFile')) = "True"
             /\ \A r \in issued, d \in Digests :
                    VerifyReceipt(r, d, LoadTrustRoot(trustFile)).verified
                       => VerifyReceipt(r, d, LoadTrustRoot(trustFile')).verified
  <2>1. \E k \in Pins : Pin(k)
    BY <1>1 DEF Next, vars, Register, Publish, Issue, Rotate, InspectEntry, InspectCheckpoint
  <2>2. PICK k \in Pins : /\ trustFile # Malformed
                          /\ trustFile' = Append(LoadTrustRoot(trustFile), k)
    BY <2>1 DEF Pin
  <2>3. LoadTrustRoot(trustFile) \in Seq(Pins)
    BY <1>1, <2>2, RootIsSeq
  <2>4. trustFile' \in Seq(Pins)
    BY <2>2, <2>3
  <2>5. LoadTrustRoot(trustFile') = Append(LoadTrustRoot(trustFile), k)
    BY <2>2, <2>4, NoneIsNoRoot DEF LoadTrustRoot
  <2>. QED  BY <2>3, <2>5, NoteStays, ReceiptStays
<1>. QED  BY <1>1, TypeCorrect, PTL DEF Spec, PinningNeverRevokes
-----------------------------------------------------------------------------
\* An id that is listed has a first entry.
LEMMA KeyFinds ==
    ASSUME NEW root \in Seq(Pins), NEW id, id # None,
           NEW f \in DOMAIN root, root[f].key_id = id
    PROVE  Key(root, id) # None
<1>. DEFINE hits == {i \in DOMAIN root : root[i].key_id = id}
            first == CHOOSE i \in hits : \A j \in hits : i <= j
<1>1. f \in hits /\ hits \in SUBSET Nat
  OBVIOUS
<1>2. Key(root, id) = root[first]
  BY <1>1 DEF Key
<1>3. first \in hits
  <2>. HIDE DEF hits
  <2>1. \E i \in hits : \A j \in hits : i <= j
    BY <1>1, MinExists
  <2>. QED  BY <2>1
<1>4. root[first] \in Pins
  BY <1>3
<1>. QED  BY <1>2, <1>4, NoneIsNoKey

\* A receipt as the service issued it verifies when its key is pinned under the service's id.
LEMMA ReceiptVerdict ==
    ASSUME TypeOK, IssuedInv, NEW root \in Seq(Pins), Unambiguous(root),
           NEW r \in issued, r.protected.kid # None, r.protected.vds = VDS_RFC9162_SHA256
    PROVE  VerifyReceipt(r, r.payload[r.proof + 1], root).verified <=>
               \E j \in DOMAIN root : /\ root[j].key_id = ServiceName
                                     /\ root[j].material = r.signature.by
<1>1. r \in ReceiptShape /\ HonestReceipt(r)
  BY DEF TypeOK, IssuedInv
<1>2. r.protected.kid = ServiceName /\ ServiceName # None
  BY <1>1, ReceiptsNameTheService DEF ReceiptShape
<1>3. /\ r # Malformed
      /\ r.proof # None
      /\ r.payload # None
  BY <1>1, NoneIsNoValue, MalformedIsNoValue DEF ReceiptShape
<1>4. ProvesLeaf(r, r.payload[r.proof + 1])
  BY <1>1 DEF HonestReceipt, ProvesLeaf
<1>5. VerifyReceipt(r, r.payload[r.proof + 1], root).verified
          <=> VerifyReceiptSignature(r, root) = "True"
  BY <1>3, <1>4, Zenon DEF VerifyReceipt, Decodes, HasProof
<1>6. PICK k \in DOMAIN ServiceKeys :
          /\ r = Receipt(r.protected, r.proof, r.payload, k)
          /\ r.protected.alg \in {None, CurveOf[ServiceKeys[k]]}
  BY <1>1 DEF HonestReceipt
<1>7. /\ r.signature.by = ServiceKeys[k]
      /\ r.signature.over = ToBeSigned(r)
      /\ r.signature.encoding = RAW
  BY <1>6 DEF Receipt, ToBeSigned
<1>8. ASSUME NEW j \in DOMAIN root
      PROVE  VerifyWithAlg(root[j], r) <=> root[j].material = r.signature.by
  <2>1. /\ root[j] \in [key_id : STRING, material : DOMAIN CurveOf, algorithm : STRING]
        /\ CurveOf[root[j].material] = root[j].algorithm
    BY <1>8, PinsAreKeys DEF Unambiguous, Usable
  <2>2. CASE r.protected.alg = None
    BY <1>7, <2>1, <2>2 DEF VerifyWithAlg, Verifies, Usable
  <2>3. CASE r.protected.alg # None
    <3>. DEFINE declared == [root[j] EXCEPT !.algorithm = r.protected.alg]
    <3>1. declared.material = root[j].material /\ declared.algorithm = CurveOf[r.signature.by]
      BY <1>6, <1>7, <2>1, <2>3
    <3>2. VerifyWithAlg(root[j], r) <=> Verifies(declared, ToBeSigned(r), r.signature, RAW)
      BY <2>3 DEF VerifyWithAlg
    <3>. HIDE DEF declared
    <3>. QED  BY <1>7, <3>1, <3>2 DEF Verifies, Usable
  <2>. QED  BY <2>2, <2>3
<1>9. CASE Key(root, ServiceName) = None
  <2>1. ~ \E j \in DOMAIN root : root[j].key_id = ServiceName
    BY <1>2, <1>9, KeyFinds
  <2>2. VerifyReceiptSignature(r, root) = "None"
    BY <1>2, <1>9 DEF VerifyReceiptSignature, KeyId
  <2>. QED  BY <1>5, <2>1, <2>2
<1>10. CASE Key(root, ServiceName) # None
  <2>1. PICK i \in DOMAIN root : Key(root, ServiceName) = root[i] /\ root[i].key_id = ServiceName
    BY <1>10, KeyIsFirst
  <2>2. VerifyReceiptSignature(r, root) = "True" <=> root[i].material = r.signature.by
    BY <1>2, <1>8, <1>10, <2>1 DEF VerifyReceiptSignature, KeyId
  <2>3. \A j \in DOMAIN root : root[j].key_id = ServiceName => j = i
    BY <2>1 DEF Unambiguous
  <2>. QED  BY <1>5, <2>1, <2>2, <2>3
<1>. QED  BY <1>9, <1>10

\* What a line of a note carries, and its hint.
LEMMA LineFields ==
    ASSUME NEW n, NEW m, NEW text
    PROVE  /\ Line(n, m, text).name = n
           /\ Line(n, m, text).signature.by = m
           /\ Line(n, m, text).signature.over = text
           /\ Line(n, m, text).signature.encoding = ASN1
BY DEF Line

LEMMA LineHint ==
    ASSUME NEW n, NEW m, NEW text
    PROVE  /\ CurveOf[m] = "ed25519" => Line(n, m, text).hint = <<n, m>>
           /\ CurveOf[m] # "ed25519" => Line(n, m, text).hint = <<"", m>>
BY DEF Line

\* So does a note, although its lines name the keys by another identifier.
LEMMA NoteVerdict ==
    ASSUME TypeOK, NoteInv, NEW root \in Seq(Pins), Unambiguous(root)
    PROVE  VerifyNote(note, root) = "True" <=>
               \E j \in DOMAIN root : /\ root[j].key_id = ServiceName
                                     /\ root[j].material = note.lines[2].signature.by
<1>1. PICK k \in DOMAIN ServiceKeys : note = SignedNote(note.text, k)
  BY DEF NoteInv
<1>. DEFINE M == ServiceKeys[k]
<1>2. /\ DOMAIN note.lines = {1, 2}
      /\ note.lines[1] = Line(Witness.name, Witness.material, note.text)
      /\ note.lines[2] = Line(ServiceName, M, note.text)
  BY <1>1 DEF SignedNote
<1>. HIDE DEF M
<1>3. /\ note.lines[1].name = Witness.name
      /\ note.lines[2].name = ServiceName
      /\ CurveOf[M] = "ed25519" => note.lines[2].hint = <<ServiceName, M>>
      /\ CurveOf[M] # "ed25519" => note.lines[2].hint = <<"", M>>
      /\ note.lines[2].signature.by = M
      /\ note.lines[2].signature.over = note.text
      /\ note.lines[2].signature.encoding = ASN1
  <2>1. /\ CurveOf[M] = "ed25519" => note.lines[2].hint = <<ServiceName, M>>
        /\ CurveOf[M] # "ed25519" => note.lines[2].hint = <<"", M>>
    <3>1. PICK l : l = Line(ServiceName, M, note.text)
      OBVIOUS
    <3>2. CurveOf[M] = "ed25519" => l.hint = <<ServiceName, M>>
      BY <3>1, LineHint
    <3>3. CurveOf[M] # "ed25519" => l.hint = <<"", M>>
      BY <3>1, LineHint
    <3>4. note.lines[2] = l
      BY <1>2, <3>1
    <3>. QED  BY <3>2, <3>3, <3>4
  <2>2. /\ note.lines[1].name = Witness.name
        /\ note.lines[2].name = ServiceName
        /\ note.lines[2].signature.by = M
        /\ note.lines[2].signature.over = note.text
        /\ note.lines[2].signature.encoding = ASN1
    BY <1>2, LineFields
  <2>. QED  BY <2>1, <2>2
<1>4. Parses(note)
  BY MalformedIsNoValue DEF TypeOK, Parses
<1>5. VerifyNote(note, root) = "True" <=>
          \E p \in Considered(note, root) :
              Verifies(root[p[2]], note.text, note.lines[p[1]].signature, ASN1)
  BY <1>4, Zenon DEF VerifyNote
<1>6. ASSUME NEW j \in DOMAIN root
      PROVE  Usable(root[j]) /\ root[j].key_id # Witness.name
  BY <1>6 DEF Unambiguous
<1>7. ASSUME NEW p \in Considered(note, root),
             Verifies(root[p[2]], note.text, note.lines[p[1]].signature, ASN1)
      PROVE  \E j \in DOMAIN root : root[j].key_id = ServiceName /\ root[j].material = M
  <2>1. /\ p[1] \in {1, 2}
        /\ p[2] \in DOMAIN root
        /\ root[p[2]].key_id = note.lines[p[1]].name
    BY <1>2 DEF Considered
  <2>2. p[1] = 2
    BY <1>3, <1>6, <2>1
  <2>3. root[p[2]].material = M
    BY <1>3, <1>7, <2>2 DEF Verifies
  <2>. QED  BY <1>3, <2>1, <2>2, <2>3
<1>8. ASSUME NEW j \in DOMAIN root, root[j].key_id = ServiceName, root[j].material = M
      PROVE  \E p \in Considered(note, root) :
                 Verifies(root[p[2]], note.text, note.lines[p[1]].signature, ASN1)
  <2>1. root[j].algorithm = CurveOf[M]
    BY <1>6, <1>8 DEF Usable
  <2>2. NoteKeyId(ServiceName, root[j]) = note.lines[2].hint
    BY <1>3, <1>6, <1>8, <2>1 DEF NoteKeyId
  <2>3. <<2, j>> \in Considered(note, root)
    BY <1>2, <1>3, <1>8, <2>2 DEF Considered
  <2>4. Verifies(root[j], note.text, note.lines[2].signature, ASN1)
    BY <1>3, <1>6, <1>8 DEF Verifies
  <2>5. PICK p : p = <<2, j>>
    OBVIOUS
  <2>6. p \in Considered(note, root) /\ p[1] = 2 /\ p[2] = j
    BY <2>3, <2>5
  <2>. QED  BY <2>4, <2>6
<1>. QED  BY <1>3, <1>5, <1>7, <1>8

(* One leaf recorded both ways under one key gets one answer: the anchor   *)
(* and the receipt of verify_as_leaf verify under the same pins.           *)
THEOREM RecordsAgree == Spec => []BothRecordsAgree
<1>1. TypeOK /\ IssuedInv /\ NoteInv => BothRecordsAgree
  <2>. DEFINE root == LoadTrustRoot(trustFile)
              leaf(r) == r.payload[r.proof + 1]
              entry(r) == [body |-> leaf(r), proof |-> [index |-> r.proof, path |-> r.payload,
                                                        root |-> r.payload]]
              anchor(r) == [entry |-> entry(r), checkpoint |-> note]
              results(r) == VerifyAsLeaf(leaf(r), <<r>>, anchor(r), root)
  <2>. SUFFICES ASSUME TypeOK, IssuedInv, NoteInv,
                       trustFile # Malformed, Unambiguous(root),
                       NEW r \in issued, r.protected.kid # None,
                       r.protected.vds = VDS_RFC9162_SHA256,
                       r.signature.by = note.lines[2].signature.by
                PROVE  results(r)[1].verified = results(r)[2].verified
    BY DEF BothRecordsAgree
  <2>1. r \in ReceiptShape /\ r.proof + 1 \in DOMAIN r.payload
    BY DEF TypeOK, IssuedInv, HonestReceipt
  <2>2. /\ leaf(r) \in Digests
        /\ entry(r).proof \in ProofShape
        /\ note \in NoteShape
        /\ anchor(r) \in AnchorShape
    <3>1. leaf(r) \in Digests
      BY <2>1 DEF ReceiptShape
    <3>2. entry(r).proof \in ProofShape
      BY <2>1 DEF ReceiptShape, ProofShape
    <3>3. note \in NoteShape
      BY DEF TypeOK
    <3>. QED  BY <3>1, <3>2, <3>3 DEF AnchorShape
  <2>3. VerifyInclusionProof(entry(r)) = "True"
    <3>1. Legible(entry(r).proof) /\ entry(r).body # None
      BY <2>2, NoneIsNoValue, MalformedIsNoValue DEF Legible
    <3>2. r.payload \in Seq(Digests) /\ r.payload # None
      BY <2>1, NoneIsNoValue DEF ReceiptShape
    <3>3. [r.payload EXCEPT ![r.proof + 1] = leaf(r)] = r.payload
      BY <2>1, <3>2
    <3>4. Recomputed(entry(r).body, entry(r).proof) = entry(r).proof.root
      BY <2>1, <3>2, <3>3 DEF Recomputed
    <3>. QED  BY <3>1, <3>4, Zenon DEF VerifyInclusionProof
  <2>4. CheckpointVerdict(note, root) = VerifyNote(note, root)
    BY <2>2, NoneIsNoValue DEF CheckpointVerdict
  <2>5. /\ results(r)[1] = AnchorResult(entry(r), note, root)
        /\ results(r)[2] = VerifyReceipt(r, leaf(r), root)
    <3>1. anchor(r) # None
      BY <2>2, NoneIsNoValue
    <3>2. anchor(r).entry = entry(r) /\ anchor(r).checkpoint = note
      OBVIOUS
    <3>. HIDE DEF anchor, entry, leaf, root
    <3>3. results(r) = <<AnchorResult(entry(r), note, root)>>
                           \o [i \in DOMAIN <<r>> |-> VerifyReceipt(<<r>>[i], leaf(r), root)]
      BY <3>1, <3>2 DEF VerifyAsLeaf
    <3>. QED  BY <3>3
  <2>6. results(r)[1].verified <=> VerifyNote(note, root) = "True"
    <3>1. AnchorResult(entry(r), note, root).verified =
              (VerifyInclusionProof(entry(r)) = "True" /\ CheckpointVerdict(note, root) = "True")
      BY DEF AnchorResult
    <3>. HIDE DEF results, entry
    <3>. QED  BY <2>3, <2>4, <2>5, <3>1, Zenon
  <2>7. root \in Seq(Pins)
    BY RootIsSeq
  <2>. HIDE DEF root
  <2>8. results(r)[2].verified <=> VerifyNote(note, root) = "True"
    BY <2>5, <2>7, ReceiptVerdict, NoteVerdict
  <2>9. results(r)[1].verified \in BOOLEAN /\ results(r)[2].verified \in BOOLEAN
    <3>1. AnchorResult(entry(r), note, root).verified \in BOOLEAN
      BY DEF AnchorResult
    <3>2. VerifyReceipt(r, leaf(r), root).verified \in BOOLEAN
      BY DEF VerifyReceipt, Unproven
    <3>. HIDE DEF results, entry, leaf
    <3>. QED  BY <2>5, <3>1, <3>2
  <2>. QED  BY <2>6, <2>8, <2>9
<1>. QED  BY <1>1, TypeCorrect, IssuedInvHolds, NoteInvHolds, PTL
=============================================================================
