-------------------------------- MODULE Audit --------------------------------
(***************************************************************************)
(* A third party checks what a transparency service holds.  `inspect` asks *)
(* the log for an entry and then for its checkpoint; verify_as_leaf, which *)
(* keeps no state, judges the anchor and the receipts kept beside a        *)
(* statement.  Meanwhile the service appends, signs and changes its key,   *)
(* and the operator pins keys in the trust-root file.                      *)
(***************************************************************************)
EXTENDS TrustRoot

CONSTANTS
    Digests,      \* what is registered
    ServiceName,  \* the name in the service's notes and receipts
    ServiceKeys,  \* the service's key pairs, in the order it uses them
    Headers,      \* the protected headers it gives its receipts
    Pins,         \* the entries the operator may write into the trust root
    Witness,      \* [name, material] of a witness that cosigns every note
    MaxLog,       \* bound on the log
    MaxPins,      \* bound on the trust root
    MaxReceipts   \* bound on the receipts issued

ASSUME PinsAreKeys ==
    Pins \subseteq [key_id : STRING, material : DOMAIN CurveOf, algorithm : STRING]
ASSUME NoneIsNoKey == None \notin Pins \cup DOMAIN CurveOf
ASSUME NoneIsNoRoot == None \notin Seq(Pins)
ASSUME ServiceHasKeys ==
    ServiceKeys \in Seq(DOMAIN CurveOf) /\ Len(ServiceKeys) > 0 /\ Witness.material \in DOMAIN CurveOf
ASSUME ReceiptsNameTheService == \A h \in Headers : h.kid \in {None, ServiceName}
ASSUME BoundsAreNat == MaxLog \in Nat /\ MaxPins \in Nat /\ MaxReceipts \in Nat

VARIABLES
    log,        \* the digests registered, in order
    note,       \* the checkpoint the service signed last
    key,        \* which of its keys the service uses
    issued,     \* the receipts it has issued
    trustFile,  \* None, Malformed, or the keys pinned so far
    inspection  \* None, or [entry, checkpoint, root, exit]

vars == <<log, note, key, issued, trustFile, inspection>>

-----------------------------------------------------------------------------
(* The service.                                                            *)

\* One line of a note over a tree.
Line(name, material, text) ==
    [name |-> name,
     hint |-> IF CurveOf[material] = "ed25519" THEN <<name, material>> ELSE <<"", material>>,
     signature |-> [by |-> material, over |-> text, encoding |-> ASN1]]

SignedNote(text, k) ==
    [text |-> text,
     lines |-> <<Line(Witness.name, Witness.material, text),
                 Line(ServiceName, ServiceKeys[k], text)>>]

Receipt(header, index, tree, k) ==
    [protected |-> header, proof |-> index, payload |-> tree,
     signature |-> [by |-> ServiceKeys[k], over |-> <<header, tree>>, encoding |-> RAW]]

\* The shapes of what is signed, and the sentinels are none of them.
LineShape ==
    [name : {ServiceName, Witness.name},
     hint : {"", ServiceName, Witness.name} \X DOMAIN CurveOf,
     signature : [by : DOMAIN CurveOf, over : Seq(Digests), encoding : {ASN1}]]
NoteShape == [text : Seq(Digests), lines : LineShape \X LineShape]
ReceiptShape ==
    [protected : Headers, proof : Nat, payload : Seq(Digests),
     signature : [by : DOMAIN CurveOf, over : Headers \X Seq(Digests), encoding : {RAW}]]
ProofShape ==
    [index : Nat, path : {None} \cup Seq(Digests), root : {None} \cup Seq(Digests)]
AnchorShape == [entry : [body : Digests, proof : ProofShape], checkpoint : NoteShape]

ASSUME NoneIsNoValue ==
    /\ None \notin Nat
    /\ None \notin Digests
    /\ None \notin Seq(Digests)
    /\ None \notin ProofShape
    /\ None \notin NoteShape
    /\ None \notin AnchorShape
ASSUME MalformedIsNoValue == Malformed \notin NoteShape \cup ReceiptShape \cup ProofShape

\* encode_signed_statement puts the digest into the payload; the service makes it a leaf.
Register(d) ==
    /\ Len(log) < MaxLog
    /\ log' = Append(log, d)
    /\ UNCHANGED <<note, key, issued, trustFile, inspection>>

Publish ==
    /\ note' = SignedNote(log, key)
    /\ note' # note
    /\ UNCHANGED <<log, key, issued, trustFile, inspection>>

\* The header names the algorithm that signs, or none.
Issue(index, header) ==
    /\ header.alg \in {None, CurveOf[ServiceKeys[key]]}
    /\ Cardinality(issued) < MaxReceipts
    /\ issued' = issued \cup {Receipt(header, index, log, key)}
    /\ UNCHANGED <<log, note, key, trustFile, inspection>>

Rotate ==
    /\ key < Len(ServiceKeys)
    /\ key' = key + 1
    /\ UNCHANGED <<log, note, issued, trustFile, inspection>>

\* What arrives when a note is asked for.
Notes == {None, Malformed, note, [note EXCEPT !.text = <<>>]}

\* What the log may say of the entry at a position.  Bound: where the body is
\* missing the proof is the right one.
Answers ==
    UNION {[body : {log[i]}, proof : ProofsOf(log, i)]
               \cup {[body |-> None, proof |-> [index |-> i - 1, path |-> log, root |-> log]]} :
           i \in DOMAIN log}

\* A receipt as it may arrive, changed in one place.
Delivered(r) ==
    {r, Malformed, [r EXCEPT !.payload = None], [r EXCEPT !.payload = log],
     [r EXCEPT !.signature.by = None]}
        \cup {[r EXCEPT !.protected = h] : h \in Headers}
        \cup {[r EXCEPT !.proof = p] : p \in {None} \cup (0 .. Len(log) - 1)}

-----------------------------------------------------------------------------
(* The operator.                                                           *)

Pin(k) ==
    /\ trustFile # Malformed
    /\ Len(LoadTrustRoot(trustFile)) < MaxPins
    /\ trustFile' = Append(LoadTrustRoot(trustFile), k)
    /\ UNCHANGED <<log, note, key, issued, inspection>>

-----------------------------------------------------------------------------
(* `inspect`.                                                              *)

EXIT_VERIFIED == 0
EXIT_TRACEBACK == 1
EXIT_UNPROVEN == 2
EXIT_ERROR == 3

CheckpointVerdict(checkpoint, root) ==
    IF checkpoint = None THEN "None" ELSE VerifyNote(checkpoint, root)

\* The entry arrives, or no entry, and then the trust root is read.
InspectEntry(entry) ==
    /\ inspection = None
    /\ inspection' = [entry |-> entry, checkpoint |-> None,
                 root |-> LoadTrustRoot(trustFile),
                 exit |-> IF entry = None THEN EXIT_ERROR
                          ELSE IF LoadTrustRoot(trustFile) = Malformed THEN EXIT_TRACEBACK
                          ELSE None]
    /\ UNCHANGED <<log, note, key, issued, trustFile>>

\* Mutated form of ExitCode: a check that was not made is not a check that failed.
ExitUnlessRefuted(entry, checkpoint, root) ==
    IF checkpoint = Malformed THEN EXIT_TRACEBACK
    ELSE IF \/ VerifyInclusionProof(entry) = "False"
            \/ CheckpointVerdict(checkpoint, root) = "False" THEN EXIT_UNPROVEN
    ELSE EXIT_VERIFIED

\* The checkpoint's size is printed before the verdict is drawn, and parsing a
\* malformed one raises.
ExitCode(entry, checkpoint, root) ==
    IF checkpoint = Malformed THEN EXIT_TRACEBACK
    ELSE IF /\ VerifyInclusionProof(entry) = "True"
            /\ CheckpointVerdict(checkpoint, root) = "True" THEN EXIT_VERIFIED
    ELSE EXIT_UNPROVEN

InspectCheckpoint(checkpoint) ==
    /\ inspection # None
    /\ inspection.exit = None
    /\ inspection' = [entry |-> inspection.entry, checkpoint |-> checkpoint,
                      root |-> inspection.root,
                      exit |-> ExitCode(inspection.entry, checkpoint, inspection.root)]
    /\ UNCHANGED <<log, note, key, issued, trustFile>>

-----------------------------------------------------------------------------
(* Statements and verify_as_leaf.                                          *)

\* The engine's own statement; the unprotected header holds the receipts, if there are any.
EncodeSignedStatement(payload, receipts) ==
    [payload |-> payload, unprotected |-> IF receipts = <<>> THEN <<>> ELSE <<receipts>>]

ExtractReceipts(statement) ==
    IF statement.unprotected = <<>> THEN <<>> ELSE statement.unprotected[1]

AnchorResult(entry, checkpoint, root) ==
    LET inclusion == VerifyInclusionProof(entry)
        signature == CheckpointVerdict(checkpoint, root)
    IN  [verified |-> inclusion = "True" /\ signature = "True",
         inclusion |-> inclusion, signature |-> signature]

\* The anchor first, if there is one, then the receipts in order.
VerifyAsLeaf(leaf, receipts, anchor, root) ==
    (IF anchor = None THEN <<>>
     ELSE <<AnchorResult(anchor.entry, anchor.checkpoint, root)>>)
        \o [i \in DOMAIN receipts |-> VerifyReceipt(receipts[i], leaf, root)]

-----------------------------------------------------------------------------
Init ==
    /\ log = <<>>
    /\ key = 1
    /\ note = SignedNote(<<>>, 1)
    /\ issued = {}
    /\ trustFile \in {None, Malformed}
    /\ inspection = None

\* Bound: what happens after the verdict is not followed.
Watched == ~(inspection # None /\ inspection.exit # None)

Next ==
    /\ Watched
    /\ \/ \E d \in Digests : Register(d)
       \/ Publish
       \/ \E i \in 0 .. Len(log) - 1, h \in Headers : Issue(i, h)
       \/ Rotate
       \/ \E k \in Pins : Pin(k)
       \/ \E e \in Answers \cup {None} : InspectEntry(e)
       \/ \E c \in Notes : InspectCheckpoint(c)

Spec == Init /\ [][Next]_vars

-----------------------------------------------------------------------------
(* The log and the note are of digests, the trust root file is absent,     *)
(* malformed or a list of pins, and an inspection has an exit code, or none *)
(* while it waits for the checkpoint (run_inspect, load_trust_root).       *)
TypeOK ==
    /\ log \in Seq(Digests)
    /\ key \in DOMAIN ServiceKeys
    /\ note \in NoteShape
    /\ issued \subseteq ReceiptShape
    /\ trustFile \in {None, Malformed} \cup Seq(Pins)
    /\ inspection # None => inspection.exit \in {None} \cup 0 .. 3

ExitedZero == inspection # None /\ inspection.exit = EXIT_VERIFIED

(* Exit 0 is not reached on a proof that could not be evaluated: the path  *)
(* rebuilt a root, and the comparison was with that (merkle.py: None "is   *)
(* not the same as a proof that evaluated to the wrong root", rekor.py:    *)
(* ""Not checked" is not "verified"").  The code breaks it.               *)
ExitZeroIsEvaluated ==
    ExitedZero => Recomputed(inspection.entry.body, inspection.entry.proof) # None

(* Exit 0 under a checkpoint as new as the proof does prove the entry: the *)
(* tree that was signed, under a name and a key of the trust root, has the *)
(* body at the proof's index.  An answer whose stated root does not decode *)
(* is left out, see ExitZeroIsEvaluated (run_inspect).                     *)
LaterCheckpointProves ==
    ExitedZero =>
        LET proof == inspection.entry.proof
            signed == inspection.checkpoint.text
        IN  /\ \E i \in DOMAIN inspection.root :
                  inspection.root[i].key_id \in {ServiceName, Witness.name}
            /\ proof.root # None /\ Len(signed) >= Len(proof.root) =>
                   /\ signed[proof.index + 1] = inspection.entry.body
                   /\ log[proof.index + 1] = inspection.entry.body

(* A receipt that verifies, whatever was done to it on its way, has the    *)
(* leaf in the log at the index it states, over a root the service signed  *)
(* with a key that is pinned under the receipt's key id (verify_receipt).  *)
VerifiedReceiptIsIssued ==
    trustFile # Malformed =>
        LET root == LoadTrustRoot(trustFile)
        IN  \A s \in issued, d \in Digests : \A r \in Delivered(s) :
                LET statement == EncodeSignedStatement(d, <<r, s>>)
                IN  VerifyAsLeaf(d, ExtractReceipts(statement), None, root)[1].verified =>
                        /\ r.proof + 1 \in DOMAIN log
                        /\ log[r.proof + 1] = d
                        /\ ToBeSigned(r) = ToBeSigned(s)
                        /\ \E j \in DOMAIN root : /\ root[j].key_id = r.protected.kid
                                                 /\ root[j].material = s.signature.by

(* Pinning one more key, the service's next one or a wrongly listed one,   *)
(* takes nothing back: what verified still verifies, under the first entry *)
(* of an id for receipts and under any for notes (TrustRoot.key,           *)
(* verify_checkpoint).                                                     *)
PinningNeverRevokes ==
    [][trustFile' # trustFile =>
          /\ VerifyNote(note, LoadTrustRoot(trustFile)) = "True"
                 => VerifyNote(note, LoadTrustRoot(trustFile')) = "True"
          /\ \A r \in issued, d \in Digests :
                 VerifyReceipt(r, d, LoadTrustRoot(trustFile)).verified
                    => VerifyReceipt(r, d, LoadTrustRoot(trustFile')).verified]_vars

\* Every id once, each key as what it is, and no witness among them.
Unambiguous(root) ==
    /\ \A i, j \in DOMAIN root : root[i].key_id = root[j].key_id => i = j
    /\ \A i \in DOMAIN root : Usable(root[i]) /\ root[i].key_id # Witness.name

(* One leaf recorded both ways under one key of the service gets one       *)
(* answer, although the two records find the key by different identifiers  *)
(* and encode its signatures differently: both verify or neither does      *)
(* (verify_as_leaf: "the same tree with different plumbing").              *)
BothRecordsAgree ==
    trustFile # Malformed /\ Unambiguous(LoadTrustRoot(trustFile)) =>
        \A r \in issued :
            /\ r.protected.kid # None
            /\ r.protected.vds = VDS_RFC9162_SHA256
            /\ r.signature.by = note.lines[2].signature.by
            => LET leaf == r.payload[r.proof + 1]
                   entry == [body |-> leaf, 
                             proof |-> [index |-> r.proof, path |-> r.payload,
                                        root |-> r.payload]]
                   results == VerifyAsLeaf(leaf, <<r>>, [entry |-> entry, checkpoint |-> note],
                                           LoadTrustRoot(trustFile))
               IN  results[1].verified = results[2].verified
=============================================================================
