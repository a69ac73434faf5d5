------------------------------ MODULE TrustRoot ------------------------------
(***************************************************************************)
(* The keys an operator has pinned, and the two kinds of signed thing that *)
(* are checked against them: the log's signed notes (checkpoints) and      *)
(* transparency receipts.                                                  *)
(*                                                                         *)
(* A trust root is a sequence of [key_id, material, algorithm]: the        *)
(* material is a key pair, the algorithm is what the file says it is.      *)
(* Signatures are ideal: [by, over, encoding].                             *)
(***************************************************************************)
EXTENDS InclusionCheck

CONSTANT CurveOf    \* by key pair: the curve it is on

RAW == "raw"
ASN1 == "asn1"

\* A missing file is an empty root; one that does not parse raises.
LoadTrustRoot(file) == IF file = None THEN <<>> ELSE file

\* public_key() parses: the material is on the curve the file names.
Usable(key) == CurveOf[key.material] = key.algorithm

Verifies(key, message, signature, encoding) ==
    /\ Usable(key)
    /\ signature.by = key.material
    /\ signature.over = message
    /\ key.algorithm = "ed25519" \/ signature.encoding = encoding

\* Mutated form of Key: the last entry of an id counts.
LastKey(root, id) ==
    LET hits == {i \in DOMAIN root : root[i].key_id = id}
    IN  IF id = None \/ hits = {} THEN None
        ELSE root[CHOOSE i \in hits : \A j \in hits : j <= i]

\* TrustRoot.key: the first entry of an id counts.
Key(root, id) ==
    LET hits == {i \in DOMAIN root : root[i].key_id = id}
    IN  IF id = None \/ hits = {} THEN None
        ELSE root[CHOOSE i \in hits : \A j \in hits : i <= j]

-----------------------------------------------------------------------------
(* Signed notes: [text, lines]; a line is [name, hint, signature].         *)

\* The note key id: over name and key for Ed25519, over the key alone for ECDSA,
\* and none for a key that cannot be read as what the file says it is.
NoteKeyId(name, key) ==
    IF key.algorithm = "ed25519" THEN <<name, key.material>>
    ELSE IF Usable(key) THEN <<"", key.material>>
    ELSE None

Parses(note) == note # Malformed

\* The pairs of a line and a pinned key that agree in name and key id.
Considered(note, root) ==
    {p \in (DOMAIN note.lines) \X (DOMAIN root) :
        /\ root[p[2]].key_id = note.lines[p[1]].name
        /\ NoteKeyId(note.lines[p[1]].name, root[p[2]]) = note.lines[p[1]].hint}

\* Mutated form of VerifyNote: signatures of notes are read as COSE writes them.
VerifyNoteRaw(note, root) ==
    IF ~Parses(note) THEN "None"
    ELSE IF \E p \in Considered(note, root) :
                Verifies(root[p[2]], note.text, note.lines[p[1]].signature, RAW) THEN "True"
    ELSE IF Considered(note, root) # {} THEN "False"
    ELSE "None"

\* verify_checkpoint: "None" when no pinned key is named.
VerifyNote(note, root) ==
    IF ~Parses(note) THEN "None"
    ELSE IF \E p \in Considered(note, root) :
                Verifies(root[p[2]], note.text, note.lines[p[1]].signature, ASN1) THEN "True"
    ELSE IF Considered(note, root) # {} THEN "False"
    ELSE "None"

-----------------------------------------------------------------------------
(* Receipts: [protected, proof, payload, signature].  The protected header *)
(* [alg, vds, kid] and the payload, a Merkle root, are signed; the proof   *)
(* is beside them.  A root is the sequence of its leaves.                  *)

VDS_RFC9162_SHA256 == 1

Decodes(receipt) == receipt # Malformed

HasProof(receipt) == receipt.proof # None

KeyId(receipt) == receipt.protected.kid

Unproven(inclusion, signature) ==
    [verified |-> FALSE, inclusion |-> inclusion, signature |-> signature]

ToBeSigned(receipt) == <<receipt.protected, receipt.payload>>

\* The algorithm the receipt declares replaces the one the file lists.
VerifyWithAlg(key, receipt) ==
    LET declared == IF receipt.protected.alg = None THEN key
                    ELSE [key EXCEPT !.algorithm = receipt.protected.alg]
    IN  Verifies(declared, ToBeSigned(receipt), receipt.signature, RAW)

VerifyReceiptSignature(receipt, root) ==
    LET key == Key(root, KeyId(receipt))
    IN  IF key = None THEN "None"
        ELSE IF VerifyWithAlg(key, receipt) THEN "True" ELSE "False"

\* Mutated form of ProvesLeaf: a receipt's root need not be rebuilt from the leaf.
ProvesSomeLeaf(receipt, leaf) == receipt.proof + 1 \in DOMAIN receipt.payload

\* The proof, an index, rebuilds the payload from the leaf.
ProvesLeaf(receipt, leaf) ==
    /\ receipt.proof + 1 \in DOMAIN receipt.payload
    /\ receipt.payload[receipt.proof + 1] = leaf

VerifyReceipt(receipt, leaf, root) ==
    IF ~Decodes(receipt) THEN Unproven("None", "None")
    ELSE IF \/ receipt.protected.vds # VDS_RFC9162_SHA256
            \/ ~HasProof(receipt)
            \/ receipt.payload = None THEN Unproven("None", "None")
    ELSE IF ~ProvesLeaf(receipt, leaf) THEN Unproven("False", "None")
    ELSE LET signature == VerifyReceiptSignature(receipt, root)
         IN  [verified |-> signature = "True", inclusion |-> "True", signature |-> signature]
=============================================================================
