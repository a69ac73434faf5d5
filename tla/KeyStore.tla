------------------------------ MODULE KeyStore ------------------------------
(***************************************************************************)
(* The operator's persistent signing key: load_or_create_keypair, run by   *)
(* several `verify --key-path` processes that share one key file.  The     *)
(* file is looked for, then read, or truncated, written and restricted,    *)
(* each by a system call of its own; there is no lock and no rename, and a *)
(* process may be killed between any two of them.                          *)
(***************************************************************************)
EXTENDS Naturals, FiniteSets

CONSTANTS
    Runs,    \* the processes
    Keys,    \* the keypairs a generation may return
    Absent,  \* no key file
    Empty    \* a key file that is truncated, not yet or never written

ASSUME FileStates == Absent \notin Keys /\ Empty \notin Keys /\ Absent # Empty

VARIABLES
    file,   \* Absent, Empty, or the key in the file
    mode,   \* the file's permissions: "umask" or "owner"
    phase,  \* where each run is
    key     \* the keypair each run holds, or Absent

vars == <<file, mode, phase, key>>

Ended == {"loaded", "created"}

\* "cut": killed with the file truncated and nothing written yet.
Phases == {"start", "reading", "creating", "opened", "written",
           "failed", "killed", "cut"} \cup Ended

\* A run that has decided to create and has not finished doing so.
Creating(r) == phase[r] \in {"creating", "opened", "written"}

Init ==
    /\ file \in Keys \cup {Absent}
    /\ mode = IF file = Absent THEN "umask" ELSE "owner"
    /\ phase = [r \in Runs |-> "start"]
    /\ key = [r \in Runs |-> Absent]

-----------------------------------------------------------------------------
Begins(r, p) ==
    /\ phase[r] = "start"
    /\ phase' = [phase EXCEPT ![r] = p]

FindsFile(r) ==
    /\ file # Absent
    /\ Begins(r, "reading")
    /\ UNCHANGED <<file, mode, key>>

\* Mutated form of Generates: the file is not looked for.
GeneratesAnyway(r, k) ==
    /\ \A q \in Runs : key[q] # k
    /\ Begins(r, "creating")
    /\ key' = [key EXCEPT ![r] = k]
    /\ UNCHANGED <<file, mode>>

\* Generated keys never repeat.
Generates(r, k) ==
    /\ file = Absent
    /\ \A q \in Runs : key[q] # k
    /\ Begins(r, "creating")
    /\ key' = [key EXCEPT ![r] = k]
    /\ UNCHANGED <<file, mode>>

\* json.loads of an empty file raises, and nothing catches it.
Reads(r) ==
    /\ phase[r] = "reading"
    /\ phase' = [phase EXCEPT ![r] = IF file \in Keys THEN "loaded" ELSE "failed"]
    /\ key' = [key EXCEPT ![r] = IF file \in Keys THEN file ELSE Absent]
    /\ UNCHANGED <<file, mode>>

\* write_text opens for writing: whatever is there is truncated, and a file
\* that was already there keeps its permissions.
Opens(r) ==
    /\ phase[r] = "creating"
    /\ file' = Empty
    /\ phase' = [phase EXCEPT ![r] = "opened"]
    /\ UNCHANGED <<mode, key>>

\* Mutated forms of Writes: a write that fails is ignored, as the chmod is;
\* and the key written is not the one returned.
WritesNothing(r) ==
    /\ phase[r] = "opened"
    /\ phase' = [phase EXCEPT ![r] = "written"]
    /\ UNCHANGED <<file, mode, key>>

WritesAnotherKey(r) ==
    /\ phase[r] = "opened"
    /\ file' \in Keys \ {key[r]}
    /\ phase' = [phase EXCEPT ![r] = "written"]
    /\ UNCHANGED <<mode, key>>

\* The documents have one length, so of two writers the later one wins whole.
Writes(r) ==
    /\ phase[r] = "opened"
    /\ file' = key[r]
    /\ phase' = [phase EXCEPT ![r] = "written"]
    /\ UNCHANGED <<mode, key>>

\* A chmod that fails is ignored.
Restricts(r) ==
    /\ phase[r] = "written"
    /\ mode' \in {mode, "owner"}
    /\ phase' = [phase EXCEPT ![r] = "created"]
    /\ UNCHANGED <<file, key>>

Killed(r) ==
    /\ phase[r] \in {"start", "reading", "creating", "written"}
    /\ phase' = [phase EXCEPT ![r] = "killed"]
    /\ UNCHANGED <<file, mode, key>>

CutShort(r) ==
    /\ phase[r] = "opened"
    /\ phase' = [phase EXCEPT ![r] = "cut"]
    /\ UNCHANGED <<file, mode, key>>

Next ==
    \E r \in Runs :
        \/ FindsFile(r)
        \/ \E k \in Keys : Generates(r, k)
        \/ Reads(r)
        \/ Opens(r)
        \/ Writes(r)
        \/ Restricts(r)
        \/ Killed(r)
        \/ CutShort(r)

Spec == Init /\ [][Next]_vars

-----------------------------------------------------------------------------
(* The file is absent, truncated or one of the keys; a run that ended well *)
(* holds a key (load_or_create_keypair).                                   *)
TypeOK ==
    /\ file \in Keys \cup {Absent, Empty}
    /\ mode \in {"umask", "owner"}
    /\ phase \in [Runs -> Phases]
    /\ key \in [Runs -> Keys \cup {Absent}]
    /\ \A r \in Runs : phase[r] \in Ended => key[r] \in Keys

\* A whole key is in the file, and no run that missed it is still creating.
Settled == file \in Keys /\ \A r \in Runs : ~Creating(r)

(* Once settled, the store stays so with the same key: every run from then *)
(* on has the same identity, however many are killed                       *)
(* (the existence check of load_or_create_keypair).                        *)
KeySettles ==
    [][Settled => file' = file /\ Settled']_vars

(* A run is refused the key only while another is between truncating and   *)
(* writing the file, or because one was killed there: nothing else leaves  *)
(* a file that does not load (load_or_create_keypair, write_text).         *)
RefusedOnlyMidWrite ==
    [][\A r \in Runs :
         phase[r] # "failed" /\ phase'[r] = "failed"
            => \E q \in Runs : phase[q] \in {"opened", "cut"}]_vars

(* A key that a run created and reported is still the one in the file,     *)
(* unless another run was creating one as well: an identity is lost only   *)
(* to a race (load_or_create_keypair).                                     *)
LostOnlyToARace ==
    \A r \in Runs :
        phase[r] = "created" =>
            \/ file = key[r]
            \/ \E q \in Runs \ {r} : phase[q] \in {"opened", "written", "created",
                                                  "killed", "cut"}
=============================================================================
