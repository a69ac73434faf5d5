------------------------------- MODULE MCAudit -------------------------------
(* A service that moves from a P-256 to an Ed25519 key under one name, a    *)
(* witness, and a trust root that may list the first key on a wrong curve.  *)
EXTENDS Audit, TLC

CONSTANTS d1, d2, s1, s2, w

MCDigests == {d1, d2}
MCSymmetry == Permutations(MCDigests)
MCCurveOf == (s1 :> "p256") @@ (s2 :> "ed25519") @@ (w :> "ed25519")
MCServiceKeys == <<s1, s2>>
MCWitness == [name |-> "witness", material |-> w]

MCHeaders ==
    {[alg |-> a, vds |-> 1, kid |-> "service"] : a \in {None, "p256", "ed25519"}}
        \cup {[alg |-> None, vds |-> 2, kid |-> "service"], [alg |-> None, vds |-> 1, kid |-> None]}

MCPins ==
    {[key_id |-> "service", material |-> s1, algorithm |-> "p256"],
     [key_id |-> "service", material |-> s1, algorithm |-> "p384"],
     [key_id |-> "service", material |-> s2, algorithm |-> "ed25519"],
     [key_id |-> "witness", material |-> w, algorithm |-> "ed25519"]}

\* An inspection reads no receipt, so the two are not followed side by side.
OneAtATime == issued = {} \/ inspection = None
=============================================================================
