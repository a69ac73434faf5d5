------------------------------- MODULE TcbFeed -------------------------------
(***************************************************************************)
(* What a lookup of the current TCB promises, apart from how it is cached: *)
(* the answer is the vendor's own for that very platform configuration,    *)
(* given no longer than Ttl before the question; a platform without a live *)
(* source has no answer.  Silence is held to the same: it is the vendor's  *)
(* silence, and as recent (tools/tcb_lookup.py, module docstring).         *)
(***************************************************************************)
EXTENDS Integers

CONSTANTS
    Sources,   \* the configurations <<platform, fmspc>> one may ask about
    Live,      \* those of them the vendor publishes a reference for
    Outcomes,  \* what the vendor's service may come to: references, None, ...
    None,      \* no reference
    Ttl

VARIABLES
    clock,
    given,   \* by live source: the <<time, outcome>> pairs the vendor has had
    answer   \* the last answer since the clock moved, or None:
             \* [source, asked, reference]

feedVars == <<clock, given, answer>>

Init ==
    /\ clock = 0
    /\ \E first \in [Live -> Outcomes] : given = [s \in Live |-> {<<0, first[s]>>}]
    /\ answer = None

Tick ==
    /\ clock' = clock + 1
    /\ \E now \in [Live -> Outcomes] :
          given' = [s \in Live |-> given[s] \cup {<<clock', now[s]>>}]
    /\ answer' = None

Publish ==
    /\ \E s \in Live, o \in Outcomes :
          given' = [given EXCEPT ![s] = @ \cup {<<clock, o>>}]
    /\ UNCHANGED <<clock, answer>>

Justified(source, asked, reference) ==
    IF source \in Live
    THEN \E g \in given[source] : g[2] = reference /\ asked - g[1] < Ttl
    ELSE reference = None

Answer ==
    /\ \E s \in Sources, asked \in 0 .. clock, o \in Outcomes \cup {None} :
          /\ answer' = [source |-> s, asked |-> asked, reference |-> o]
          /\ Justified(s, asked, o)
    /\ UNCHANGED <<clock, given>>

Next == Tick \/ Publish \/ Answer

Spec == Init /\ [][Next]_feedVars
=============================================================================
