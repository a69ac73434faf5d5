------------------------------ MODULE TcbLookup ------------------------------
(***************************************************************************)
(* tools/tcb_lookup.py: the vendor's current TCB of a platform, kept in    *)
(* memory for a day.  A call reads the clock, looks into the cache, and if *)
(* it must asks Intel's service, which may change what it publishes, fail  *)
(* or answer nonsense while the call waits.  Failures are kept as long as  *)
(* references are.                                                         *)
(***************************************************************************)
EXTENDS Integers, FiniteSetsExt

CONSTANTS
    None,       \* Python's None, and an SVN array a level does not have
    Malformed,  \* a response whose fields have the wrong types or ranges
    Down,       \* no response that parses as JSON
    Documents,  \* TCB-info documents: sets of [tdx, sgx, status]
    Sources,    \* pairs <<platform, fmspc>>; the fmspc may be NoFmspc
    NoFmspc,
    Ttl,        \* CACHE_TTL_SECONDS
    Horizon,    \* bound on the clock
    MaxChanges  \* bound on the changes of what is published

ASSUME TtlIsPositive == Ttl \in Nat \ {0}

VARIABLES
    clock,
    feed,       \* by live source: the response a request would get now
    published,  \* by live source: <<time, response>> for all it has had
    changes,
    cache,      \* by source: None, or [fetched_at, ref]
    call,       \* the call being served: None, or [source, now, response]
    answer      \* the last result since the clock moved, or None:
                \* [source, asked, reference]

vars == <<clock, feed, published, changes, cache, call, answer>>

-----------------------------------------------------------------------------
IntelTDX == "Intel-TDX"

\* The sources _fetch_intel_tcb is called for.
Live == {s \in Sources : s[1] = IntelTDX /\ s[2] # NoFmspc}

Responses == Documents \cup {Down, Malformed}

\* _tdx_components, _sgx_components; an SVN array is a number, as arrays of one
\* length compare byte by byte like their hex strings.
Components(level, platform) ==
    IF platform = IntelTDX THEN level.tdx ELSE level.sgx

ParseIntelTcbInfo(data, platform) ==
    LET scored   == {l \in data : Components(l, platform) # None}
        uptodate == {l \in scored : l.status = "UpToDate"}
        best     == IF uptodate # {} THEN uptodate ELSE scored
    IN  IF best = {} THEN None ELSE Max({Components(l, platform) : l \in best})

\* _fetch_intel_tcb: only the request is guarded; what does not parse as a
\* TCB-info document raises.
Outcome ==
    [response \in Responses |->
        CASE response = Down -> None
          [] response = Malformed -> Malformed
          [] OTHER -> ParseIntelTcbInfo(response, IntelTDX)]

Outcomes == {Outcome[r] : r \in Responses}

Key(source) == source

Fresh(entry, now) == entry # None /\ now - entry.fetched_at < Ttl

-----------------------------------------------------------------------------
Init ==
    /\ clock = 0
    /\ feed \in [Live -> Responses]
    /\ published = [s \in Live |-> {<<0, feed[s]>>}]
    /\ changes = 0
    /\ cache = [s \in Sources |-> None]
    /\ call = None
    /\ answer = None

Tick ==
    /\ clock < Horizon
    /\ clock' = clock + 1
    /\ published' = [s \in Live |-> published[s] \cup {<<clock', feed[s]>>}]
    /\ answer' = None
    /\ UNCHANGED <<feed, changes, cache, call>>

Publish(s, response) ==
    /\ changes < MaxChanges
    /\ changes' = changes + 1
    /\ feed' = [feed EXCEPT ![s] = response]
    /\ published' = [published EXCEPT ![s] = @ \cup {<<clock, response>>}]
    /\ UNCHANGED <<clock, cache, call, answer>>

Returns(source, asked, ref) ==
    answer' = [source |-> source, asked |-> asked, reference |-> ref]

AskHit(s) ==
    /\ call = None
    /\ Fresh(cache[Key(s)], clock)
    /\ Returns(s, clock, cache[Key(s)].ref)
    /\ UNCHANGED <<clock, feed, published, changes, cache, call>>

\* No live source: None is cached and returned at once.
AskSilent(s) ==
    /\ call = None
    /\ ~Fresh(cache[Key(s)], clock)
    /\ s \notin Live
    /\ cache' = [cache EXCEPT ![Key(s)] = [fetched_at |-> clock, ref |-> None]]
    /\ Returns(s, clock, None)
    /\ UNCHANGED <<clock, feed, published, changes, call>>

AskMiss(s) ==
    /\ call = None
    /\ ~Fresh(cache[Key(s)], clock)
    /\ s \in Live
    /\ call' = [source |-> s, now |-> clock, response |-> None]
    /\ UNCHANGED <<clock, feed, published, changes, cache, answer>>

\* The service answers, or the request fails or times out.
Respond ==
    /\ call # None
    /\ call.response = None
    /\ call' = [call EXCEPT !.response = feed[call.source]]
    /\ UNCHANGED <<clock, feed, published, changes, cache, answer>>

\* Mutated form of Complete: the clock is read when the response has come.
CompleteStampedLate ==
    /\ call # None
    /\ call.response \notin {None, Malformed}
    /\ LET ref == Outcome[call.response]
       IN  /\ cache' = [cache EXCEPT ![Key(call.source)] =
                           [fetched_at |-> clock, ref |-> ref]]
           /\ Returns(call.source, call.now, ref)
    /\ call' = None
    /\ UNCHANGED <<clock, feed, published, changes>>

Complete ==
    /\ call # None
    /\ call.response \notin {None, Malformed}
    /\ LET ref == Outcome[call.response]
       IN  /\ cache' = [cache EXCEPT ![Key(call.source)] =
                           [fetched_at |-> call.now, ref |-> ref]]
           /\ Returns(call.source, call.now, ref)
    /\ call' = None
    /\ UNCHANGED <<clock, feed, published, changes>>

\* The parser raises: nothing is cached and the caller gets the exception.
Raise ==
    /\ call # None
    /\ call.response = Malformed
    /\ call' = None
    /\ UNCHANGED <<clock, feed, published, changes, cache, answer>>

\* clear_cache, or a new process.
ClearCache ==
    /\ call = None
    /\ cache' = [s \in Sources |-> None]
    /\ UNCHANGED <<clock, feed, published, changes, call, answer>>

-----------------------------------------------------------------------------
Ask == \E s \in Sources : AskHit(s) \/ AskSilent(s) \/ AskMiss(s)

Next ==
    \/ Tick
    \/ \E s \in Live, r \in Responses : Publish(s, r)
    \/ Ask
    \/ Respond
    \/ Complete
    \/ Raise
    \/ ClearCache

Spec == Init /\ [][Next]_vars

-----------------------------------------------------------------------------
(* Only a configuration with a live source is ever waited for, and nothing *)
(* is stamped with a time to come (fetch_current_tcb).                     *)
TypeOK ==
    /\ clock \in Nat
    /\ feed \in [Live -> Responses]
    /\ published \in [Live -> SUBSET ((0 .. clock) \X Responses)]
    /\ cache \in [Sources -> {None} \cup
                     [fetched_at : 0 .. clock, ref : Outcomes \cup {None}]]
    /\ call \in {None} \cup [source : Live, now : 0 .. clock,
                             response : Responses \cup {None}]

\* What the responses on record come to.
Recorded(p) == <<p[1], Outcome[p[2]]>>
OutcomesOf(history) == {Recorded(p) : p \in history}

Feed == INSTANCE TcbFeed WITH given <- [s \in Live |-> OutcomesOf(published[s])]

(* However the vendor's publications, failures and the clock fall between  *)
(* the steps of a call, the lookup keeps the promise of TcbFeed: what it   *)
(* answers the vendor had for that configuration less than a time to live  *)
(* before it was asked (fetch_current_tcb: "a reference fetched for one    *)
(* platform config is never reused for another").                          *)
KeepsThePromise == Feed!Spec
=============================================================================
