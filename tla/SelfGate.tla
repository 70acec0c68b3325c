------------------------------ MODULE SelfGate ------------------------------
(***************************************************************************)
(* The self-gate of the pipelined decoder (streamlx/pipeline.py,           *)
(* _gate_account and _g_begin) with the parts of _draft_for and _choose_k  *)
(* it depends on.  Drafting is one arm, plain decoding the other.  A probe *)
(* measures the seconds per token of an arm; with both measured the gate   *)
(* holds one of them for some tokens and then probes the other.            *)
(*                                                                         *)
(* A duration is a small number, a rate the pair <<seconds, tokens>>.  In  *)
(* a regime every token of an arm costs the same; a step that pays for     *)
(* something else (a cold start, a switch, an exploration) costs Extra     *)
(* more.  Draft time is part of the drafting arm's cost; a stream count    *)
(* taken for its optimistic estimate counts as any other.  Counters whose  *)
(* value matters only up to a limit stop there.                            *)
(***************************************************************************)
EXTENDS Integers

CONSTANTS
    GateProbe,     \* gate_probe: steps of a probe
    GateMin,       \* gate_min: steps before a probe may end early
    GateHold,      \* gate_hold: tokens of a first hold
    GateHoldMax,   \* gate_hold_max
    ExploreEvery,  \* _explore_every: steps a stream count may go unseen
    KMax,          \* k_max: streams of a step at most
    Costs,         \* the seconds a token may cost
    Extra,         \* the seconds a step that pays for learning adds
    Feeds,         \* whether the adapter has feed_pairs
    HostResets,    \* whether the host calls reset_stats() with prime()
    Upsets         \* how often the regime changes, a sequence starts or a step
                   \* raises, at most

\* Assumed of the constants.
GateAssumption ==
    /\ GateMin \in Nat \ {0} /\ GateProbe \in Nat /\ GateMin <= GateProbe
    /\ GateHold \in Nat \ {0} /\ GateHoldMax \in Nat /\ GateHold <= GateHoldMax
    /\ KMax \in Nat \ {0} /\ ExploreEvery \in Nat /\ Costs \subseteq Nat \ {0}
    /\ Extra \in Nat /\ Feeds \in BOOLEAN /\ HostResets \in BOOLEAN
    /\ Upsets \in Nat

Arms == {"on", "off"}
Ks == 2 .. KMax            \* stream counts of a pipelined step
Unmeasured == <<0, 0>>     \* no rate yet (None)

VARIABLES
    phase,      \* _g_phase: the current arm; drafting is phase = "on"
    holdLeft,   \* _g_hold_left: 0 while probing
    holdCur,    \* _g_hold_cur
    n,          \* _g_n: steps charged in this phase
    time,       \* _g_t: their seconds
    tok,        \* _g_tok: their tokens
    settle,     \* _g_settle: the next step pays the switch
    explore,    \* _g_explore: the step in flight explores a stream count
    spt,        \* _g_spt: arm -> its rate of record
    verdict,    \* _g_decisions[-1]'s arm, "none" before the first
    warmGate,   \* _warm_gate, up to 2
    warm,       \* _warm, up to 2
    tN,         \* _t_n: stream count -> clean samples, up to 3
    unseen,     \* _t_clock - _t_last: up to ExploreEvery + 1
    stale,      \* _stale_drafter
    cost,       \* the regime: arm -> seconds per token
    into,       \* steps since the sequence began, up to 2
    drifts, restarts

gate == <<phase, holdLeft, holdCur, n, time, tok, settle, spt, verdict>>
model == <<warm, tN, unseen>>
world == <<cost, drifts, restarts>>
vars == <<gate, explore, warmGate, model, stale, into, world>>

UpTo(limit, i) == IF i < limit THEN i ELSE limit
Other == IF phase = "on" THEN "off" ELSE "on"
Cold == into < 2
Holding == holdLeft > 0

-----------------------------------------------------------------------------
(* Rates.  a is lower than b by a margin of m percent, and b exceeded by m *)
(* percent: divisions are multiplied out.                                  *)
Lower(a, b, m) == 100 * a[1] * b[2] < (100 - m) * b[1] * a[2]
Exceeds(a, b, m) == 100 * a[1] * b[2] > (100 + m) * b[1] * a[2]

Chosen(rates) == IF Lower(rates["on"], rates["off"], 2) THEN "on" ELSE "off"

-----------------------------------------------------------------------------
(* The gate.                                                               *)
BeginArm(arm, hold) ==
    /\ phase' = arm /\ holdLeft' = hold
    /\ n' = 0 /\ time' = 0 /\ tok' = 0 /\ settle' = TRUE

NextHold(arm) == IF verdict = arm THEN UpTo(GateHoldMax, 2 * holdCur) ELSE GateHold

\* The probe of this arm is over: measure the other, or hold the better one.
EndProbe(rates) ==
    /\ spt' = rates
    /\ \/ /\ rates[Other] = Unmeasured
          /\ BeginArm(Other, 0)
          /\ UNCHANGED <<holdCur, verdict>>
       \/ /\ rates[Other] # Unmeasured
          /\ holdCur' = NextHold(Chosen(rates))
          /\ verdict' = Chosen(rates)
          /\ BeginArm(Chosen(rates), holdCur')

\* A step that reflects the arm's rate is charged to it.
Charge(dt, tokens) ==
    LET rate == <<time + dt, tok + tokens>>
        early == /\ spt[Other] # Unmeasured /\ n + 1 >= GateMin
                 /\ Exceeds(rate, spt[Other], 15)
    IN  \/ /\ n + 1 >= GateProbe \/ early
           /\ EndProbe([spt EXCEPT ![phase] = rate])
        \/ /\ n + 1 < GateProbe /\ ~early
           /\ n' = n + 1 /\ time' = rate[1] /\ tok' = rate[2]
           /\ UNCHANGED <<phase, holdLeft, holdCur, settle, spt, verdict>>

HoldOn(tokens) ==
    \/ /\ holdLeft <= tokens
       /\ BeginArm(Other, 0)
       /\ UNCHANGED <<holdCur, spt, verdict>>
    \/ /\ holdLeft > tokens
       /\ holdLeft' = holdLeft - tokens
       /\ UNCHANGED <<phase, holdCur, n, time, tok, settle, spt, verdict>>

\* Mutant: the flag of the settling step is never taken down.
SettledStuck == settle /\ UNCHANGED gate

Settled == /\ settle /\ settle' = FALSE
           /\ UNCHANGED <<phase, holdLeft, holdCur, n, time, tok, spt, verdict>>

\* Mutant: explored stream counts are charged to the arm.
GateAccountExploring(dt, tokens, exploring) ==
    /\ explore' = FALSE /\ warmGate' = UpTo(2, warmGate + 1)
    /\ \/ warmGate < 2 /\ UNCHANGED gate
       \/ warmGate >= 2 /\ Holding /\ HoldOn(tokens)
       \/ warmGate >= 2 /\ ~Holding /\ Settled
       \/ warmGate >= 2 /\ ~Holding /\ ~settle /\ Charge(dt, tokens)

GateAccount(dt, tokens, exploring) ==
    /\ explore' = FALSE /\ warmGate' = UpTo(2, warmGate + 1)
    /\ \/ warmGate < 2 /\ UNCHANGED gate
       \/ warmGate >= 2 /\ Holding /\ HoldOn(tokens)
       \/ warmGate >= 2 /\ ~Holding /\ Settled
       \/ warmGate >= 2 /\ ~Holding /\ ~settle /\ exploring /\ UNCHANGED gate
       \/ warmGate >= 2 /\ ~Holding /\ ~settle /\ ~exploring /\ Charge(dt, tokens)

-----------------------------------------------------------------------------
(* The K controller.                                                       *)
LearnTime(K) ==
    /\ warm' = UpTo(2, warm + 1)
    /\ \/ warm < 2 /\ UNCHANGED tN
       \/ warm >= 2 /\ tN' = [tN EXCEPT ![K] = UpTo(3, @ + 1)]
    /\ unseen' = [j \in Ks |-> IF j = K /\ warm >= 2 THEN 0
                               ELSE UpTo(ExploreEvery + 1, unseen[j] + 1)]

Unknown(K) == tN[K] < 3 \/ unseen[K] > ExploreEvery

\* The stream counts _choose_k may return with the one its estimates prefer
\* being any: the first unknown one other than that, exploring, or itself.
ChooseK(kmax) ==
    {[K |-> K, exploring |-> TRUE] : K \in {j \in 2 .. kmax :
        /\ Unknown(j)
        /\ \E best \in 2 .. kmax \ {j} : \A i \in 2 .. j - 1 : i = best \/ ~Unknown(i)}}
    \cup {[K |-> K, exploring |-> FALSE] : K \in {best \in 2 .. kmax :
        \A j \in 2 .. kmax \ {best} : ~Unknown(j)}}

Seconds(arm, tokens, exploring) ==
    cost[arm] * tokens
    + (IF Cold \/ (settle /\ ~Holding) \/ exploring THEN Extra ELSE 0)

Stepped == into' = UpTo(2, into + 1)

\* Drafting is off: the head is fed the committed pairs, or goes stale.
OffStep ==
    /\ phase = "off"
    /\ stale' = (stale \/ ~Feeds)
    /\ GateAccount(Seconds("off", 1, FALSE), 1, explore)
    /\ Stepped /\ UNCHANGED <<model, world>>

\* Drafting is on, but there is no draft to launch: the head is stale, or
\* proposes none.
OnPlainStep ==
    /\ phase = "on"
    /\ GateAccount(Seconds(IF stale THEN "off" ELSE "on", 1, FALSE), 1, explore)
    /\ Stepped /\ UNCHANGED <<model, stale, world>>

\* A pipelined step that commits some of its streams.
OnStep ==
    /\ phase = "on" /\ ~stale
    /\ \E kmax \in Ks : \E choice \in ChooseK(kmax) : \E a \in 1 .. choice.K :
          LET exploring == explore \/ choice.exploring
          IN  /\ LearnTime(choice.K)
              /\ GateAccount(Seconds("on", a, exploring), a, exploring)
    /\ Stepped /\ UNCHANGED <<stale, world>>

\* A read raises in the step: the flag set for it stays.
OnStepRaises ==
    /\ phase = "on" /\ ~stale
    /\ drifts + restarts < Upsets /\ restarts' = restarts + 1
    /\ \E kmax \in Ks : \E choice \in ChooseK(kmax) :
          explore' = (explore \/ choice.exploring)
    /\ UNCHANGED <<gate, warmGate, model, stale, into, cost, drifts>>

\* A new sequence: prime(), and reset_stats() if the host calls it.
NewSequence ==
    /\ drifts + restarts < Upsets /\ restarts' = restarts + 1
    /\ warm' = 0 /\ into' = 0
    /\ warmGate' = IF HostResets THEN 0 ELSE warmGate
    /\ stale' = (stale /\ ~HostResets)
    /\ UNCHANGED <<gate, explore, tN, unseen, cost, drifts>>

\* The text, the context's length or the machine's load changes.
Drift ==
    /\ drifts + restarts < Upsets /\ drifts' = drifts + 1
    /\ cost' \in [Arms -> Costs]
    /\ UNCHANGED <<gate, explore, warmGate, model, stale, into, restarts>>

Init ==
    /\ phase = "off" /\ holdLeft = 0 /\ holdCur = GateHold
    /\ n = 0 /\ time = 0 /\ tok = 0 /\ settle = TRUE /\ explore = FALSE
    /\ spt = [arm \in Arms |-> Unmeasured] /\ verdict = "none"
    /\ warmGate = 0 /\ warm = 0
    /\ tN = [K \in Ks |-> 0] /\ unseen = [K \in Ks |-> 0]
    /\ stale = FALSE /\ into = 0
    /\ cost \in [Arms -> Costs] /\ drifts = 0 /\ restarts = 0

Step == OffStep \/ OnPlainStep \/ OnStep

Next == Step \/ OnStepRaises \/ NewSequence \/ Drift

\* The host keeps decoding.
Spec == Init /\ [][Next]_vars /\ WF_vars(Step)

-----------------------------------------------------------------------------
(* Properties.                                                             *)

TypeOK ==
    /\ phase \in Arms /\ verdict \in Arms \cup {"none"}
    /\ holdCur \in GateHold .. GateHoldMax /\ holdLeft \in 0 .. holdCur
    /\ n \in 0 .. GateProbe - 1 /\ tok \in n .. n * KMax /\ time \in Nat
    /\ settle \in BOOLEAN /\ explore \in BOOLEAN /\ stale \in BOOLEAN
    /\ spt \in [Arms -> Nat \X Nat] /\ cost \in [Arms -> Costs]
    /\ warmGate \in 0 .. 2 /\ warm \in 0 .. 2 /\ into \in 0 .. 2
    /\ tN \in [Ks -> 0 .. 3] /\ unseen \in [Ks -> 0 .. ExploreEvery + 1]

Faster == Chosen([arm \in Arms |-> <<cost[arm], 1>>])

\* While the regime lasts, the arm held is the one whose tokens cost less,
\* whatever the cold, settling and exploring steps cost: none of them is
\* charged to the arm's rate.
HoldsFaster == Holding /\ drifts = 0 => phase = Faster

\* Every hold ends in a probe of the other arm and every probe ends,
\* whatever the controller explores meanwhile (_gate_account, "hold over:
\* probe the OTHER arm").
ProbesOther ==
    \A arm \in Arms :
        /\ (phase = arm /\ Holding) ~> (phase # arm /\ ~Holding)
        /\ (phase = arm /\ ~Holding) ~> (phase # arm \/ Holding)

\* Once the regime stops changing the gate comes to hold the faster arm only
\* (pipeline.py, "keeps the faster arm for a hold period, and re-probes the
\* other arm afterwards").
SettlesOnFaster == <>[](Holding => phase = Faster)

\* A sequence's first two steps are not charged to an arm (_gate_account, "a
\* sequence's cold steps").
ColdNotCharged ==
    [][Cold /\ into' # into /\ restarts' = restarts => UNCHANGED gate]_vars

\* A head that could not be fed is asked again once a prefill has primed it
\* (_draft_for, "adapters that cannot feed silently just re-prime on the next
\* prefill").
PrimeRearms == phase = "on" /\ into = 0 => ~stale

\* Every variable keeps its type (a hold is never longer than its maximum), and
\* the arm held is the faster one (pipeline.py, _gate_account).
GateHolds == TypeOK /\ HoldsFaster

=============================================================================
