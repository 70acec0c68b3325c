---------------------------- MODULE MCDecodeLoop ----------------------------
(***************************************************************************)
(* The parts of the pipelined decode loop for TLC: the greedy loop         *)
(* (Generate), the head that is fed and drafts (DraftHead), stochastic     *)
(* acceptance at a position (SpeculativeSampling) and the gate that turns  *)
(* drafting on and off (SelfGate).  Each leaves the others open (the loop  *)
(* takes any drafts, the gate any costs), so a behaviour is one of one     *)
(* part, chosen at the start.                                              *)
(***************************************************************************)
EXTENDS Generate

\* The parts' own; KMax is the loop's and the gate's.
CONSTANTS
    Keeps, Depth, MaxPairs,
    Ids, Whole,
    GateProbe, GateMin, GateHold, GateHoldMax, ExploreEvery, Costs, Extra, Feeds,
    HostResets, Upsets

VARIABLES
    part,
    dkind, keep, dcache, waiting, snap, chain, committed,
    pDist, qDist, tau, adaptive, floored, drawn, unused, accepted, rejected, emitted, scale, spc,
    phase, holdLeft, holdCur, charged, time, tok, settle, explore, spt, verdict,
    warmGate, warm, tN, unseen, stale, cost, into, drifts, restarts

headVars == <<dkind, keep, dcache, waiting, snap, chain, committed>>
sampleVars == <<pDist, qDist, tau, adaptive, floored, drawn, unused, accepted, rejected, emitted,
                scale, spc>>
gateVars == <<phase, holdLeft, holdCur, charged, time, tok, settle, explore, spt, verdict,
              warmGate, warm, tN, unseen, stale, cost, into, drifts, restarts>>

Drafter == INSTANCE DraftHead WITH
    kind <- dkind, cache <- dcache, left <- chain, n <- committed

Sampling == INSTANCE SpeculativeSampling WITH
    Tokens <- Ids, p <- pDist, q <- qDist, pc <- spc

Gate == INSTANCE SelfGate WITH n <- charged

ASSUME PartsAssumption ==
    /\ Drafter!DraftHeadAssumption
    /\ Sampling!SamplingAssumption
    /\ Gate!GateAssumption

-----------------------------------------------------------------------------
(* A part that is not chosen stays off; the loop that is off has returned  *)
(* with the prompt's id, a stop id.                                        *)
Off == "idle"
LoopOff ==
    /\ path = <<2>> /\ hasPlain = Off /\ out = <<2>> /\ cache = Off /\ cur = Off
    /\ offset = Off /\ pairs = <<>> /\ fed = <<>> /\ drafts = Off /\ outs = Off
    /\ snaps = Off /\ kept = Off /\ pc = Off
HeadOff ==
    /\ dkind = Off /\ keep = Off /\ dcache = Off /\ waiting = Off /\ snap = Off
    /\ chain = Off /\ committed = Off
SamplingOff ==
    /\ pDist = Off /\ qDist = Off /\ tau = Off /\ adaptive = Off /\ floored = Off
    /\ drawn = Off /\ unused = Off /\ accepted = Off /\ rejected = Off /\ emitted = Off /\ scale = Off
    /\ spc = Off
GateOff ==
    /\ phase = "none" /\ holdLeft = 0 /\ holdCur = Off /\ charged = Off /\ time = Off /\ tok = Off
    /\ settle = Off /\ explore = Off /\ spt = Off /\ verdict = Off /\ warmGate = Off
    /\ warm = Off /\ tN = Off /\ unseen = Off /\ stale = Off /\ cost = Off
    /\ into = Off /\ drifts = Off /\ restarts = Off

PartsInit ==
    \/ part = "loop" /\ Init /\ HeadOff /\ SamplingOff /\ GateOff
    \/ part = "head" /\ Drafter!Init /\ LoopOff /\ SamplingOff /\ GateOff
    \/ part = "sampling" /\ Sampling!Init /\ LoopOff /\ HeadOff /\ GateOff
    \/ part = "gate" /\ Gate!Init /\ LoopOff /\ HeadOff /\ SamplingOff

PartsNext ==
    \/ part = "loop" /\ Next /\ UNCHANGED <<part, headVars, sampleVars, gateVars>>
    \/ part = "head" /\ Drafter!Next /\ UNCHANGED <<part, vars, sampleVars, gateVars>>
    \/ part = "sampling" /\ Sampling!Next /\ UNCHANGED <<part, vars, headVars, gateVars>>
    \/ part = "gate" /\ Gate!Next /\ UNCHANGED <<part, vars, headVars, sampleVars>>

\* generate() runs until it returns; the host whose gate it is keeps decoding.
PartsSpec ==
    /\ PartsInit /\ [][PartsNext]_<<part, vars, headVars, sampleVars, gateVars>>
    /\ WF_<<part, vars>>(part = "loop" /\ Next /\ UNCHANGED part)
    /\ WF_<<part, gateVars>>(part = "gate" /\ Gate!Step /\ UNCHANGED part)
-----------------------------------------------------------------------------
(* The parts' properties, each stated in its module; the loop's are        *)
(* Generate's own.                                                         *)

\* Between drafts a head's context is the committed pairs in order, as far
\* back as a layer sees, and a windowed head never holds more than a window
\* waiting (pipeline_adapters.py, _MtpDrafter and VlmDrafter).
HeadContext == part = "head" => Drafter!HeadContext

\* Acceptance and the residual together emit the host's own distribution where
\* every draft is launched (_accept_stochastic: "Lossless").
LosslessLaunched == part = "sampling" => Sampling!LosslessLaunched

\* While the regime lasts, the arm held is the faster one: no cold, settling or
\* exploring step is charged to a rate; and a hold keeps to its maximum
\* (_gate_account).
GateHolds == part = "gate" => Gate!GateHolds

\* Every hold ends in a probe of the other arm and every probe ends
\* (_gate_account, "hold over: probe the OTHER arm").
ProbesOther == Gate!ProbesOther
=============================================================================
