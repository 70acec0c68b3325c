---------------------------- MODULE MCLayerCall ----------------------------
(***************************************************************************)
(* What a streamed layer computes without waiting for another thread, on   *)
(* bounded inputs: how the memory is shared out when it is installed       *)
(* (Residency), which bytes a read takes (ReadRanges), and how a call's    *)
(* rows reach their experts in a sweep (SweepRows), in slices (TokenSlices)*)
(* and with the hits first (TouchFirst).  None reads what another writes,  *)
(* so a behaviour is one of one part, chosen at the start.                 *)
(***************************************************************************)
EXTENDS Integers

CONSTANTS
    \* Residency
    PlanLayers, PlanStages, PlanBytes, PlanCounts, PlanK, MaxBudget,
    \* ReadRanges
    RangeExperts, NTensors, Files, Strides, Gaps, MergeGap, MaxSpan, RangeWorkers,
    \* SweepRows
    ChunkExperts, ChunkSlots, ChunkK, RowCounts, ChunkBatch, StockMin, KernelMin, PerExpert,
    \* TokenSlices
    SliceExperts, SliceSlots, Ks, SliceRows,
    \* TouchFirst
    TouchExperts, TouchSlots, TouchK

VARIABLES
    part,
    bpe, nExp, budget, auto, unplanned, resident, left, slots,
    loc, wanted, todo, spans, deal, buckets, unread, views,
    flat, pool, outs, bi, kernels, inPlace, sliced, graph, got, slices,
    overlapped, plain,
    pc

planVars == <<bpe, nExp, budget, auto, unplanned, resident, left, slots>>
rangeVars == <<loc, wanted, todo, spans, deal, buckets, unread, views>>
chunkVars == <<outs, bi, kernels, inPlace>>
sliceVars == <<sliced, graph, got, slices>>
touchVars == <<overlapped, plain>>

Plan == INSTANCE Residency WITH
    Layers <- PlanLayers, Stages <- PlanStages, Bytes <- PlanBytes, Counts <- PlanCounts,
    K <- PlanK, todo <- unplanned

Ranges == INSTANCE ReadRanges WITH
    NExperts <- RangeExperts, Workers <- RangeWorkers, ids <- wanted

Chunk == INSTANCE SweepRows WITH
    NExperts <- ChunkExperts, NSlots <- ChunkSlots, K <- ChunkK, SweepBatch <- ChunkBatch,
    y <- inPlace

Slices == INSTANCE TokenSlices WITH
    Experts <- SliceExperts, NSlots <- SliceSlots, Rows <- SliceRows,
    s <- sliced, read <- got

Touch == INSTANCE TouchFirst WITH
    Experts <- TouchExperts, NSlots <- TouchSlots, K <- TouchK

ASSUME PartsAssumption ==
    /\ Plan!ResidencyAssumption
    /\ Ranges!ReadRangesAssumption
    /\ Chunk!SweepRowsAssumption
    /\ Slices!SlicesAssumption
    /\ Touch!TouchAssumption

-----------------------------------------------------------------------------
(* A part that is not chosen stays off.                                    *)
Off == "idle"
PlanOff ==
    /\ bpe = Off /\ nExp = Off /\ budget = Off /\ auto = Off
    /\ unplanned = Off /\ resident = Off /\ left = Off /\ slots = Off
RangesOff ==
    /\ loc = Off /\ wanted = Off /\ todo = Off /\ spans = Off
    /\ deal = Off /\ buckets = Off /\ unread = Off /\ views = Off
RowsOff == outs = Off /\ bi = Off /\ kernels = Off /\ inPlace = Off
SlicesOff == sliced = Off /\ graph = Off /\ got = Off /\ slices = Off
TouchOff == overlapped = <<>> /\ plain = <<>>
ChunkOff == flat = Off /\ pool = Off

PartsInit ==
    \/ /\ part = "plan" /\ Plan!Init
       /\ RangesOff /\ RowsOff /\ SlicesOff /\ TouchOff /\ ChunkOff /\ pc = Off
    \/ /\ part = "ranges" /\ Ranges!Init
       /\ PlanOff /\ RowsOff /\ SlicesOff /\ TouchOff /\ ChunkOff
    \/ /\ part = "rows" /\ Chunk!Init
       /\ PlanOff /\ RangesOff /\ SlicesOff /\ TouchOff
    \/ /\ part = "slices" /\ Slices!Init
       /\ PlanOff /\ RangesOff /\ RowsOff /\ TouchOff
    \/ /\ part = "touch" /\ Touch!Init
       /\ PlanOff /\ RangesOff /\ RowsOff /\ SlicesOff /\ ChunkOff /\ pc = Off

PartsNext ==
    \/ /\ part = "plan" /\ Plan!Next
       /\ UNCHANGED <<part, rangeVars, chunkVars, sliceVars, touchVars, flat, pool, pc>>
    \/ /\ part = "ranges" /\ Ranges!Next
       /\ UNCHANGED <<part, planVars, chunkVars, sliceVars, touchVars, flat, pool>>
    \/ /\ part = "rows" /\ Chunk!Next
       /\ UNCHANGED <<part, planVars, rangeVars, sliceVars, touchVars>>
    \/ /\ part = "slices" /\ Slices!Next
       /\ UNCHANGED <<part, planVars, rangeVars, chunkVars, touchVars>>
    \/ /\ part = "touch" /\ Touch!Next
       /\ UNCHANGED <<part, planVars, rangeVars, chunkVars, sliceVars, flat, pool, pc>>

PartsSpec ==
    PartsInit /\ [][PartsNext]_<<part, planVars, rangeVars, chunkVars, sliceVars, touchVars, flat, pool, pc>>

-----------------------------------------------------------------------------
(* The parts' properties; each is stated in its module.                    *)

\* A layer is made resident only while every streamed one can keep k slots;
\* one pass is enough, so that none it passed over would qualify in the end
\* ("freed surplus cascades"); layers of one width are resident together or
\* not at all; and shares that cover k slots keep to the budget (integrate.py,
\* plan_residency and the split in load_streaming_model).
PlanHolds ==
    part = "plan" =>
        Plan!RestKeepsK /\ Plan!Settled /\ Plan!UniformFlips /\ Plan!SharesFit

\* A read that succeeds gives each expert and tensor its row's own bytes
\* (reader.py, read_ranges and read_experts_raw).
RangesExact == part = "ranges" => Ranges!RowsExact

\* A merged span is within max_span and reads at most merge_gap for nothing
\* between two requests, two neighbours could not have been one, and workers'
\* loads differ by no more than the longest (reader.py, _plan and read_ranges).
SpansMaximal ==
    part = "ranges" => Ranges!SpansBounded /\ Ranges!Coalesced /\ Ranges!Balanced

\* A sweep's rows come back in the router's order, each from its own expert
\* (integrate.py, _expert_sweep: grouping, batches, inverse permutation).
RowsInPlace == part = "rows" => Chunk!RowsInPlace

\* Every batch of a sweep runs the kernel the stock call would have run
\* (_expert_sweep's padding: "outputs match stock's bitwise").
SameKernel == part = "rows" => Chunk!SameKernel

\* A sweep leaves the chunk's most routed experts in the pool, the most
\* routed last to go (_expert_sweep's warm set and retouch).
WarmestLast == part = "rows" => Chunk!WarmestLast

\* Slices are computed from their own experts before their slots are refilled,
\* and are as few as in any cut whose slices fit the pool (integrate.py, the
\* end of __call__).
SlicesExact == part = "slices" => Slices!SlicesExact

\* From pools in the same order, a call that touches its hits first evicts
\* what plain ensure() would (pool.py, touch: "match plain `ensure`").
OneCallAgrees == Touch!OneCallAgrees
=============================================================================
