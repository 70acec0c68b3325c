------------------------------ MODULE MCPrefill ------------------------------
(***************************************************************************)
(* A prompt's prefill for TLC: requests that share a store, a few lengths  *)
(* and step sizes, three in a row (the constants of the configuration);    *)
(* one request of any length and any of ten steps; four short requests, so *)
(* that a turn can be asked again after the one that followed it; and the  *)
(* attention of one chunk in blocks.  A behaviour is one of the four.      *)
(***************************************************************************)
EXTENDS PrefillHistory

\* The blocks' own.
CONSTANTS Queries, Contexts, MinRows, Unit, Limit

VARIABLES part, queries, keys, maskKind, mask, rowsDone, attended, built, stage

blockVars == <<queries, keys, maskKind, mask, rowsDone, attended, built, stage>>

Long == INSTANCE PrefillHistory WITH
    Words <- {"a"}, Lengths <- 1 .. 26, Steps <- {1, 2, 3, 4, 5, 7, 8, 9, 12, 16},
    MaxLen <- 30, MaxRequests <- 1

Again == INSTANCE PrefillHistory WITH
    Words <- {"a"}, Lengths <- {1}, Steps <- {2}, MinSnapshot <- 1,
    MaxLen <- 12, MaxRequests <- 4

Blocks == INSTANCE AttentionBlocks WITH
    n <- queries, s <- keys, kind <- maskKind, i <- rowsDone, out <- attended, pc <- stage

ASSUME PartsAssumption == Blocks!BlocksAssumption

Off == "idle"
BlocksOff ==
    /\ queries = Off /\ keys = Off /\ maskKind = Off /\ mask = Off
    /\ rowsDone = Off /\ attended = Off /\ built = Off /\ stage = Off
\* Requests stay as they are while a chunk's attention is computed.
PrefillOff == Init /\ ~paged /\ ~trimmable /\ step = Min(Steps)

PartsInit ==
    \/ part = "turns" /\ Init /\ BlocksOff
    \/ part = "long" /\ Long!Init /\ BlocksOff
    \/ part = "again" /\ Again!Init /\ BlocksOff
    \/ part = "blocks" /\ Blocks!Init /\ PrefillOff

PartsNext ==
    \/ part = "turns" /\ Next /\ UNCHANGED <<part, blockVars>>
    \/ part = "long" /\ Long!Next /\ UNCHANGED <<part, blockVars>>
    \/ part = "again" /\ Again!Next /\ UNCHANGED <<part, blockVars>>
    \/ part = "blocks" /\ Blocks!Next /\ UNCHANGED <<part, vars>>

PartsSpec == PartsInit /\ [][PartsNext]_<<part, vars, blockVars>>

-----------------------------------------------------------------------------
\* In every block, for every kind of mask and wherever a block raises, a row
\* attends to the keys the stock call would show it; and a call of MinRows rows
\* or more, unless a block of it raised, holds no more scores at once than the
\* limit or one unit of rows (attention.py, _attend: "per row the same
\* computation", "the transient near limit_bytes").
BlocksExact == part = "blocks" => Blocks!BlocksExact
=============================================================================
