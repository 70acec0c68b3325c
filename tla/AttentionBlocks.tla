--------------------------- MODULE AttentionBlocks ---------------------------
(***************************************************************************)
(* Attention in blocks of query rows (streamlx/attention.py, _attend): a   *)
(* call that would build all its scores goes to the fused kernel, or is    *)
(* run block by block, each evaluated before the next is built, or, where  *)
(* a block cannot be evaluated, goes to the stock call after all.          *)
(*                                                                         *)
(* A row's result is the set of keys it attends to; queries and keys are   *)
(* numbered from 0.  The scores a call holds are counted, not their bytes. *)
(***************************************************************************)
EXTENDS Integers, Sequences, FiniteSets, FiniteSetsExt, SequencesExt

CONSTANTS
    Queries,   \* rows in a call: what they may be
    Contexts,  \* keys before the call's own: what they may be
    MinRows,   \* a shorter call is left alone (128)
    Unit,      \* blocks are multiples of it, and at least one (64)
    Limit      \* limit_bytes, in scores

\* Assumed of the constants.
BlocksAssumption ==
    /\ Queries \subseteq Nat \ {0} /\ Contexts \subseteq Nat
    /\ MinRows \in Nat /\ Unit \in Nat \ {0} /\ Limit \in Nat

VARIABLES
    n, s,      \* queries, keys
    kind,      \* the mask: "none", "causal", "rows" (one per query), "shared"
    mask,      \* an array mask: row -> keys it lets through
    i,         \* rows done
    out,       \* row -> keys it attended to
    built,     \* scores held at once at most
    pc         \* "call", "blocks", "done" or, by the stock call after all, "unblocked"

args == <<n, s, kind, mask>>
vars == <<args, i, out, built, pc>>
Cut(a, b) == IF a < b THEN a ELSE b

\* What the stock call lets row r of a call of rows a .. b - 1 see, given its
\* mask m.  Its own "causal" lines the last row up with the last key.
Causal(r) == {x \in 0 .. s - 1 : x <= r + s - n}
StockRow(r) ==
    CASE kind = "none" -> 0 .. s - 1
      [] kind = "causal" -> Causal(r)
      [] kind = "rows" -> mask[r]
      [] kind = "shared" -> mask[0]

Stock == [r \in 0 .. n - 1 |-> StockRow(r)]

-----------------------------------------------------------------------------
\* Mutant: as if the block's rows were the last.
BlockRowLast(r, a, b) ==
    CASE kind = "none" -> 0 .. s - 1
      [] kind = "causal" -> {x \in 0 .. s - 1 : x <= r - a + s - (b - a)}
      [] kind = "rows" -> mask[r]
      [] kind = "shared" -> mask[0]

\* What row r sees in the block of rows a .. b - 1, given the block's mask: an
\* arange from a + s - n for "causal", the mask's own rows, or all of it.
BlockRow(r, a, b) ==
    CASE kind = "none" -> 0 .. s - 1
      [] kind = "causal" -> {x \in 0 .. s - 1 : x <= (a + s - n) + (r - a)}
      [] kind = "rows" -> mask[a + (r - a)]
      [] kind = "shared" -> mask[0]

\* rows: as many as the limit allows, down to a multiple of the unit.
RowsPerBlock == Max({Unit, ((Limit \div s) \div Unit) * Unit})

Small == n < MinRows \/ n * s <= Limit

\* A small call, or one the stock kernel streams, is left alone; so is one
\* whose mask is of no known kind, which has no model here.
Stay ==
    /\ pc = "call"
    /\ \/ Small /\ built' = n * s
       \/ ~Small /\ built' = 0
    /\ out' = Stock /\ pc' = "done"
    /\ UNCHANGED <<args, i>>

\* The fused kernel takes it: no scores at all.
Fused ==
    /\ pc = "call" /\ ~Small
    /\ out' = Stock /\ pc' = "done"
    /\ UNCHANGED <<args, i, built>>

\* There is no such kernel, or none for these sizes.
Blocked ==
    /\ pc = "call" /\ ~Small /\ pc' = "blocks"
    /\ UNCHANGED <<args, i, out, built>>

Block ==
    /\ pc = "blocks" /\ i < n
    /\ LET j == Cut(n, i + RowsPerBlock)
       IN  /\ out' = [r \in 0 .. j - 1 |-> IF r < i THEN out[r] ELSE BlockRow(r, i, j)]
           /\ built' = Max({built, (j - i) * s})
           /\ i' = j
    /\ UNCHANGED <<args, pc>>

\* A block raises, the first one inside mx.compile or any other: the blocks
\* done are given up and the stock call builds all the scores.
Unblocked ==
    /\ pc = "blocks" /\ i < n
    /\ out' = Stock /\ built' = Max({built, n * s}) /\ pc' = "unblocked"
    /\ UNCHANGED <<args, i>>

Joined ==
    /\ pc = "blocks" /\ i = n /\ pc' = "done"
    /\ UNCHANGED <<args, i, out, built>>

Init ==
    /\ n \in Queries
    /\ s \in {c + n : c \in Contexts}
    /\ kind \in {"none", "causal", "rows", "shared"}
    /\ \E first, shift \in 0 .. 2 :
        mask = [r \in 0 .. n - 1 |-> {x \in 0 .. s - 1 : x >= first + shift * r - n /\ x <= r + s - n}]
    /\ i = 0 /\ out = <<>> /\ built = 0 /\ pc = "call"

Next == Stay \/ Fused \/ Blocked \/ Block \/ Unblocked \/ Joined
Spec == Init /\ [][Next]_vars

-----------------------------------------------------------------------------
(* Properties.                                                             *)

Answered == pc \in {"done", "unblocked"}

\* Every row attends to the keys the stock call would show it, in every block,
\* for every kind of mask and wherever a block raises ("per row the same
\* computation, so bitwise the unfused output").
RowsExact == Answered => out = Stock

\* A call of MinRows rows or more, unless a block of it raised, holds no more
\* scores at once than the limit, or than one unit of rows where that alone is
\* over it ("the transient near limit_bytes").
ScoresBounded == n >= MinRows /\ pc # "unblocked" => built <= Max({Limit, Unit * s})

\* Both: blocks change neither what a row attends to nor, beyond the limit,
\* what is held at once (attention.py, _attend).
BlocksExact == RowsExact /\ ScoresBounded

=============================================================================
