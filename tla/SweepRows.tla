------------------------------ MODULE SweepRows ------------------------------
(***************************************************************************)
(* How a prompt chunk's rows go through a streamed layer                   *)
(* (streamlx/integrate.py, _pooled and _expert_sweep): the (row, expert)   *)
(* pairs are grouped by expert, or by slot where all experts fit the pool, *)
(* computed batch by batch on the kernel the stock module would use, and   *)
(* put back in their places; a sweep warms the pool with the experts the   *)
(* chunk routes most.  Reading the experts is ReadAhead's, their slots are *)
(* ExpertPool's.                                                           *)
(*                                                                         *)
(* A pair's result is named by what it was computed from: its row and the  *)
(* expert whose weights were used.                                         *)
(***************************************************************************)
EXTENDS Integers, Sequences, FiniteSets, FiniteSetsExt, LruOrder

CONSTANTS
    NExperts,    \* n_experts
    NSlots,      \* n_slots
    K,           \* experts routed for a row
    RowCounts,   \* rows of a chunk: what they may be
    SweepBatch,  \* sweep_batch
    StockMin,    \* routes from which SwitchGLU sorts (64)
    KernelMin,   \* rows from which gather_qmm takes its sorted kernel (16)
    PerExpert    \* and rows per expert (4)

\* Assumed of the constants.
SweepRowsAssumption ==
    /\ \A x \in RowCounts \cup {NExperts, NSlots, K, SweepBatch, StockMin, KernelMin, PerExpert} :
          x \in Nat \ {0}
    /\ NSlots <= NExperts /\ KernelMin <= StockMin

Experts == 1 .. NExperts

VARIABLES
    flat,     \* pair -> expert
    pool,     \* resident experts, least recently used first
    outs,     \* results so far, in grouped order
    bi,       \* batches computed
    kernels,  \* history: kernels used so far
    y,        \* pair -> result
    pc        \* "call", "sweep" or "done"

vars == <<flat, pool, outs, bi, kernels, y, pc>>

Pairs == DOMAIN flat
RowOf(pair) == (pair + K - 1) \div K
Count(e) == Cardinality({i \in Pairs : flat[i] = e})

\* np.argsort(kind="stable") of things that have a number each.
Precedes(number, a, b) == number[a] < number[b] \/ (number[a] = number[b] /\ a < b)
Argsorted(number) ==
    [i \in 1 .. Cardinality(DOMAIN number) |->
        CHOOSE b \in DOMAIN number :
            Cardinality({a \in DOMAIN number : Precedes(number, a, b)}) = i - 1]

\* The experts routed: by their ids, by the pairs they come in (dict.fromkeys)
\* and by the pairs they have.
Uniq == Argsorted([e \in Range(flat) |-> e])
Routed == Argsorted([e \in Range(flat) |-> Min({i \in Pairs : flat[i] = e})])
ByCount == Argsorted([e \in Range(flat) |-> Count(e)])

Order == Argsorted(flat)

\* Mutant: the results are taken in the order itself, not in its inverse.
PutBackForward(order, results) == [pair \in Pairs |-> results[order[pair]]]

\* inv: each pair's result from where its group put it.
PutBack(order, results) ==
    [pair \in Pairs |-> results[CHOOSE i \in DOMAIN order : order[i] = pair]]

-----------------------------------------------------------------------------
(* Kernels.                                                                *)

\* gather_qmm, given sorted rows over some experts.
Gathered(rows, experts) ==
    IF rows >= KernelMin /\ rows \div experts >= PerExpert THEN "sorted" ELSE "per row"

\* _stock_sorted: what the stock module's call would run.
StockSorted == Len(flat) >= StockMin /\ Len(flat) \div NExperts >= PerExpert
StockKernel == IF StockSorted THEN "sorted" ELSE "per row"

\* Mutant: a sparse batch is left sparse.
PadNone(rows, ids) == 0

\* Zero rows that bring a batch up to the sorted kernel.
Pad(rows, ids) == Max({0, Max({KernelMin, PerExpert * Len(ids)}) - rows})

-----------------------------------------------------------------------------
\* Everything fits: _pooled, grouped by slot (a slot: a place in the pool).
Pooled ==
    LET now == LruTakes(Experts, NSlots, pool, Routed)
        slots == [i \in Pairs |-> CHOOSE s \in DOMAIN now : now[s] = flat[i]]
        order == Argsorted(slots)
        result(i) == <<RowOf(i), now[slots[i]]>>
    IN  /\ pc = "call" /\ Cardinality(Range(flat)) <= NSlots
        /\ pool' = now
        /\ kernels' = {IF StockSorted THEN Gathered(Len(flat), NSlots) ELSE "per row"}
        /\ y' = IF StockSorted THEN PutBack(order, [i \in Pairs |-> result(order[i])])
                ELSE [i \in Pairs |-> result(i)]
        /\ pc' = "done"
        /\ UNCHANGED <<flat, outs, bi>>

\* Mutant: the experts routed least.
WarmLeast == Range(SubSeq(ByCount, 1, NSlots))

\* The experts routed most, as many as there are slots.
Warm == Range(LastOf(ByCount, NSlots))

SweepStart ==
    /\ pc = "call" /\ Cardinality(Range(flat)) > NSlots
    /\ pc' = "sweep"
    /\ UNCHANGED <<flat, pool, outs, bi, kernels, y>>

NBatches == (Len(Uniq) + SweepBatch - 1) \div SweepBatch
Batch(i) == SubSeq(Uniq, (i - 1) * SweepBatch + 1, Min({i * SweepBatch, Len(Uniq)}))

\* bounds: where expert e's pairs begin in the order.
Before(e) == Cardinality({i \in Pairs : flat[i] < e})

LastBound(ids) == Before(ids[Len(ids)]) + Count(ids[Len(ids)])

\* A batch: its experts' pairs, each with its place in the batch's weights;
\* its warm experts are adopted.
SweepBatchStep ==
    /\ pc = "sweep" /\ bi < NBatches
    /\ LET ids == Batch(bi + 1)
           sel == SubSeq(Order, Before(Head(ids)) + 1, LastBound(ids))
           slot == [i \in DOMAIN sel |-> CHOOSE s \in DOMAIN ids : ids[s] = flat[sel[i]]]
       IN  /\ outs' = outs \o [i \in DOMAIN sel |-> <<RowOf(sel[i]), ids[slot[i]]>>]
           /\ kernels' = kernels \cup
                {IF StockSorted THEN Gathered(Len(sel) + Pad(Len(sel), ids), Len(ids)) ELSE "per row"}
           /\ pool' = LruTakes(Experts, NSlots, pool, Only(ids, Warm))
    /\ bi' = bi + 1
    /\ UNCHANGED <<flat, y, pc>>

\* The warm experts are retouched in ascending count, the rows put back.
SweepEnd ==
    /\ pc = "sweep" /\ bi = NBatches
    /\ pool' = LruHits(Experts, pool, Only(ByCount, Warm \cap Range(pool)))
    /\ y' = PutBack(Order, outs)
    /\ pc' = "done"
    /\ UNCHANGED <<flat, outs, bi, kernels>>

\* A row's experts are all different.
Init ==
    /\ \E rows \in RowCounts :
        flat \in {f \in [1 .. rows * K -> Experts] :
                    \A i, j \in DOMAIN f : RowOf(i) = RowOf(j) /\ f[i] = f[j] => i = j}
    /\ pool \in UNION {[1 .. n -> Experts] : n \in {0, NSlots}}
    /\ \A i, j \in DOMAIN pool : pool[i] = pool[j] => i = j
    /\ outs = <<>> /\ bi = 0 /\ kernels = {} /\ y = <<>> /\ pc = "call"

Next == Pooled \/ SweepStart \/ SweepBatchStep \/ SweepEnd
Spec == Init /\ [][Next]_vars

-----------------------------------------------------------------------------
(* Properties.                                                             *)

\* Every row gets, for each expert it is routed to and in the router's order,
\* what that expert makes of that row, however the pairs were grouped, cut
\* into batches and put back.
RowsInPlace == pc = "done" => y = [i \in Pairs |-> <<RowOf(i), flat[i]>>]

\* Every batch runs the kernel the stock module's one call would have run, a
\* sparse last batch too: the two kernels round differently ("streamlx picks
\* the same kernel so its outputs match stock's bitwise").
SameKernel == kernels \subseteq {StockKernel}

\* After a sweep the pool holds as many of the chunk's most routed experts as
\* it has slots, the most routed last to be evicted, whatever it held before.
WarmestLast ==
    pc = "done" /\ Cardinality(Range(flat)) > NSlots =>
        /\ Len(pool) = NSlots /\ Range(pool) \subseteq Range(flat)
        /\ \A i \in 1 .. NSlots - 1 : Count(pool[i]) <= Count(pool[i + 1])
        /\ \A e \in Experts \ Range(pool) : Count(e) <= Count(pool[1])

=============================================================================
