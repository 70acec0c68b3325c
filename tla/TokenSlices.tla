----------------------------- MODULE TokenSlices -----------------------------
(***************************************************************************)
(* A prefill chunk too wide for the pool, in the slice mode kept beside    *)
(* the expert sweep (streamlx/integrate.py, the end of __call__ of         *)
(* StreamingSwitchGLU): runs of token rows whose experts fit the pool are  *)
(* computed from it one after the other.  The gather of a run reads the    *)
(* pool's slots when it is evaluated, and the next run's ensure refills    *)
(* them.                                                                   *)
(***************************************************************************)
EXTENDS Integers, Sequences, FiniteSets, FiniteSetsExt, SeqFolds

CONSTANTS
    Experts,
    NSlots,  \* n_slots
    Ks,      \* experts routed for a token: how many it may be
    Rows     \* tokens in the chunk

\* Assumed of the constants.
SlicesAssumption ==
    IsFiniteSet(Experts) /\ \A n \in Ks \cup {NSlots, Rows} : n \in Nat \ {0}

Routed(k) == {ids \in SUBSET Experts : Cardinality(ids) = k}

VARIABLES
    flat,    \* row -> the experts it is routed to
    pool,    \* the resident experts and their slots, least recently used first
    s,       \* rows already sliced
    graph,   \* what is built and not evaluated: row -> expert -> slot
    read,    \* rows computed: row -> expert -> whose weights its slot held
    slices,  \* history: runs so far
    pc       \* "slice", "eval", "done", "raised"

vars == <<flat, pool, s, graph, read, slices, pc>>

Entries == [e : Experts, slot : 1 .. NSlots]
Entry(e, slot) == [e |-> e, slot |-> slot]
Holders(p, e) == {x \in Range(p) : x.e = e}
Resident(p) == {x.e : x \in Range(p)}
SlotOf(p, e) == (CHOOSE x \in Holders(p, e) : TRUE).slot
FreeSlots(p) == (1 .. NSlots) \ {x.slot : x \in Range(p)}
Content(slot) == (CHOOSE x \in Range(pool) : x.slot = slot).e

EnsureOne(p, e) ==
    IF e \in Resident(p)
    THEN Append(Only(p, Entries \ Holders(p, e)), Entry(e, SlotOf(p, e)))
    ELSE IF FreeSlots(p) # {} THEN Append(p, Entry(e, Max(FreeSlots(p))))
    ELSE Append(Tail(p), Entry(e, Head(p).slot))

\* The same for each expert of a sequence.
Ensure(p, ids) ==
    Fold([e \in Experts |-> [t \in Seq(Entries) |-> EnsureOne(t, e)]], p, ids)

\* dict.fromkeys: some experts, each once.
Orders(S) == {ids \in [1 .. Cardinality(S) -> S] : IsInjective(ids)}

\* One function beside another.
Joined(f, g) == [i \in DOMAIN f \cup DOMAIN g |-> IF i \in DOMAIN f THEN f[i] ELSE g[i]]

Union(a, b) == UNION {flat[i] : i \in a .. b}

\* The rows of a run end before the first whose experts would not fit.
SliceEnd ==
    Min({e \in s .. Rows : e = Rows \/ Cardinality(Union(s + 1, e + 1)) > NSlots})

\* Mutant: the gathers are evaluated together, with the layer's output.
AfterSliceLazy == "slice"

\* Each run is evaluated before the next one is made resident.
AfterSlice == "eval"

\* The run's experts are made resident and its gather built.
Slice ==
    /\ pc = "slice" /\ s < Rows /\ SliceEnd > s
    /\ \E ids \in Orders(Union(s + 1, SliceEnd)) : pool' = Ensure(pool, ids)
    /\ graph' = Joined(graph, [i \in s + 1 .. SliceEnd |-> [e \in flat[i] |-> SlotOf(pool', e)]])
    /\ s' = SliceEnd /\ slices' = slices + 1 /\ pc' = AfterSlice
    /\ UNCHANGED <<flat, read>>

\* What was built reads the slots as they are now.
Eval ==
    /\ pc = "eval" \/ s = Rows
    /\ graph # <<>>
    /\ read' = Joined(read, [i \in DOMAIN graph |-> [e \in flat[i] |-> Content(graph[i][e])]])
    /\ graph' = <<>> /\ pc' = "slice"
    /\ UNCHANGED <<flat, pool, s, slices>>

Done ==
    /\ pc = "slice" /\ s = Rows /\ graph = <<>>
    /\ pc' = "done"
    /\ UNCHANGED <<flat, pool, s, graph, read, slices>>

\* A single row does not fit.
TooWide ==
    /\ pc = "slice" /\ s < Rows /\ SliceEnd = s
    /\ pc' = "raised"
    /\ UNCHANGED <<flat, pool, s, graph, read, slices>>

\* A chunk comes to a pool in any state, its experts more than the slots.
Init ==
    /\ \E k \in Ks : flat \in [1 .. Rows -> Routed(k)]
    /\ Cardinality(Union(1, Rows)) > NSlots
    /\ \E held \in SUBSET Experts :
        /\ Cardinality(held) <= NSlots
        /\ \E ids \in Orders(held) : pool = Ensure(<<>>, ids)
    /\ s = 0 /\ graph = <<>> /\ read = <<>> /\ slices = 0 /\ pc = "slice"

Next == Slice \/ Eval \/ Done \/ TooWide
Spec == Init /\ [][Next]_vars

-----------------------------------------------------------------------------
(* Properties.                                                             *)

\* Every row is computed from the experts it is routed to, whatever the runs
\* after it evicted: a gather is over before its slots are refilled.
OwnExperts == \A i \in DOMAIN read : \A e \in flat[i] : read[i][e] = e

\* When the chunk is done every row has been computed, in as few runs as any
\* cut of the rows into runs that fit: each run is one wait for the SSD.  A cut
\* is the set of its runs' last rows.
Cuts == {c \in SUBSET (1 .. Rows) : Rows \in c}
Apart(c, a, b) == \E x \in c : a <= x /\ x < b
Fits(c) ==
    \A a, b \in 1 .. Rows : a <= b /\ ~Apart(c, a, b) => Cardinality(Union(a, b)) <= NSlots
RunCounts == {Cardinality(c) : c \in {x \in Cuts : Fits(x)}}
FewestRuns ==
    pc = "done" =>
        /\ DOMAIN read = 1 .. Rows
        /\ slices \in RunCounts /\ \A n \in RunCounts : slices <= n

SlicesExact == OwnExperts /\ FewestRuns

=============================================================================
