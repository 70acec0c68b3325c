----------------------------- MODULE Residency -----------------------------
(***************************************************************************)
(* How a memory budget becomes resident layers and pool slots              *)
(* (streamlx/integrate.py, plan_residency and load_streaming_model).       *)
(* Layers are taken cheapest first; one stays resident when the fair share *)
(* of what is left covers all its experts and the others keep top-k slots. *)
(* What is then left is split evenly among the streamed layers, a          *)
(* checkpoint's MTP stages included.  Bytes are small integers; shares are *)
(* compared by multiplying out.                                            *)
(***************************************************************************)
EXTENDS Integers, FiniteSets, FiniteSetsExt

CONSTANTS
    Layers,     \* the trunk's MoE layers, numbers
    Stages,     \* MTP stages, numbers past them
    Bytes,      \* bytes of one expert: what they may be
    Counts,     \* experts of a layer: what they may be
    K,          \* slots every streamed layer must have
    MaxBudget   \* budgets considered

\* Assumed of the constants.
ResidencyAssumption ==
    /\ Layers \cup Stages \subseteq Nat /\ Layers \cap Stages = {} /\ Layers # {}
    /\ Bytes \subseteq Nat \ {0} /\ K \in Nat \ {0} /\ MaxBudget \in Nat
    /\ \A n \in Counts : n \in Nat /\ n >= K

VARIABLES
    bpe, nExp,   \* layer or stage -> bytes per expert, experts
    budget,      \* budget_bytes
    auto,        \* the residency mode: planned, or off
    todo,        \* layers plan_residency has not looked at
    resident,    \* layers that keep their stock module
    left,        \* budget left for pools
    slots        \* streamed layer or stage -> slots; <<>> before the split

given == <<bpe, nExp, budget, auto>>
vars == <<given, todo, resident, left, slots>>

All == Layers \cup Stages
Full(i) == nExp[i] * bpe[i]

-----------------------------------------------------------------------------
Streamed == Layers \ resident
MinRest(i) == MapThenSumSet(LAMBDA j : K * bpe[j], Streamed \ {i})

Qualifies(i) ==
    /\ left >= Full(i) * Cardinality(Streamed)
    /\ left - Full(i) >= MinRest(i)

\* Mutant: the most expensive layer is looked at first.
DearestFirst(i) == \A j \in todo : Full(j) < Full(i) \/ (Full(j) = Full(i) /\ i <= j)

\* sorted(): cheapest first, ties in layer order.
CheapestFirst(i) == \A j \in todo : Full(i) < Full(j) \/ (Full(i) = Full(j) /\ i <= j)

\* One round of plan_residency's loop.
PlanLayer ==
    /\ \E i \in todo :
          /\ CheapestFirst(i)
          /\ todo' = todo \ {i}
          /\ \/ /\ Qualifies(i)
                /\ resident' = resident \cup {i} /\ left' = left - Full(i)
             \/ ~Qualifies(i) /\ UNCHANGED <<resident, left>>
    /\ UNCHANGED <<given, slots>>

Pools == Streamed \cup Stages

Share(i) == left \div (Cardinality(Pools) * bpe[i])

\* The pools: at least K slots each, no more than there are experts.
Split ==
    /\ todo = {} /\ slots = <<>> /\ Pools # {}
    /\ slots' = [i \in Pools |->
                    LET wanted == IF Share(i) > K THEN Share(i) ELSE K
                    IN  IF wanted < nExp[i] THEN wanted ELSE nExp[i]]
    /\ UNCHANGED <<given, todo, resident, left>>

Init ==
    /\ bpe \in [All -> Bytes] /\ nExp \in [All -> Counts]
    /\ budget \in 0 .. MaxBudget /\ auto \in BOOLEAN
    /\ todo = IF auto THEN Layers ELSE {}
    /\ resident = {} /\ left = budget /\ slots = <<>>

Next == PlanLayer \/ Split

Spec == Init /\ [][Next]_vars

-----------------------------------------------------------------------------
(* Properties.                                                             *)
Spent ==
    MapThenSumSet(Full, resident)
        + MapThenSumSet(LAMBDA i : slots[i] * bpe[i], DOMAIN slots)

\* A layer is made resident only while the streamed ones can keep K slots
\* each from what is left ("provided every still-streamed layer keeps at
\* least k slots").
RestKeepsK ==
    resident # {} => left >= MapThenSumSet(LAMBDA j : K * bpe[j], Streamed)

\* One pass is enough: no layer it passed over would qualify in the end
\* ("freed surplus cascades").
Settled == todo = {} => \A i \in Streamed : auto => ~Qualifies(i)

\* Layers of one width are resident together or not at all ("Uniform-width
\* models flip near budget == total expert bytes").
UniformFlips ==
    (/\ todo = {} /\ auto
     /\ \A i, j \in Layers : bpe[i] = bpe[j] /\ nExp[i] = nExp[j])
    => resident = IF budget >= MapThenSumSet(Full, Layers) THEN Layers ELSE {}

\* Where every pool's share covers K slots, experts take no more than the
\* budget.
SharesFit ==
    slots # <<>> /\ (\A i \in Pools : Share(i) >= K) => Spent <= budget

\* A budget that covers K slots of every layer is not exceeded (README,
\* --budget-gib: "RAM reserved for experts").
BudgetKept ==
    (/\ slots # <<>>
     /\ budget >= MapThenSumSet(LAMBDA i : K * bpe[i], All))
    => Spent <= budget
=============================================================================
