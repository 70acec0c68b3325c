----------------------------- MODULE TouchFirst -----------------------------
(***************************************************************************)
(* Two least-recently-used pools given the same calls: one served by the   *)
(* overlapped decode path (streamlx/integrate.py, _overlapped), which      *)
(* touches a call's hits and then fetches its misses, one by plain ensure  *)
(* (streamlx/pool.py), which takes the experts as they are routed.  touch  *)
(* says their evictions are the same.                                      *)
(*                                                                         *)
(* A pool is its id2slot without the slots: the resident experts, least    *)
(* recently used first.                                                    *)
(***************************************************************************)
EXTENDS Integers, Sequences, LruOrder

CONSTANTS
    Experts,
    NSlots,  \* n_slots
    K        \* experts routed for a token

\* Assumed of the constants.
TouchAssumption == NSlots \in Nat /\ K \in Nat \ {0} /\ K <= NSlots

VARIABLES
    overlapped,  \* the pool of the overlapped path
    plain        \* the pool of plain ensure

vars == <<overlapped, plain>>
Routings == {ids \in [1 .. K -> Experts] : \A i, j \in 1 .. K : ids[i] = ids[j] => i = j}

-----------------------------------------------------------------------------
Ensure(pool, ids) == LruTakes(Experts, NSlots, pool, ids)
Touch(pool, ids) == LruHits(Experts, pool, ids)

\* Mutant: the hits are left where they are.
OverlapUntouched(pool, ids) ==
    Ensure(pool, Only(ids, Experts \ Range(pool)))

\* A call of the decode path.  All hits, or none: it is left to plain ensure.
Overlap(pool, ids) ==
    LET hits == Only(ids, Range(pool))
        misses == Only(ids, Experts \ Range(pool))
    IN  IF hits = <<>> \/ misses = <<>> THEN Ensure(pool, ids)
        ELSE Ensure(Touch(pool, hits), misses)

Call(ids) == overlapped' = Overlap(overlapped, ids) /\ plain' = Ensure(plain, ids)

Init == overlapped = <<>> /\ plain = <<>>
Next == \E ids \in Routings : Call(ids)
Spec == Init /\ [][Next]_vars

-----------------------------------------------------------------------------
(* Properties.                                                             *)

\* From pools in the same order, one call leaves the same experts in both,
\* though in different orders: a hit that an earlier miss of plain ensure pushed
\* out is back before the call ends, in the place of one the call does not use.
OneCallAgrees ==
    [][overlapped = plain => Range(overlapped') = Range(plain')]_vars

\* "Eviction decisions match plain `ensure` whenever n_slots >= 2k (every real
\* budget)" (pool.py:294): the two pools always hold the same experts.
EvictionsMatch == 2 * K <= NSlots => Range(overlapped) = Range(plain)

=============================================================================
