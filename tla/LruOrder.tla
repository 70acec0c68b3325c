------------------------------ MODULE LruOrder ------------------------------
(***************************************************************************)
(* A pool under "lru" by the order its residents were used in              *)
(* (streamlx/pool.py, id2slot): the least recently used first.  X is the   *)
(* experts, n the slots.                                                   *)
(***************************************************************************)
EXTENDS SeqFolds

\* touch: a resident expert becomes the most recent.
LruHit(X, o, e) == Append(Only(o, X \ {e}), e)

\* ensure or adopt: a hit is touched, a miss takes the oldest's slot.
LruTake(X, n, o, e) ==
    IF e \in Range(o) THEN LruHit(X, o, e)
    ELSE Append(IF Len(o) < n THEN o ELSE Tail(o), e)

\* The same for each expert of a sequence.
LruHits(X, o, es) == Fold([e \in X |-> [p \in Seq(X) |-> LruHit(X, p, e)]], o, es)
LruTakes(X, n, o, es) == Fold([e \in X |-> [p \in Seq(X) |-> LruTake(X, n, p, e)]], o, es)
=============================================================================
