------------------------------ MODULE SeqFolds ------------------------------
(***************************************************************************)
(* Folds over sequences whose step is a function and not an operator, and  *)
(* the selections and sums made of them: the library's FoldLeft and        *)
(* SelectSeq compute the same, but nothing can be proved of them.          *)
(***************************************************************************)
EXTENDS Integers, Sequences, Functions

\* step[s[Len(s)]][ ... step[s[2]][step[s[1]][base]]]
Fold(step, base, s) ==
    LET upto[n \in 0 .. Len(s)] == IF n = 0 THEN base ELSE step[s[n]][upto[n - 1]]
    IN  upto[Len(s)]

\* The entries of s that are in S, in their order.
Only(s, S) ==
    Fold([x \in Range(s) |-> [t \in Seq(Range(s)) |-> IF x \in S THEN Append(t, x) ELSE t]],
         <<>>, s)

\* The sum of a sequence of integers.
Total(w) == Fold([x \in Int |-> [n \in Int |-> n + x]], 0, w)

\* The last n entries of s, or all of them.
LastOf(s, n) == SubSeq(s, IF Len(s) > n THEN Len(s) - n + 1 ELSE 1, Len(s))
=============================================================================
