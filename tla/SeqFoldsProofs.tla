--------------------------- MODULE SeqFoldsProofs ---------------------------
(***************************************************************************)
(* Induction over the naturals and over sequences, from the library's      *)
(* theorem that < is well-founded, and with it what the operators of       *)
(* SeqFolds and LruOrder compute for every sequence.                       *)
(***************************************************************************)
EXTENDS LruOrder, SequenceTheorems, FiniteSetTheorems, WellFoundedInduction, TLAPS

-----------------------------------------------------------------------------
(* Induction.                                                              *)

\* A nonempty set of naturals has a least member.
LEMMA LeastNatural ==
    ASSUME NEW T \in SUBSET Nat, T # {}
    PROVE  \E x \in T : \A y \in T : x <= y
<1> DEFINE R == OpToRel(<, Nat)
<1>1. \A x, y \in Nat : x < y => <<x, y>> \in R
    BY DEF OpToRel
<1>2. IsWellFoundedOn(R, Nat)
    BY NatLessThanWellFounded
<1> HIDE DEF R
<1>3. PICK x \in T : \A y \in T : <<y, x>> \notin R
    BY <1>2, WFMin
<1>4. ASSUME NEW y \in T PROVE x <= y
    <2>1. x \in Nat /\ y \in Nat /\ ~(y < x)
        BY <1>1, <1>3
    <2> QED BY <2>1
<1> QED BY <1>4

\* A set of naturals with 0 and the successors of its members is all of them.
LEMMA Induction ==
    ASSUME NEW T \in SUBSET Nat, 0 \in T, \A n \in T : n + 1 \in T
    PROVE  T = Nat
<1> DEFINE U == Nat \ T
<1> SUFFICES ASSUME U # {} PROVE FALSE
    OBVIOUS
<1>1. PICK x \in U : \A y \in U : x <= y
    <2> HIDE DEF U
    <2>1. U \in SUBSET Nat
        BY DEF U
    <2> QED BY <2>1, LeastNatural
<1>2. x - 1 \in T
    BY <1>1
<1> QED BY <1>1, <1>2

\* The same up to a bound.
LEMMA BoundedInduction ==
    ASSUME NEW m \in Nat, NEW T, 0 \in T,
           \A n \in 1 .. m : n - 1 \in T => n \in T
    PROVE  0 .. m \subseteq T
<1> DEFINE U == {n \in Nat : n <= m => n \in T}
<1>1. U = Nat
    <2>1. U \in SUBSET Nat /\ 0 \in U
        OBVIOUS
    <2>2. ASSUME NEW n \in U PROVE n + 1 \in U
        <3>1. CASE n + 1 <= m
            <4>1. n + 1 \in 1 .. m /\ (n + 1) - 1 \in T
                BY <3>1
            <4> QED BY <4>1
        <3> QED BY <3>1
    <2> HIDE DEF U
    <2> QED BY <2>1, <2>2, Induction
<1> QED BY <1>1

\* Every sequence over S is in T when the empty one is, and those of T with
\* one more entry are.
LEMMA SequenceInduction ==
    ASSUME NEW S, NEW T, <<>> \in T,
           \A s \in Seq(S) : \A x \in S : s \in T => Append(s, x) \in T
    PROVE  Seq(S) \subseteq T
<1> SUFFICES ASSUME NEW s \in Seq(S) PROVE s \in T
    OBVIOUS
<1> DEFINE U == {n \in Nat : n <= Len(s) => SubSeq(s, 1, n) \in T}
<1>1. Len(s) \in Nat
    BY LenProperties
<1>2. 0 \in U
    <2>1. SubSeq(s, 1, 0) = <<>>
        BY SubSeqEmpty
    <2> QED BY <2>1
<1>3. ASSUME NEW n \in U PROVE n + 1 \in U
    <2>0. n \in Nat /\ n + 1 \in Nat
        OBVIOUS
    <2>1. n + 1 <= Len(s) => SubSeq(s, 1, n + 1) \in T
        <3> SUFFICES ASSUME n + 1 <= Len(s) PROVE SubSeq(s, 1, n + 1) \in T
            OBVIOUS
        <3>1. SubSeq(s, 1, n) \in T /\ n + 1 \in 1 .. Len(s) /\ n \in 0 .. Len(s)
            BY <1>1, <2>0
        <3>2. SubSeq(s, 1, n) \in Seq(S)
            <4>1. \A i \in 1 .. n : s[i] \in S
                BY <1>1, <3>1, ElementOfSeq
            <4> QED BY <4>1, <2>0, <3>1, SubSeqProperties
        <3>3. s[n + 1] \in S
            BY <3>1, ElementOfSeq
        <3>4. SubSeq(s, 1, n + 1) = Append(SubSeq(s, 1, n), s[n + 1])
            BY <1>1, <2>0, <3>1, SubSeqRecursiveSecond
        <3> HIDE DEF U
        <3> QED BY <3>1, <3>2, <3>3, <3>4
    <2> QED BY <2>0, <2>1
<1>4. U = Nat
    <2>1. U \in SUBSET Nat
        OBVIOUS
    <2> HIDE DEF U
    <2> QED BY <1>2, <1>3, <2>1, Induction
<1>5. SubSeq(s, 1, Len(s)) = s
    BY SubSeqFull
<1>6. Len(s) \in U
    BY <1>1, <1>4
<1>7. SubSeq(s, 1, Len(s)) \in T
    BY <1>1, <1>6
<1> HIDE DEF U
<1> QED BY <1>5, <1>7, Zenon

-----------------------------------------------------------------------------
(* Definition by recursion: step[n] makes the n-th value of the one before.*)

Unrolled(f, V, m, base, step) ==
    f \in [0 .. m -> V] /\ f[0] = base /\ \A n \in 1 .. m : f[n] = step[n][f[n - 1]]

\* There is such a function.
LEMMA RecursiveFunction ==
    ASSUME NEW V, NEW m \in Nat, NEW base \in V, NEW step \in [1 .. m -> [V -> V]]
    PROVE  \E f : Unrolled(f, V, m, base, step)
<1> DEFINE T == {k \in Nat : k <= m => \E f : Unrolled(f, V, k, base, step)}
<1>1. 0 \in T
    <2> DEFINE f == [n \in 0 .. 0 |-> base]
    <2>1. Unrolled(f, V, 0, base, step)
        BY DEF Unrolled
    <2> QED BY <2>1
<1>2. ASSUME NEW k \in 1 .. m, k - 1 \in T PROVE k \in T
    <2>1. PICK f : Unrolled(f, V, k - 1, base, step)
        BY <1>2
    <2> DEFINE g == [n \in 0 .. k |-> IF n = k THEN step[k][f[k - 1]] ELSE f[n]]
    <2>2. g \in [0 .. k -> V]
        BY <2>1 DEF Unrolled
    <2>3. g[0] = base
        BY <2>1 DEF Unrolled
    <2>4. \A n \in 1 .. k : g[n] = step[n][g[n - 1]]
        BY <2>1 DEF Unrolled
    <2> HIDE DEF g
    <2>5. Unrolled(g, V, k, base, step)
        BY <2>2, <2>3, <2>4 DEF Unrolled
    <2> QED BY <2>5
<1>3. 0 .. m \subseteq T
    <2> HIDE DEF T
    <2> QED BY <1>1, <1>2, BoundedInduction
<1>4. m \in T
    BY <1>3
<1> QED BY <1>4

\* Its values are in V.
LEMMA RecursiveType ==
    ASSUME NEW V, NEW m \in Nat, NEW f, f[0] \in V,
           \A n \in 1 .. m : f[n - 1] \in V => f[n] \in V
    PROVE  \A n \in 0 .. m : f[n] \in V
<1> DEFINE T == {n \in Nat : f[n] \in V}
<1>1. 0 .. m \subseteq T
    <2>1. 0 \in T /\ \A n \in 1 .. m : n - 1 \in T => n \in T
        OBVIOUS
    <2> HIDE DEF T
    <2> QED BY <2>1, BoundedInduction
<1> QED BY <1>1

-----------------------------------------------------------------------------
(* Folds, on a set of values V that the step does not leave.               *)

Closed(step, X, V) == \A x \in X, v \in V : step[x][v] \in V

Folding(f, V, step, base, s) ==
    /\ f \in [0 .. Len(s) -> V] /\ f[0] = base /\ f[Len(s)] = Fold(step, base, s)
    /\ \A n \in 1 .. Len(s) : f[n] = step[s[n]][f[n - 1]]

\* The values a fold goes through.
LEMMA FoldSteps ==
    ASSUME NEW V, NEW X, NEW base \in V, NEW s \in Seq(X), NEW step, Closed(step, X, V)
    PROVE  \E f : Folding(f, V, step, base, s)
<1> DEFINE m == Len(s)
           Rec(f) == f = [n \in 0 .. m |-> IF n = 0 THEN base ELSE step[s[n]][f[n - 1]]]
           f == CHOOSE f : Rec(f)
<1>1. m \in Nat /\ \A n \in 1 .. m : s[n] \in X
    BY LenProperties, ElementOfSeq
<1>2. \E g : Rec(g)
    <2> DEFINE st == [n \in 1 .. m |-> [v \in V |-> step[s[n]][v]]]
    <2>1. st \in [1 .. m -> [V -> V]]
        BY <1>1 DEF Closed
    <2>2. PICK g : Unrolled(g, V, m, base, st)
        <3> HIDE DEF st, m
        <3> QED BY <1>1, <2>1, RecursiveFunction
    <2>3. ASSUME NEW n \in 1 .. m PROVE g[n] = step[s[n]][g[n - 1]]
        <3>1. n - 1 \in 0 .. m
            BY <1>1
        <3>2. g[n - 1] \in V /\ g[n] = st[n][g[n - 1]]
            BY <2>2, <3>1 DEF Unrolled
        <3> QED BY <3>2
    <2>4. g = [n \in 0 .. m |-> g[n]] /\ g[0] = base
        BY <2>2 DEF Unrolled
    <2>5. \A n \in 0 .. m : g[n] = IF n = 0 THEN base ELSE step[s[n]][g[n - 1]]
        BY <1>1, <2>3, <2>4
    <2>6. Rec(g)
        BY <2>4, <2>5
    <2> QED BY <2>6
<1>3. Rec(f)
    <2> HIDE DEF Rec
    <2> QED BY <1>2
<1>4. f = [n \in 0 .. m |-> f[n]] /\ f[0] = base
    <2> HIDE DEF f
    <2> QED BY <1>1, <1>3
<1>5. \A n \in 1 .. m : f[n] = step[s[n]][f[n - 1]]
    <2> HIDE DEF f
    <2> QED BY <1>1, <1>3
<1>6. f[m] = Fold(step, base, s)
    BY DEF Fold
<1> HIDE DEF f, m, Rec
<1>7. ASSUME NEW n \in 1 .. m, f[n - 1] \in V PROVE f[n] \in V
    BY <1>1, <1>5, <1>7 DEF Closed
<1>8. \A n \in 0 .. m : f[n] \in V
    BY <1>1, <1>4, <1>7, RecursiveType
<1>9. f \in [0 .. m -> V]
    BY <1>4, <1>8
<1>10. Folding(f, V, step, base, s)
    BY <1>4, <1>5, <1>6, <1>9 DEF Folding, m
<1> QED BY <1>10

\* A fold's value is in V.
LEMMA FoldType ==
    ASSUME NEW V, NEW X, NEW base \in V, NEW s \in Seq(X), NEW step, Closed(step, X, V)
    PROVE  Fold(step, base, s) \in V
<1>1. PICK f : Folding(f, V, step, base, s)
    BY FoldSteps
<1>2. Len(s) \in 0 .. Len(s)
    BY LenProperties
<1> QED BY <1>1, <1>2 DEF Folding

\* Nothing is folded into the base of an empty sequence.
LEMMA FoldEmpty ==
    ASSUME NEW base, NEW step
    PROVE  Fold(step, base, <<>>) = base
<1>1. <<>> \in Seq({}) /\ Len(<<>>) = 0 /\ base \in {base} /\ Closed(step, {}, {base})
    BY EmptySeq DEF Closed
<1>2. PICK f : Folding(f, {base}, step, base, <<>>)
    BY <1>1, FoldSteps
<1> QED BY <1>1, <1>2 DEF Folding

\* Two folds agree on the entries two sequences share, if their steps do.
LEMMA FoldPrefix ==
    ASSUME NEW V, NEW X, NEW base \in V, NEW s \in Seq(X), NEW t \in Seq(X),
           NEW f, NEW g, NEW st1, NEW st2, NEW m \in Nat, m <= Len(s), m <= Len(t),
           \A n \in 1 .. m : s[n] = t[n],
           Folding(f, V, st1, base, s), Folding(g, V, st2, base, t),
           \A x \in X, v \in V : st1[x][v] = st2[x][v]
    PROVE  f[m] = g[m]
<1> DEFINE T == {n \in Nat : f[n] = g[n]}
<1>1. Len(s) \in Nat /\ Len(t) \in Nat /\ \A n \in 1 .. m : s[n] \in X
    BY LenProperties, ElementOfSeq
<1>2. 0 \in T
    BY DEF Folding
<1>3. ASSUME NEW n \in 1 .. m, n - 1 \in T PROVE n \in T
    <2>1. n \in 1 .. Len(s) /\ n \in 1 .. Len(t) /\ n - 1 \in 0 .. Len(s)
        BY <1>1
    <2>2. f[n - 1] = g[n - 1] /\ f[n - 1] \in V
        BY <1>3, <2>1 DEF Folding
    <2>3. f[n] = st1[s[n]][f[n - 1]] /\ g[n] = st2[s[n]][g[n - 1]]
        BY <2>1 DEF Folding
    <2> QED BY <1>1, <2>2, <2>3
<1>4. 0 .. m \subseteq T
    <2> HIDE DEF T
    <2> QED BY <1>2, <1>3, BoundedInduction
<1> QED BY <1>4

\* A fold over one entry more is one step more.
LEMMA FoldAppend ==
    ASSUME NEW V, NEW X, NEW base \in V, NEW s \in Seq(X), NEW e \in X, NEW step,
           Closed(step, X, V)
    PROVE  Fold(step, base, Append(s, e)) = step[e][Fold(step, base, s)]
<1> DEFINE m == Len(s)
           t == Append(s, e)
<1>1. /\ m \in Nat /\ t \in Seq(X) /\ Len(t) = m + 1 /\ t[m + 1] = e
      /\ \A n \in 1 .. m : s[n] = t[n]
    BY LenProperties, AppendProperties
<1> HIDE DEF t
<1>2. PICK f : Folding(f, V, step, base, s)
    BY FoldSteps
<1>3. PICK g : Folding(g, V, step, base, t)
    BY <1>1, FoldSteps
<1>4. f[m] = g[m]
    <2>1. m <= Len(s) /\ m <= Len(t) /\ \A x \in X, v \in V : step[x][v] = step[x][v]
        BY <1>1
    <2> HIDE DEF m
    <2> QED BY <1>1, <1>2, <1>3, <2>1, FoldPrefix
<1>5. g[m + 1] = step[e][g[m]]
    <2>1. m + 1 \in 1 .. Len(t) /\ (m + 1) - 1 = m
        BY <1>1
    <2> QED BY <1>1, <1>3, <2>1 DEF Folding
<1> QED BY <1>1, <1>2, <1>3, <1>4, <1>5 DEF t, Folding

\* A fold depends on the step at X and V only.
LEMMA FoldSame ==
    ASSUME NEW V, NEW X, NEW base \in V, NEW s \in Seq(X), NEW st1, NEW st2,
           Closed(st1, X, V), \A x \in X, v \in V : st1[x][v] = st2[x][v]
    PROVE  Fold(st1, base, s) = Fold(st2, base, s)
<1>1. Len(s) \in Nat /\ Closed(st2, X, V)
    BY LenProperties DEF Closed
<1>2. PICK f : Folding(f, V, st1, base, s)
    BY FoldSteps
<1>3. PICK g : Folding(g, V, st2, base, s)
    BY <1>1, FoldSteps
<1>4. f[Len(s)] = g[Len(s)]
    <2>1. Len(s) <= Len(s) /\ \A n \in 1 .. Len(s) : s[n] = s[n]
        BY <1>1
    <2> QED BY <1>1, <1>2, <1>3, <2>1, FoldPrefix
<1> QED BY <1>2, <1>3, <1>4 DEF Folding

-----------------------------------------------------------------------------
(* Selections.                                                             *)

OnlyStep(X, S) == [x \in X |-> [t \in Seq(X) |-> IF x \in S THEN Append(t, x) ELSE t]]

\* A selection is a fold over any set its sequence is in.
LEMMA OnlyIsFold ==
    ASSUME NEW X, NEW s \in Seq(X), NEW S
    PROVE  /\ Only(s, S) = Fold(OnlyStep(X, S), <<>>, s)
           /\ <<>> \in Seq(X) /\ Closed(OnlyStep(X, S), X, Seq(X))
<1> DEFINE R == Range(s)
<1>1. R \subseteq X /\ s \in Seq(R) /\ <<>> \in Seq(R) /\ <<>> \in Seq(X)
    BY RangeOfSeq, SeqOfRange, EmptySeq
<1> HIDE DEF R
<1>2. ASSUME NEW Y PROVE Closed(OnlyStep(Y, S), Y, Seq(Y))
    <2> SUFFICES ASSUME NEW x \in Y, NEW t \in Seq(Y)
                 PROVE  OnlyStep(Y, S)[x][t] \in Seq(Y)
        BY DEF Closed
    <2>1. Append(t, x) \in Seq(Y)
        BY AppendProperties
    <2> QED BY <2>1 DEF OnlyStep
<1>3. \A x \in R, t \in Seq(R) : OnlyStep(R, S)[x][t] = OnlyStep(X, S)[x][t]
    <2>1. \A t \in Seq(R) : t \in Seq(X)
        BY <1>1, SeqMonotonic
    <2> QED BY <1>1, <2>1 DEF OnlyStep
<1>4. Fold(OnlyStep(R, S), <<>>, s) = Fold(OnlyStep(X, S), <<>>, s)
    <2> DEFINE V == Seq(R)
    <2>1. <<>> \in V /\ Closed(OnlyStep(R, S), R, V)
        BY <1>1, <1>2
    <2>2. \A x \in R, v \in V : OnlyStep(R, S)[x][v] = OnlyStep(X, S)[x][v]
        BY <1>3
    <2> HIDE DEF V
    <2> QED BY <1>1, <2>1, <2>2, FoldSame
<1>5. Only(s, S) = Fold(OnlyStep(R, S), <<>>, s)
    BY DEF Only, OnlyStep, R
<1> QED BY <1>1, <1>2, <1>4, <1>5

\* A selection of nothing.
LEMMA OnlyEmpty ==
    ASSUME NEW S
    PROVE  Only(<<>>, S) = <<>>
<1>1. <<>> \in Seq({})
    BY EmptySeq
<1> QED BY <1>1, OnlyIsFold, FoldEmpty

LEMMA OnlyType ==
    ASSUME NEW X, NEW s \in Seq(X), NEW S
    PROVE  Only(s, S) \in Seq(X)
<1> DEFINE V == Seq(X)
<1>1. /\ Only(s, S) = Fold(OnlyStep(X, S), <<>>, s)
      /\ <<>> \in V /\ Closed(OnlyStep(X, S), X, V)
    BY OnlyIsFold
<1> HIDE DEF V
<1>2. Only(s, S) \in V
    BY <1>1, FoldType
<1> QED BY <1>2 DEF V

\* The selection of a sequence with an entry more.
LEMMA OnlyAppend ==
    ASSUME NEW X, NEW s \in Seq(X), NEW e \in X, NEW S
    PROVE  /\ e \in S => Only(Append(s, e), S) = Append(Only(s, S), e)
           /\ e \notin S => Only(Append(s, e), S) = Only(s, S)
<1> DEFINE step == OnlyStep(X, S)
           V == Seq(X)
<1>1. /\ Only(s, S) = Fold(step, <<>>, s) /\ <<>> \in V /\ Closed(step, X, V)
      /\ Only(s, S) \in V
    BY OnlyIsFold, OnlyType
<1>2. Append(s, e) \in Seq(X)
    BY AppendProperties
<1>3. Only(Append(s, e), S) = Fold(step, <<>>, Append(s, e))
    BY <1>2, OnlyIsFold
<1> HIDE DEF step, V
<1>4. Only(Append(s, e), S) = step[e][Only(s, S)]
    BY <1>1, <1>3, FoldAppend
<1> QED BY <1>1, <1>4 DEF step, OnlyStep, V

\* The range of a sequence with an entry more.
LEMMA AppendRange ==
    ASSUME NEW X, NEW s \in Seq(X), NEW e \in X
    PROVE  /\ Range(Append(s, e)) = Range(s) \cup {e}
           /\ IsInjective(Append(s, e)) <=> IsInjective(s) /\ e \notin Range(s)
<1> DEFINE t == Append(s, e)
           m == Len(s)
<1>1. /\ m \in Nat /\ t \in Seq(X) /\ Len(t) = m + 1 /\ t[m + 1] = e
      /\ DOMAIN s = 1 .. m /\ \A n \in 1 .. m : t[n] = s[n]
    BY LenProperties, AppendProperties
<1> HIDE DEF t
<1>2. DOMAIN t = 1 .. m + 1
    BY <1>1, LenProperties
<1> HIDE DEF m
<1>3. Range(t) = Range(s) \cup {e}
    BY <1>1, <1>2 DEF Range
<1>4. ASSUME IsInjective(t) PROVE IsInjective(s) /\ e \notin Range(s)
    BY <1>1, <1>2, <1>4 DEF Range, IsInjective
<1>5. ASSUME IsInjective(s), e \notin Range(s) PROVE IsInjective(t)
    BY <1>1, <1>2, <1>5 DEF Range, IsInjective
<1> QED BY <1>3, <1>4, <1>5 DEF t

\* An entry appended to a concatenation is appended to its second half.
LEMMA AppendConcat ==
    ASSUME NEW X, NEW s \in Seq(X), NEW t \in Seq(X), NEW e \in X
    PROVE  s \o Append(t, e) = Append(s \o t, e)
<1>1. <<e>> \in Seq(X) /\ s \o t \in Seq(X)
    BY ConcatProperties
<1>2. Append(t, e) = t \o <<e>> /\ Append(s \o t, e) = (s \o t) \o <<e>>
    BY <1>1, AppendIsConcat
<1> QED BY <1>1, <1>2, ConcatAssociative

\* What a selection keeps: the selected members, each as often, and no more.
LEMMA OnlyProperties ==
    ASSUME NEW X, NEW S, NEW s \in Seq(X)
    PROVE  /\ Only(s, S) \in Seq(X) /\ Range(Only(s, S)) = Range(s) \cap S
           /\ Len(Only(s, S)) <= Len(s)
           /\ IsInjective(s) => IsInjective(Only(s, S))
<1> DEFINE Kept(t) == /\ Range(Only(t, S)) = Range(t) \cap S
                      /\ Len(Only(t, S)) <= Len(t)
                      /\ IsInjective(t) => IsInjective(Only(t, S))
           T == {t \in Seq(X) : Kept(t)}
<1>1. <<>> \in T
    <2>1. <<>> \in Seq(X) /\ Len(<<>>) = 0 /\ Only(<<>>, S) = <<>>
        BY EmptySeq, OnlyEmpty
    <2>2. Range(<<>>) = {}
        BY DEF Range
    <2> QED BY <2>1, <2>2
<1>2. ASSUME NEW t \in Seq(X), NEW e \in X, t \in T PROVE Append(t, e) \in T
    <2> DEFINE u == Append(t, e)
    <2>0. Kept(t)
        BY <1>2
    <2>1. /\ Only(t, S) \in Seq(X)
          /\ e \in S => Only(u, S) = Append(Only(t, S), e)
          /\ e \notin S => Only(u, S) = Only(t, S)
        BY OnlyAppend, OnlyType
    <2>2. /\ u \in Seq(X) /\ Len(u) = Len(t) + 1 /\ Len(t) \in Nat
          /\ Range(u) = Range(t) \cup {e}
          /\ IsInjective(u) <=> IsInjective(t) /\ e \notin Range(t)
        BY AppendProperties, AppendRange, LenProperties
    <2> HIDE DEF u
    <2>3. CASE e \in S
        <3> DEFINE v == Append(Only(t, S), e)
        <3>1. /\ Len(v) = Len(Only(t, S)) + 1 /\ Len(Only(t, S)) \in Nat
              /\ Range(v) = Range(Only(t, S)) \cup {e}
              /\ IsInjective(v) <=> IsInjective(Only(t, S)) /\ e \notin Range(Only(t, S))
            BY <2>1, AppendProperties, AppendRange, LenProperties
        <3>2. Only(u, S) = v
            BY <2>1, <2>3
        <3> HIDE DEF v
        <3>3. Range(v) = Range(u) \cap S /\ Len(v) <= Len(u)
            BY <2>0, <2>2, <2>3, <3>1
        <3>4. IsInjective(u) => IsInjective(v)
            BY <2>0, <2>2, <2>3, <3>1
        <3>5. Kept(u)
            BY <3>2, <3>3, <3>4
        <3> QED BY <2>2, <3>5 DEF u
    <2>4. CASE e \notin S
        <3>1. Only(u, S) = Only(t, S) /\ Len(Only(t, S)) \in Nat
            BY <2>1, <2>4, LenProperties
        <3>2. Kept(u)
            BY <2>0, <2>2, <2>4, <3>1
        <3> QED BY <2>2, <3>2 DEF u
    <2> QED BY <2>3, <2>4
<1>3. Seq(X) \subseteq T
    <2> HIDE DEF T
    <2> QED BY <1>1, <1>2, SequenceInduction
<1> QED BY <1>3, OnlyType

\* A sequence that names nothing twice is as long as its range is large.
LEMMA InjectiveLen ==
    ASSUME NEW X, NEW s \in Seq(X), IsInjective(s)
    PROVE  IsFiniteSet(Range(s)) /\ Cardinality(Range(s)) = Len(s)
<1> DEFINE Sized(t) == IsInjective(t) => IsFiniteSet(Range(t)) /\ Cardinality(Range(t)) = Len(t)
           T == {t \in Seq(X) : Sized(t)}
<1>1. <<>> \in T
    <2>1. <<>> \in Seq(X) /\ Len(<<>>) = 0
        BY EmptySeq
    <2>2. Range(<<>>) = {}
        BY DEF Range
    <2> QED BY <2>1, <2>2, FS_EmptySet
<1>2. ASSUME NEW t \in Seq(X), NEW e \in X, t \in T PROVE Append(t, e) \in T
    <2> DEFINE u == Append(t, e)
    <2>1. /\ u \in Seq(X) /\ Len(u) = Len(t) + 1
          /\ Range(u) = Range(t) \cup {e}
          /\ IsInjective(u) <=> IsInjective(t) /\ e \notin Range(t)
        BY AppendProperties, AppendRange
    <2> HIDE DEF u
    <2>2. ASSUME IsInjective(u) PROVE IsFiniteSet(Range(u)) /\ Cardinality(Range(u)) = Len(u)
        <3>1. IsFiniteSet(Range(t)) /\ Cardinality(Range(t)) = Len(t) /\ e \notin Range(t)
            BY <1>2, <2>1, <2>2
        <3> QED BY <2>1, <3>1, FS_AddElement
    <2> QED BY <2>1, <2>2 DEF u
<1>3. Seq(X) \subseteq T
    <2> HIDE DEF T
    <2> QED BY <1>1, <1>2, SequenceInduction
<1> QED BY <1>3

\* Selections of a concatenation.
LEMMA OnlyConcat ==
    ASSUME NEW X, NEW s \in Seq(X), NEW t \in Seq(X), NEW S
    PROVE  Only(s \o t, S) = Only(s, S) \o Only(t, S)
<1> DEFINE T == {u \in Seq(X) : Only(s \o u, S) = Only(s, S) \o Only(u, S)}
<1>1. <<>> \in T
    <2>1. <<>> \in Seq(X) /\ Only(<<>>, S) = <<>> /\ Only(s, S) \in Seq(X)
        BY EmptySeq, OnlyEmpty, OnlyType
    <2>2. s \o <<>> = s /\ Only(s, S) \o <<>> = Only(s, S)
        BY <2>1, ConcatEmptySeq
    <2> QED BY <2>1, <2>2
<1>2. ASSUME NEW u \in Seq(X), NEW e \in X, u \in T PROVE Append(u, e) \in T
    <2> DEFINE a == Only(s, S)
               b == Only(u, S)
               su == s \o u
    <2>1. /\ a \in Seq(X) /\ b \in Seq(X) /\ su \in Seq(X) /\ Append(u, e) \in Seq(X)
          /\ Only(su, S) = a \o b
        BY <1>2, OnlyType, ConcatProperties, AppendProperties
    <2>2. s \o Append(u, e) = Append(su, e)
        BY AppendConcat
    <2>3. a \o Append(b, e) = Append(a \o b, e)
        <3> HIDE DEF a, b
        <3> QED BY <2>1, AppendConcat
    <2>4. Only(s \o Append(u, e), S) = a \o Only(Append(u, e), S)
        <3>1. CASE e \in S
            <4>1. Only(Append(u, e), S) = Append(b, e)
                BY <3>1, OnlyAppend
            <4>2. Only(Append(su, e), S) = Append(Only(su, S), e)
                <5> HIDE DEF su
                <5> QED BY <2>1, <3>1, OnlyAppend
            <4> QED BY <2>1, <2>2, <2>3, <4>1, <4>2
        <3>2. CASE e \notin S
            <4>1. Only(Append(u, e), S) = b
                BY <3>2, OnlyAppend
            <4>2. Only(Append(su, e), S) = Only(su, S)
                <5> HIDE DEF su
                <5> QED BY <2>1, <3>2, OnlyAppend
            <4> QED BY <2>1, <2>2, <4>1, <4>2
        <3> QED BY <3>1, <3>2
    <2> QED BY <2>1, <2>4
<1>3. Seq(X) \subseteq T
    <2> HIDE DEF T
    <2> QED BY <1>1, <1>2, SequenceInduction
<1> QED BY <1>3

\* A selection of everything, and of nothing.
LEMMA OnlyAll ==
    ASSUME NEW X, NEW s \in Seq(X), NEW S
    PROVE  /\ Range(s) \subseteq S => Only(s, S) = s
           /\ Range(s) \cap S = {} => Only(s, S) = <<>>
<1> DEFINE Kept(t) == /\ Range(t) \subseteq S => Only(t, S) = t
                      /\ Range(t) \cap S = {} => Only(t, S) = <<>>
           T == {t \in Seq(X) : Kept(t)}
<1>1. <<>> \in T
    BY EmptySeq, OnlyEmpty
<1>2. ASSUME NEW t \in Seq(X), NEW e \in X, t \in T PROVE Append(t, e) \in T
    <2> DEFINE u == Append(t, e)
    <2>1. /\ u \in Seq(X) /\ Range(u) = Range(t) \cup {e}
          /\ e \in S => Only(u, S) = Append(Only(t, S), e)
          /\ e \notin S => Only(u, S) = Only(t, S)
        BY AppendProperties, AppendRange, OnlyAppend
    <2>2. ASSUME Range(u) \subseteq S PROVE Only(u, S) = u
        BY <1>2, <2>1, <2>2
    <2>3. ASSUME Range(u) \cap S = {} PROVE Only(u, S) = <<>>
        <3>1. e \notin S /\ Range(t) \cap S = {}
            BY <2>1, <2>3
        <3> QED BY <1>2, <2>1, <3>1
    <2> QED BY <2>1, <2>2, <2>3
<1>3. Seq(X) \subseteq T
    <2> HIDE DEF T
    <2> QED BY <1>1, <1>2, SequenceInduction
<1> QED BY <1>3

\* Selecting from a selection.
LEMMA OnlyOnly ==
    ASSUME NEW X, NEW s \in Seq(X), NEW S, NEW R
    PROVE  Only(Only(s, S), R) = Only(s, S \cap R)
<1> DEFINE Q == S \cap R
           T == {t \in Seq(X) : Only(Only(t, S), R) = Only(t, Q)}
<1>1. <<>> \in T
    BY EmptySeq, OnlyEmpty
<1>2. ASSUME NEW t \in Seq(X), NEW e \in X, t \in T PROVE Append(t, e) \in T
    <2> DEFINE u == Append(t, e)
    <2>1. /\ u \in Seq(X) /\ Only(t, S) \in Seq(X)
          /\ e \in S => Only(u, S) = Append(Only(t, S), e)
          /\ e \notin S => Only(u, S) = Only(t, S)
          /\ e \in Q => Only(u, Q) = Append(Only(t, Q), e)
          /\ e \notin Q => Only(u, Q) = Only(t, Q)
        <3> HIDE DEF Q
        <3>1. u \in Seq(X) /\ Only(t, S) \in Seq(X)
            BY AppendProperties, OnlyType
        <3>2. /\ e \in S => Only(u, S) = Append(Only(t, S), e)
              /\ e \notin S => Only(u, S) = Only(t, S)
            BY OnlyAppend
        <3>3. /\ e \in Q => Only(u, Q) = Append(Only(t, Q), e)
              /\ e \notin Q => Only(u, Q) = Only(t, Q)
            BY OnlyAppend
        <3> QED BY <3>1, <3>2, <3>3
    <2>2. /\ e \in R => Only(Append(Only(t, S), e), R) = Append(Only(Only(t, S), R), e)
          /\ e \notin R => Only(Append(Only(t, S), e), R) = Only(Only(t, S), R)
        BY <2>1, OnlyAppend
    <2> HIDE DEF u
    <2>3. Only(Only(u, S), R) = Only(u, Q)
        BY <1>2, <2>1, <2>2
    <2> QED BY <2>1, <2>3 DEF u
<1>3. Seq(X) \subseteq T
    <2> HIDE DEF T
    <2> QED BY <1>1, <1>2, SequenceInduction
<1> QED BY <1>3

-----------------------------------------------------------------------------
(* Parts of sequences.                                                     *)

\* The two halves of a sequence that names nothing twice share nothing.
LEMMA InjectiveConcat ==
    ASSUME NEW X, NEW s \in Seq(X), NEW t \in Seq(X), IsInjective(s \o t)
    PROVE  IsInjective(s) /\ IsInjective(t) /\ Range(s) \cap Range(t) = {}
<1> DEFINE u == s \o t
           m == Len(s)
           n == Len(t)
<1>1. /\ m \in Nat /\ n \in Nat /\ DOMAIN s = 1 .. m /\ DOMAIN t = 1 .. n
      /\ u \in Seq(X) /\ Len(u) = m + n
      /\ \A i \in 1 .. m + n : u[i] = IF i <= m THEN s[i] ELSE t[i - m]
    BY LenProperties, ConcatProperties
<1>2. DOMAIN u = 1 .. m + n
    BY <1>1, LenProperties
<1> HIDE DEF u, m, n
<1>3. \A i \in 1 .. m : i \in 1 .. m + n /\ u[i] = s[i]
    BY <1>1
<1>4. ASSUME NEW i \in 1 .. n PROVE m + i \in 1 .. m + n /\ u[m + i] = t[i]
    <2>1. m + i \in 1 .. m + n /\ ~(m + i <= m) /\ (m + i) - m = i
        BY <1>1
    <2> QED BY <1>1, <2>1
<1>5. \A i, j \in 1 .. m + n : u[i] = u[j] => i = j
    BY <1>2 DEF IsInjective, u
<1>6. IsInjective(s)
    BY <1>1, <1>3, <1>5 DEF IsInjective
<1>7. ASSUME NEW i \in 1 .. n, NEW j \in 1 .. n, t[i] = t[j] PROVE i = j
    <2>1. m + i = m + j
        BY <1>4, <1>5, <1>7
    <2> QED BY <1>1, <2>1
<1>8. IsInjective(t)
    BY <1>1, <1>7 DEF IsInjective
<1>9. ASSUME NEW i \in 1 .. m, NEW j \in 1 .. n PROVE s[i] # t[j]
    <2>1. i # m + j
        BY <1>1
    <2> QED BY <1>3, <1>4, <1>5, <2>1
<1> QED BY <1>1, <1>6, <1>8, <1>9 DEF Range

\* A sequence without its first entry.
LEMMA TailProperties ==
    ASSUME NEW X, NEW s \in Seq(X), s # <<>>
    PROVE  /\ Tail(s) \in Seq(X) /\ Len(Tail(s)) = Len(s) - 1
           /\ s = <<Head(s)>> \o Tail(s) /\ <<Head(s)>> \in Seq(X)
           /\ Range(Tail(s)) \subseteq Range(s)
           /\ IsInjective(s) => IsInjective(Tail(s))
<1>1. /\ Head(s) \in X /\ Tail(s) \in Seq(X) /\ Len(Tail(s)) = Len(s) - 1
      /\ Tail(s) = SubSeq(s, 2, Len(s)) /\ Len(s) \in Nat \ {0} /\ Head(s) = s[1]
    BY HeadTailProperties, TailIsSubSeq, EmptySeq
<1>2. s = <<Head(s)>> \o Tail(s)
    <2>1. 1 \in 1 .. Len(s) /\ Len(s) \in 1 .. Len(s)
        BY <1>1
    <2>2. SubSeq(s, 1, Len(s)) = <<s[1]>> \o SubSeq(s, 1 + 1, Len(s))
        BY <2>1, SubSeqRecursiveFirst
    <2>3. SubSeq(s, 1, Len(s)) = s
        BY SubSeqFull
    <2> QED BY <1>1, <2>2, <2>3
<1>3. <<Head(s)>> \in Seq(X)
    BY <1>1
<1>4. Range(Tail(s)) \subseteq Range(s)
    <2> DEFINE h == <<Head(s)>>
               t == Tail(s)
    <2>1. h \in Seq(X) /\ t \in Seq(X) /\ s = h \o t
        BY <1>1, <1>2, <1>3
    <2> HIDE DEF h, t
    <2>2. Range(h \o t) = Range(h) \cup Range(t)
        BY <2>1, RangeConcatenation
    <2> QED BY <2>1, <2>2 DEF t
<1>5. IsInjective(s) => IsInjective(Tail(s))
    BY <1>1, <1>2, <1>3, InjectiveConcat
<1> QED BY <1>1, <1>2, <1>3, <1>4, <1>5

\* What comes between two bounds of a sequence.
LEMMA BetweenBounds ==
    ASSUME NEW X, NEW s \in Seq(X), NEW l \in Nat, NEW h \in l .. Len(s), NEW q, q = SubSeq(s, l + 1, h)
    PROVE  /\ q \in Seq(X) /\ Len(q) = h - l /\ DOMAIN q = 1 .. h - l
           /\ \A i \in 1 .. h - l : q[i] = s[l + i] /\ l + i \in 1 .. Len(s)
           /\ l < h => Head(q) = s[l + 1] /\ q[Len(q)] = s[h]
<1>1. Len(s) \in Nat /\ l + 1 \in Int /\ h \in Int /\ \A i \in 1 .. Len(s) : s[i] \in X
    BY LenProperties
<1>2. \A i \in l + 1 .. h : s[i] \in X
    BY <1>1
<1>3. /\ q \in Seq(X) /\ Len(q) = (IF l + 1 <= h THEN h - (l + 1) + 1 ELSE 0)
      /\ \A i \in 1 .. h - (l + 1) + 1 : q[i] = s[(l + 1) + i - 1]
    BY <1>1, <1>2, SubSeqProperties
<1>4. Len(q) = h - l
    BY <1>1, <1>3
<1>5. \A i \in 1 .. h - l : i \in 1 .. h - (l + 1) + 1 /\ (l + 1) + i - 1 = l + i /\ l + i \in 1 .. Len(s)
    BY <1>1
<1>6. \A i \in 1 .. h - l : q[i] = s[l + i]
    <2> SUFFICES ASSUME NEW i \in 1 .. h - l PROVE q[i] = s[l + i]
        OBVIOUS
    <2>1. q[i] = s[(l + 1) + i - 1] /\ (l + 1) + i - 1 = l + i
        BY <1>3, <1>5
    <2> QED BY <2>1
<1>7. ASSUME l < h PROVE Head(q) = s[l + 1] /\ q[Len(q)] = s[h]
    <2>1. h - l \in Nat \ {0} /\ 1 \in 1 .. h - l /\ h - l \in 1 .. h - l /\ l + (h - l) = h
        BY <1>1, <1>7
    <2>2. q # <<>>
        BY <1>3, <1>4, <2>1, EmptySeq
    <2> QED BY <1>3, <1>4, <1>6, <2>1, <2>2
<1> QED BY <1>3, <1>4, <1>5, <1>6, <1>7, LenProperties

\* A sequence is what comes before its last entries, and those.
LEMMA LastOfSplit ==
    ASSUME NEW X, NEW s \in Seq(X), NEW n \in Nat
    PROVE  /\ LastOf(s, n) \in Seq(X) /\ Len(LastOf(s, n)) <= n
           /\ Len(s) <= n => LastOf(s, n) = s
           /\ \E p \in Seq(X) : /\ s = p \o LastOf(s, n)
                                /\ p = <<>> \/ Len(LastOf(s, n)) = n
<1> DEFINE m == Len(s)
           d == IF m > n THEN m - n ELSE 0
           p == SubSeq(s, 1, d)
           q == SubSeq(s, d + 1, m)
<1>1. m \in Nat /\ d \in 0 .. m /\ \A i \in 1 .. m : s[i] \in X
    BY LenProperties, ElementOfSeq
<1>2. LastOf(s, n) = q
    <2>1. (IF m > n THEN m - n + 1 ELSE 1) = d + 1
        BY <1>1
    <2> QED BY <2>1 DEF LastOf
<1> HIDE DEF m, d
<1>3. p \in Seq(X) /\ Len(p) = d
    BY <1>1, SubSeqProperties
<1>4. q \in Seq(X) /\ Len(q) = m - d
    BY <1>1, SubSeqProperties
<1>5. p \o q = s
    <2>1. /\ 1 \in 1 .. Len(s) + 1 /\ d \in 1 - 1 .. Len(s) /\ Len(s) \in d .. Len(s)
          /\ m = Len(s)
        BY <1>1 DEF m
    <2>2. SubSeq(s, 1, d) \o SubSeq(s, d + 1, Len(s)) = SubSeq(s, 1, Len(s))
        BY <2>1, ConcatAdjacentSubSeq
    <2>3. SubSeq(s, 1, Len(s)) = s
        BY SubSeqFull
    <2> QED BY <2>1, <2>2, <2>3
<1>6. Len(q) <= n /\ (d = 0 \/ Len(q) = n)
    BY <1>1, <1>4 DEF d
<1>7. d = 0 => p = <<>> /\ q = s
    <2>1. d = 0 => SubSeq(s, 1, d) = <<>>
        BY <1>1, SubSeqEmpty
    <2>2. d = 0 => q = s
        BY <1>1, SubSeqFull DEF m
    <2> QED BY <2>1, <2>2
<1>8. m <= n => d = 0
    BY <1>1 DEF d
<1> HIDE DEF p, q
<1>9. m = Len(s)
    BY DEF m
<1> QED BY <1>2, <1>3, <1>4, <1>5, <1>6, <1>7, <1>8, <1>9

\* The last entries of a concatenation whose second half is short enough.
LEMMA LastOfConcat ==
    ASSUME NEW X, NEW p \in Seq(X), NEW q \in Seq(X), NEW n \in Nat, Len(q) <= n
    PROVE  LastOf(p \o q, n) = LastOf(p, n - Len(q)) \o q
<1> DEFINE a == Len(p)
           b == Len(q)
           u == p \o q
           d == IF a + b > n THEN a + b - n ELSE 0
           l == SubSeq(u, d + 1, a + b)
           r == SubSeq(p, d + 1, a)
<1>1. a \in Nat /\ b \in Nat /\ b <= n /\ \A i \in 1 .. a : p[i] \in X
    BY LenProperties, ElementOfSeq
<1>2. /\ u \in Seq(X) /\ Len(u) = a + b
      /\ \A i \in 1 .. a + b : u[i] = IF i <= a THEN p[i] ELSE q[i - a]
    BY ConcatProperties
<1>3. \A i \in 1 .. a + b : u[i] \in X
    BY <1>2, ElementOfSeq
<1> HIDE DEF u, a, b
<1>4. d \in 0 .. a
    BY <1>1
<1>5. LastOf(u, n) = l
    <2>1. Len(u) > n => LastOf(u, n) = SubSeq(u, Len(u) - n + 1, Len(u))
        BY DEF LastOf
    <2>2. ~(Len(u) > n) => LastOf(u, n) = SubSeq(u, 1, Len(u))
        BY DEF LastOf
    <2>3. CASE a + b > n
        <3>1. d + 1 = a + b - n + 1
            BY <1>1, <2>3
        <3> HIDE DEF d
        <3> QED BY <1>1, <1>2, <2>1, <2>3, <3>1
    <2>4. CASE ~(a + b > n)
        <3>1. d + 1 = 1
            BY <1>1, <2>4
        <3> HIDE DEF d
        <3> QED BY <1>2, <2>2, <2>4, <3>1
    <2> QED BY <2>3, <2>4
<1>6. LastOf(p, n - b) = r
    <2>1. (IF a > n - b THEN a - (n - b) + 1 ELSE 1) = d + 1
        BY <1>1
    <2> QED BY <2>1 DEF LastOf, a
<1> HIDE DEF d
<1>7. l \in Seq(X) /\ Len(l) = a + b - d /\ \A i \in 1 .. a + b - d : l[i] = u[d + i]
    <2>1. \A i \in d + 1 .. a + b : u[i] \in X
        BY <1>1, <1>3, <1>4
    <2>2. /\ l \in Seq(X) /\ Len(l) = IF d + 1 <= a + b THEN a + b - (d + 1) + 1 ELSE 0
          /\ \A i \in 1 .. a + b - (d + 1) + 1 : l[i] = u[(d + 1) + i - 1]
        BY <1>1, <1>4, <2>1, SubSeqProperties
    <2>3. \A i \in 1 .. a + b - d : i \in 1 .. a + b - (d + 1) + 1 /\ (d + 1) + i - 1 = d + i
        BY <1>1, <1>4
    <2> QED BY <1>1, <1>4, <2>2, <2>3
<1>8. r \in Seq(X) /\ Len(r) = a - d /\ \A i \in 1 .. a - d : r[i] = p[d + i]
    <2>1. \A i \in d + 1 .. a : p[i] \in X
        BY <1>1, <1>4
    <2>2. /\ r \in Seq(X) /\ Len(r) = IF d + 1 <= a THEN a - (d + 1) + 1 ELSE 0
          /\ \A i \in 1 .. a - (d + 1) + 1 : r[i] = p[(d + 1) + i - 1]
        BY <1>1, <1>4, <2>1, SubSeqProperties
    <2>3. \A i \in 1 .. a - d : i \in 1 .. a - (d + 1) + 1 /\ (d + 1) + i - 1 = d + i
        BY <1>1, <1>4
    <2> QED BY <1>1, <1>4, <2>2, <2>3
<1> HIDE DEF l, r
<1>9. /\ r \o q \in Seq(X) /\ Len(r \o q) = (a - d) + b
      /\ \A i \in 1 .. (a - d) + b : (r \o q)[i] = IF i <= a - d THEN r[i] ELSE q[i - (a - d)]
    BY <1>8, ConcatProperties DEF b
<1>10. ASSUME NEW i \in 1 .. a + b - d PROVE l[i] = (r \o q)[i]
    <2>1. d + i \in 1 .. a + b /\ i \in 1 .. (a - d) + b
        BY <1>1, <1>4
    <2>2. CASE i <= a - d
        <3>1. d + i <= a /\ i \in 1 .. a - d
            BY <1>1, <1>4, <2>2
        <3> QED BY <1>2, <1>7, <1>8, <1>9, <2>1, <2>2, <3>1
    <2>3. CASE ~(i <= a - d)
        <3>1. ~(d + i <= a) /\ (d + i) - a = i - (a - d)
            BY <1>1, <1>4, <2>3
        <3> QED BY <1>2, <1>7, <1>9, <2>1, <2>3, <3>1
    <2> QED BY <2>2, <2>3
<1>11. l = r \o q
    <2>1. Len(l) = Len(r \o q) /\ \A i \in 1 .. Len(l) : l[i] = (r \o q)[i]
        BY <1>1, <1>4, <1>7, <1>9, <1>10
    <2> QED BY <1>7, <1>9, <2>1, SeqEqual
<1> QED BY <1>5, <1>6, <1>11 DEF u, b

-----------------------------------------------------------------------------
(* Prefixes.                                                               *)

\* A prefix, its prefixes, and the prefix one longer.
LEMMA PrefixProperties ==
    ASSUME NEW X, NEW s \in Seq(X), NEW n \in 0 .. Len(s)
    PROVE  /\ SubSeq(s, 1, n) \in Seq(X) /\ Len(SubSeq(s, 1, n)) = n
           /\ \A i \in 1 .. n : SubSeq(s, 1, n)[i] = s[i]
           /\ SubSeq(s, 1, 0) = <<>> /\ SubSeq(s, 1, Len(s)) = s
           /\ \A m \in 0 .. n : SubSeq(SubSeq(s, 1, n), 1, m) = SubSeq(s, 1, m)
           /\ n < Len(s) => Append(SubSeq(s, 1, n), s[n + 1]) = SubSeq(s, 1, n + 1)
<1>1. Len(s) \in Nat /\ \A i \in 1 .. Len(s) : s[i] \in X
    BY LenProperties, ElementOfSeq
<1>2. \A m \in 0 .. Len(s) :
         /\ SubSeq(s, 1, m) \in Seq(X) /\ Len(SubSeq(s, 1, m)) = m
         /\ \A i \in 1 .. m : SubSeq(s, 1, m)[i] = s[i]
    <2> TAKE m \in 0 .. Len(s)
    <2>1. /\ SubSeq(s, 1, m) \in Seq(X)
          /\ Len(SubSeq(s, 1, m)) = IF 1 <= m THEN m - 1 + 1 ELSE 0
          /\ \A i \in 1 .. m - 1 + 1 : SubSeq(s, 1, m)[i] = s[1 + i - 1]
        BY <1>1, SubSeqProperties
    <2> QED BY <1>1, <2>1
<1> DEFINE p == SubSeq(s, 1, n)
<1>3. p \in Seq(X) /\ Len(p) = n /\ \A i \in 1 .. n : p[i] = s[i]
    BY <1>2
<1>4. SubSeq(s, 1, 0) = <<>>
    BY SubSeqEmpty
<1>5. SubSeq(s, 1, Len(s)) = s
    BY SubSeqFull
<1>6. ASSUME NEW m \in 0 .. n PROVE SubSeq(p, 1, m) = SubSeq(s, 1, m)
    <2> DEFINE q == SubSeq(p, 1, m)
               r == SubSeq(s, 1, m)
    <2> HIDE DEF p
    <2>1. r \in Seq(X) /\ Len(r) = m /\ \A i \in 1 .. m : r[i] = s[i]
        BY <1>1, <1>2
    <2>2. q \in Seq(X) /\ Len(q) = m /\ \A i \in 1 .. m : q[i] = p[i]
        <3>1. \A i \in 1 .. m : p[i] \in X
            BY <1>1, <1>3
        <3>2. /\ q \in Seq(X)
              /\ Len(q) = IF 1 <= m THEN m - 1 + 1 ELSE 0
              /\ \A i \in 1 .. m - 1 + 1 : q[i] = p[1 + i - 1]
            BY <3>1, SubSeqProperties
        <3> QED BY <3>2
    <2> HIDE DEF q, r
    <2>3. q = r
        BY <1>3, <2>1, <2>2, SeqEqual
    <2> QED BY <2>3 DEF q, r
<1>7. ASSUME n < Len(s) PROVE Append(p, s[n + 1]) = SubSeq(s, 1, n + 1)
    <2> DEFINE q == Append(p, s[n + 1])
               r == SubSeq(s, 1, n + 1)
    <2> HIDE DEF p
    <2>1. r \in Seq(X) /\ Len(r) = n + 1 /\ \A i \in 1 .. n + 1 : r[i] = s[i]
        BY <1>1, <1>2, <1>7
    <2>2. s[n + 1] \in X
        BY <1>1, <1>7
    <2>3. q \in Seq(X) /\ Len(q) = n + 1 /\ q[n + 1] = s[n + 1] /\ \A i \in 1 .. n : q[i] = p[i]
        BY <1>3, <2>2, AppendProperties
    <2> HIDE DEF q, r
    <2>4. q = r
        BY <1>3, <2>1, <2>3, SeqEqual
    <2> QED BY <2>4 DEF q, r
<1> QED BY <1>3, <1>4, <1>5, <1>6, <1>7

\* The prefixes of a concatenation that end in its second part.
LEMMA PrefixOfConcat ==
    ASSUME NEW X, NEW s \in Seq(X), NEW t \in Seq(X)
    PROVE  /\ SubSeq(s \o t, 1, Len(s)) = s
           /\ \A n \in 0 .. Len(t) : SubSeq(s \o t, 1, Len(s) + n) = s \o SubSeq(t, 1, n)
<1> DEFINE u == s \o t
<1>1. /\ u \in Seq(X) /\ Len(u) = Len(s) + Len(t) /\ Len(s) \in Nat /\ Len(t) \in Nat
      /\ \A i \in 1 .. Len(s) + Len(t) : u[i] = IF i <= Len(s) THEN s[i] ELSE t[i - Len(s)]
    BY ConcatProperties, LenProperties
<1> HIDE DEF u
<1>2. ASSUME NEW n \in 0 .. Len(t) PROVE SubSeq(u, 1, Len(s) + n) = s \o SubSeq(t, 1, n)
    <2> DEFINE q == SubSeq(u, 1, Len(s) + n)
               b == SubSeq(t, 1, n)
               r == s \o b
    <2>1. q \in Seq(X) /\ Len(q) = Len(s) + n /\ \A i \in 1 .. Len(s) + n : q[i] = u[i]
        BY <1>1, PrefixProperties
    <2>2. b \in Seq(X) /\ Len(b) = n /\ \A i \in 1 .. n : b[i] = t[i]
        BY <1>1, PrefixProperties
    <2> HIDE DEF q, b
    <2>3. /\ r \in Seq(X) /\ Len(r) = Len(s) + n
          /\ \A i \in 1 .. Len(s) + n : r[i] = IF i <= Len(s) THEN s[i] ELSE b[i - Len(s)]
        BY <2>2, ConcatProperties
    <2> HIDE DEF r
    <2>4. ASSUME NEW i \in 1 .. Len(s) + n PROVE q[i] = r[i]
        <3>1. q[i] = u[i] /\ i \in 1 .. Len(s) + Len(t)
            BY <1>1, <2>1
        <3>2. CASE i <= Len(s)
            BY <1>1, <2>3, <3>1, <3>2
        <3>3. CASE ~(i <= Len(s))
            <4>1. i - Len(s) \in 1 .. n
                BY <1>1, <3>3
            <4> QED BY <1>1, <2>2, <2>3, <3>1, <3>3, <4>1
        <3> QED BY <3>2, <3>3
    <2>5. q = r
        BY <2>1, <2>3, <2>4, SeqEqual
    <2> QED BY <2>5 DEF q, r, b
<1>3. SubSeq(u, 1, Len(s)) = s
    <2>1. SubSeq(u, 1, Len(s) + 0) = s \o SubSeq(t, 1, 0)
        BY <1>1, <1>2
    <2>2. SubSeq(t, 1, 0) = <<>>
        BY SubSeqEmpty
    <2> QED BY <1>1, <2>1, <2>2, ConcatEmptySeq
<1> QED BY <1>2, <1>3 DEF u

-----------------------------------------------------------------------------
(* Sums.                                                                   *)

LEMMA SumAppend ==
    ASSUME NEW s \in Seq(Int), NEW x \in Int
    PROVE  /\ Total(<<>>) = 0 /\ Total(s) \in Int
           /\ Total(Append(s, x)) = Total(s) + x
<1> DEFINE st == [y \in Int |-> [n \in Int |-> n + y]]
           V == Int
           X == Int
<1>1. 0 \in V /\ Closed(st, X, V) /\ s \in Seq(X) /\ x \in X
    BY DEF Closed
<1>2. \A n \in V : st[x][n] = n + x
    OBVIOUS
<1>3. \A w : Total(w) = Fold(st, 0, w)
    BY DEF Total
<1> HIDE DEF st, V, X
<1>4. Fold(st, 0, s) \in V /\ Fold(st, 0, <<>>) = 0
    BY <1>1, FoldType, FoldEmpty
<1>5. Fold(st, 0, Append(s, x)) = st[x][Fold(st, 0, s)]
    BY <1>1, FoldAppend
<1>6. Fold(st, 0, s) \in Int
    BY <1>4 DEF V
<1> QED BY <1>2, <1>3, <1>4, <1>5, <1>6

LEMMA SumConcat ==
    ASSUME NEW s \in Seq(Int), NEW t \in Seq(Int)
    PROVE  Total(s \o t) = Total(s) + Total(t)
<1> DEFINE T == {u \in Seq(Int) : Total(s \o u) = Total(s) + Total(u)}
<1>1. <<>> \in T
    <2>1. <<>> \in Seq(Int) /\ s \o <<>> = s
        BY EmptySeq, ConcatEmptySeq
    <2>2. Total(<<>>) = 0 /\ Total(s) \in Int
        BY SumAppend, <2>1
    <2> QED BY <2>1, <2>2
<1>2. ASSUME NEW u \in Seq(Int), NEW x \in Int, u \in T PROVE Append(u, x) \in T
    <2>1. s \o u \in Seq(Int) /\ Append(u, x) \in Seq(Int) /\ s \o Append(u, x) = Append(s \o u, x)
        BY ConcatProperties, AppendProperties, AppendConcat
    <2>2. Total(Append(s \o u, x)) = Total(s \o u) + x
        BY <2>1, SumAppend
    <2>3. Total(Append(u, x)) = Total(u) + x /\ Total(u) \in Int /\ Total(s) \in Int
        BY SumAppend
    <2>4. Total(s \o u) = Total(s) + Total(u)
        BY <1>2
    <2>5. Total(s \o Append(u, x)) = Total(s) + Total(Append(u, x))
        BY <2>1, <2>2, <2>3, <2>4
    <2> QED BY <2>1, <2>5
<1>3. Seq(Int) \subseteq T
    <2> HIDE DEF T
    <2> QED BY <1>1, <1>2, SequenceInduction
<1> QED BY <1>3

\* A sum is its first term and the sum of the others.
LEMMA SumHead ==
    ASSUME NEW s \in Seq(Int), s # <<>>
    PROVE  /\ Head(s) \in Int /\ Tail(s) \in Seq(Int) /\ Total(Tail(s)) \in Int
           /\ Total(s) = Head(s) + Total(Tail(s))
<1>1. /\ Head(s) \in Int /\ Tail(s) \in Seq(Int) /\ <<Head(s)>> \in Seq(Int)
      /\ s = <<Head(s)>> \o Tail(s)
    BY TailProperties, HeadTailProperties
<1>2. Total(<<Head(s)>> \o Tail(s)) = Total(<<Head(s)>>) + Total(Tail(s))
    BY <1>1, SumConcat
<1>3. Total(<<Head(s)>>) = Head(s)
    <2>1. <<>> \in Seq(Int) /\ Append(<<>>, Head(s)) = <<Head(s)>>
        BY EmptySeq
    <2>2. Total(<<>>) = 0 /\ Total(Append(<<>>, Head(s))) = Total(<<>>) + Head(s)
        BY <1>1, <2>1, SumAppend
    <2> QED BY <1>1, <2>1, <2>2
<1> QED BY <1>1, <1>2, <1>3, SumAppend

\* A sum of positive numbers is no less than their number.
LEMMA SumPositive ==
    ASSUME NEW s \in Seq(Nat \ {0})
    PROVE  Total(s) \in Nat /\ Len(s) <= Total(s)
<1> DEFINE T == {u \in Seq(Nat \ {0}) : Total(u) \in Nat /\ Len(u) <= Total(u)}
<1>1. <<>> \in T
    <2>1. <<>> \in Seq(Int) /\ <<>> \in Seq(Nat \ {0}) /\ Len(<<>>) = 0 /\ 0 \in Int
        BY EmptySeq
    <2>2. Total(<<>>) = 0
        BY <2>1, SumAppend
    <2> QED BY <2>1, <2>2
<1>2. ASSUME NEW u \in Seq(Nat \ {0}), NEW x \in Nat \ {0}, u \in T PROVE Append(u, x) \in T
    <2>1. u \in Seq(Int)
        BY SeqMonotonic
    <2>2. Total(Append(u, x)) = Total(u) + x
        BY <2>1, SumAppend
    <2>3. Append(u, x) \in Seq(Nat \ {0}) /\ Len(Append(u, x)) = Len(u) + 1 /\ Len(u) \in Nat
        BY AppendProperties, LenProperties
    <2> QED BY <1>2, <2>2, <2>3
<1>3. Seq(Nat \ {0}) \subseteq T
    <2> HIDE DEF T
    <2> QED BY <1>1, <1>2, SequenceInduction
<1> QED BY <1>3

-----------------------------------------------------------------------------
(* The order of a pool: what LruOrder's operators leave.                   *)
LruOrders(X) == {o \in Seq(X) : IsInjective(o)}
LruPools(X, n) == {o \in LruOrders(X) : Len(o) <= n}

\* An expert made the most recent of a pool is there, beside those that were.
LEMMA LruHitProperties ==
    ASSUME NEW X, NEW o \in LruOrders(X), NEW e \in X
    PROVE  /\ LruHit(X, o, e) \in LruOrders(X) /\ Range(LruHit(X, o, e)) = Range(o) \cup {e}
           /\ Len(LruHit(X, o, e)) = IF e \in Range(o) THEN Len(o) ELSE Len(o) + 1
<1> DEFINE r == Only(o, X \ {e})
           t == Append(r, e)
<1>1. o \in Seq(X) /\ IsInjective(o) /\ Range(o) \subseteq X
    BY RangeOfSeq DEF LruOrders
<1>2. r \in Seq(X) /\ IsInjective(r) /\ Range(r) = Range(o) \ {e}
    BY <1>1, OnlyProperties
<1> HIDE DEF r
<1>3. /\ t \in Seq(X) /\ Range(t) = Range(o) \cup {e} /\ IsInjective(t)
      /\ Len(t) = Len(r) + 1
    BY <1>2, AppendProperties, AppendRange
<1>4. /\ IsFiniteSet(Range(o)) /\ Cardinality(Range(o)) = Len(o)
      /\ Cardinality(Range(o) \ {e}) = Len(r) /\ Len(o) \in Nat
    BY <1>1, <1>2, InjectiveLen, LenProperties
<1>5. Cardinality(Range(o) \ {e}) =
          IF e \in Range(o) THEN Cardinality(Range(o)) - 1 ELSE Cardinality(Range(o))
    BY <1>4, FS_RemoveElement
<1>6. Len(t) = IF e \in Range(o) THEN Len(o) ELSE Len(o) + 1
    BY <1>3, <1>4, <1>5
<1>7. LruHit(X, o, e) = t
    BY DEF LruHit, r
<1> QED BY <1>3, <1>6, <1>7 DEF LruOrders

\* An adopted expert is in the pool, which stays within its slots.
LEMMA LruTakeType ==
    ASSUME NEW X, NEW n \in Nat \ {0}, NEW o \in LruPools(X, n), NEW e \in X
    PROVE  LruTake(X, n, o, e) \in LruPools(X, n)
<1>1. o \in LruOrders(X) /\ o \in Seq(X) /\ IsInjective(o) /\ Len(o) \in Nat /\ Len(o) <= n
    BY LenProperties DEF LruPools, LruOrders
<1>2. CASE e \in Range(o)
    <2>1. LruHit(X, o, e) \in LruOrders(X) /\ Len(LruHit(X, o, e)) = Len(o)
        BY <1>1, <1>2, LruHitProperties
    <2> QED BY <1>1, <1>2, <2>1 DEF LruTake, LruHit, LruPools
<1>3. CASE e \notin Range(o) /\ Len(o) < n
    <2>1. Append(o, e) \in LruOrders(X) /\ Len(Append(o, e)) = Len(o) + 1
        BY <1>1, <1>3, AppendProperties, AppendRange DEF LruOrders
    <2> QED BY <1>1, <1>3, <2>1 DEF LruTake, LruPools
<1>4. CASE e \notin Range(o) /\ ~(Len(o) < n)
    <2>1. Len(o) = n /\ n \in Nat \ {0}
        BY <1>1, <1>4
    <2>2. o # <<>>
        BY <2>1, EmptySeq
    <2>3. /\ Tail(o) \in Seq(X) /\ Len(Tail(o)) = Len(o) - 1
          /\ IsInjective(Tail(o)) /\ Range(Tail(o)) \subseteq Range(o)
        BY <1>1, <2>2, TailProperties
    <2>4. Append(Tail(o), e) \in LruOrders(X) /\ Len(Append(Tail(o), e)) = Len(o)
        <3> DEFINE t == Tail(o)
        <3>1. t \in Seq(X) /\ Len(t) = Len(o) - 1 /\ IsInjective(t) /\ e \notin Range(t)
            BY <1>4, <2>3
        <3> HIDE DEF t
        <3>2. Append(t, e) \in LruOrders(X) /\ Len(Append(t, e)) = Len(o)
            BY <1>1, <3>1, AppendProperties, AppendRange DEF LruOrders
        <3> QED BY <3>2 DEF t
    <2> QED BY <1>1, <1>4, <2>4 DEF LruTake, LruPools
<1> QED BY <1>2, <1>3, <1>4

\* Nothing to do leaves a pool as it is.
LEMMA LruHitsEmpty ==
    ASSUME NEW X, NEW o
    PROVE  LruHits(X, o, <<>>) = o
BY FoldEmpty DEF LruHits

LEMMA LruTakesEmpty ==
    ASSUME NEW X, NEW n \in Nat \ {0}, NEW o
    PROVE  LruTakes(X, n, o, <<>>) = o
BY FoldEmpty DEF LruTakes

\* Making each expert of a sequence the most recent, one by one.
LEMMA LruHitsAppend ==
    ASSUME NEW X, NEW o \in LruOrders(X), NEW es \in Seq(X), NEW e \in X
    PROVE  /\ LruHits(X, o, es) \in LruOrders(X)
           /\ LruHits(X, o, Append(es, e)) = LruHit(X, LruHits(X, o, es), e)
<1> DEFINE step == [f \in X |-> [p \in Seq(X) |-> LruHit(X, p, f)]]
<1>1. Closed(step, X, LruOrders(X))
    BY LruHitProperties DEF Closed, LruOrders, LruHit
<1>2. \A s : LruHits(X, o, s) = Fold(step, o, s)
    BY DEF LruHits
<1>4. Fold(step, o, es) \in LruOrders(X) /\ Fold(step, o, Append(es, e)) = step[e][Fold(step, o, es)]
    <2> DEFINE V == LruOrders(X)
    <2> HIDE DEF step, V
    <2>1. Closed(step, X, V) /\ o \in V
        BY <1>1 DEF V
    <2>2. Fold(step, o, es) \in V /\ Fold(step, o, Append(es, e)) = step[e][Fold(step, o, es)]
        BY <2>1, FoldType, FoldAppend
    <2> QED BY <2>2 DEF V
<1>5. step[e][Fold(step, o, es)] = LruHit(X, Fold(step, o, es), e)
    <2> DEFINE p == Fold(step, o, es)
    <2>1. p \in Seq(X)
        BY <1>4 DEF LruOrders
    <2> HIDE DEF p
    <2> QED BY <2>1 DEF LruHit, p
<1> HIDE DEF step
<1> QED BY <1>2, <1>4, <1>5

\* Adopting each expert of a sequence.
LEMMA LruTakesAppend ==
    ASSUME NEW X, NEW n \in Nat \ {0}, NEW o \in LruPools(X, n), NEW es \in Seq(X), NEW e \in X
    PROVE  /\ LruTakes(X, n, o, es) \in LruPools(X, n)
           /\ LruTakes(X, n, o, Append(es, e)) = LruTake(X, n, LruTakes(X, n, o, es), e)
<1> DEFINE step == [f \in X |-> [p \in Seq(X) |-> LruTake(X, n, p, f)]]
<1>1. Closed(step, X, LruPools(X, n))
    BY LruTakeType DEF Closed, LruOrders, LruPools
<1>2. \A s : LruTakes(X, n, o, s) = Fold(step, o, s)
    BY DEF LruTakes
<1>4. Fold(step, o, es) \in LruPools(X, n) /\ Fold(step, o, Append(es, e)) = step[e][Fold(step, o, es)]
    <2> DEFINE V == LruPools(X, n)
    <2> HIDE DEF step, V
    <2>1. Closed(step, X, V) /\ o \in V
        BY <1>1 DEF V
    <2>2. Fold(step, o, es) \in V /\ Fold(step, o, Append(es, e)) = step[e][Fold(step, o, es)]
        BY <2>1, FoldType, FoldAppend
    <2> QED BY <2>2 DEF V
<1>5. step[e][Fold(step, o, es)] = LruTake(X, n, Fold(step, o, es), e)
    <2> DEFINE p == Fold(step, o, es)
    <2>1. p \in Seq(X)
        BY <1>4 DEF LruOrders, LruPools
    <2> HIDE DEF p
    <2> QED BY <2>1 DEF p
<1> HIDE DEF step
<1> QED BY <1>2, <1>4, <1>5

\* The experts hit come last, in the order of their last hits, and the others
\* keep their order before them.
LEMMA LruHitsSplit ==
    ASSUME NEW X, NEW o \in LruOrders(X), NEW es \in Seq(X)
    PROVE  /\ <<>> \in LruOrders(X) /\ LruHits(X, <<>>, es) \in LruOrders(X)
           /\ Range(LruHits(X, <<>>, es)) = Range(es)
           /\ IsInjective(es) => LruHits(X, <<>>, es) = es
           /\ LruHits(X, o, es) = Only(o, X \ Range(es)) \o LruHits(X, <<>>, es)
<1> DEFINE Split(t) == /\ Range(LruHits(X, <<>>, t)) = Range(t)
                       /\ IsInjective(t) => LruHits(X, <<>>, t) = t
                       /\ LruHits(X, o, t) = Only(o, X \ Range(t)) \o LruHits(X, <<>>, t)
           T == {t \in Seq(X) : Split(t)}
<1>1. <<>> \in LruOrders(X) /\ o \in Seq(X) /\ \A p \in LruOrders(X) : p \in Seq(X)
    BY EmptySeq DEF LruOrders, IsInjective
<1>2. \A t \in Seq(X) : LruHits(X, <<>>, t) \in LruOrders(X)
    <2> TAKE t \in Seq(X)
    <2>1. CASE t = <<>>
        BY <1>1, <2>1, LruHitsEmpty
    <2>2. CASE t # <<>>
        <3>1. PICK e \in X : TRUE
            BY <2>2, SequenceEmptyOrAppend
        <3> QED BY <1>1, <3>1, LruHitsAppend
    <2> QED BY <2>1, <2>2
<1>3. <<>> \in T
    <2>1. Range(<<>>) = {} /\ IsInjective(<<>>) /\ <<>> \in Seq(X)
        BY EmptySeq DEF Range, IsInjective
    <2>2. LruHits(X, <<>>, <<>>) = <<>> /\ LruHits(X, o, <<>>) = o
        BY <1>1, LruHitsEmpty
    <2>3. Only(o, X \ {}) = o
        BY <1>1, RangeOfSeq, OnlyAll
    <2>4. o \o <<>> = o
        BY <1>1, ConcatEmptySeq
    <2> QED BY <2>1, <2>2, <2>3, <2>4
<1>4. ASSUME NEW t \in Seq(X), NEW e \in X, t \in T PROVE Append(t, e) \in T
    <2> DEFINE u == Append(t, e)
               d == LruHits(X, <<>>, t)
               x == Only(o, X \ Range(t))
               S == X \ {e}
    <2>0. Split(t)
        BY <1>4
    <2>1. /\ u \in Seq(X) /\ Range(u) = Range(t) \cup {e}
          /\ IsInjective(u) <=> IsInjective(t) /\ e \notin Range(t)
        BY AppendProperties, AppendRange
    <2>2. d \in LruOrders(X) /\ d \in Seq(X) /\ Range(d) = Range(t)
        BY <1>1, <1>2, <2>0
    <2>3. LruHits(X, <<>>, u) = LruHit(X, d, e) /\ LruHits(X, o, u) = LruHit(X, LruHits(X, o, t), e)
        BY <1>1, LruHitsAppend
    <2>4. x \in Seq(X) /\ LruHits(X, o, t) = x \o d
        <3>1. x \in Seq(X)
            <4> DEFINE R == X \ Range(t)
            <4> HIDE DEF R
            <4>1. Only(o, R) \in Seq(X)
                BY <1>1, OnlyType
            <4> QED BY <4>1 DEF R
        <3> QED BY <2>0, <3>1
    <2>5. Only(x, S) = Only(o, X \ Range(u))
        <3> DEFINE R == X \ Range(t)
        <3>1. R \cap S = X \ Range(u)
            BY <2>1
        <3>2. Only(Only(o, R), S) = Only(o, R \cap S)
            <4> HIDE DEF R, S
            <4> QED BY <1>1, OnlyOnly
        <3> QED BY <3>1, <3>2
    <2> HIDE DEF u, d, x
    <2>6. Range(LruHits(X, <<>>, u)) = Range(u)
        BY <2>1, <2>2, <2>3, LruHitProperties
    <2>7. ASSUME IsInjective(u) PROVE LruHits(X, <<>>, u) = u
        <3>1. d = t /\ e \notin Range(t)
            BY <2>0, <2>1, <2>7 DEF d
        <3>2. Only(t, S) = t
            <4>1. Range(t) \subseteq S
                BY <3>1, RangeOfSeq
            <4> HIDE DEF S
            <4> QED BY <4>1, OnlyAll
        <3> QED BY <2>3, <3>1, <3>2 DEF LruHit, u
    <2>8. LruHits(X, o, u) = Only(o, X \ Range(u)) \o LruHits(X, <<>>, u)
        <3> DEFINE y == Only(d, S)
                   z == Only(x, S)
        <3>1. y \in Seq(X) /\ z \in Seq(X) /\ Only(x \o d, S) = z \o y
            <4> HIDE DEF S
            <4>1. y \in Seq(X) /\ z \in Seq(X)
                BY <2>2, <2>4, OnlyType
            <4>2. Only(x \o d, S) = z \o y
                BY <2>2, <2>4, OnlyConcat, SMTT(40)
            <4> QED BY <4>1, <4>2
        <3>2. LruHit(X, x \o d, e) = Append(z \o y, e) /\ LruHit(X, d, e) = Append(y, e)
            BY <3>1 DEF LruHit
        <3> HIDE DEF y, z
        <3>3. z \o Append(y, e) = Append(z \o y, e)
            BY <3>1, AppendConcat
        <3> QED BY <2>3, <2>4, <2>5, <3>2, <3>3 DEF z
    <2> HIDE DEF S
    <2> QED BY <2>1, <2>6, <2>7, <2>8 DEF u
<1>5. Seq(X) \subseteq T
    <2> HIDE DEF T
    <2> QED BY <1>3, <1>4, SequenceInduction
<1> QED BY <1>1, <1>2, <1>5

\* Adopting into the last n of an order is making recent, and keeping
\* the last n.
LEMMA LruTakeLast ==
    ASSUME NEW X, NEW n \in Nat \ {0}, NEW t \in LruOrders(X), NEW e \in X
    PROVE  LruTake(X, n, LastOf(t, n), e) = LastOf(LruHit(X, t, e), n)
<1> DEFINE q == LastOf(t, n)
           S == X \ {e}
<1>1. t \in Seq(X) /\ IsInjective(t) /\ n \in Nat \ {0}
    BY DEF LruOrders
<1>2. q \in Seq(X) /\ Len(q) <= n /\ Len(q) \in Nat
    BY <1>1, LastOfSplit, LenProperties
<1>3. PICK p \in Seq(X) : t = p \o q /\ (p = <<>> \/ Len(q) = n)
    BY <1>1, LastOfSplit
<1> HIDE DEF q
<1>4. IsInjective(p) /\ IsInjective(q) /\ Range(p) \cap Range(q) = {} /\ q \in LruOrders(X)
    BY <1>1, <1>2, <1>3, InjectiveConcat DEF LruOrders
<1> DEFINE x == Only(p, S)
           y == Only(q, S)
<1>5. x \in Seq(X) /\ y \in Seq(X) /\ Only(t, S) = x \o y
    <2> HIDE DEF S
    <2>1. x \in Seq(X) /\ y \in Seq(X)
        BY <1>2, OnlyType
    <2>2. Only(p \o q, S) = x \o y
        BY <1>2, OnlyConcat
    <2> QED BY <1>3, <2>1, <2>2
<1>6. LruHit(X, q, e) = Append(y, e) /\ LruHit(X, t, e) = x \o Append(y, e)
    <2>1. LruHit(X, q, e) = Append(y, e) /\ LruHit(X, t, e) = Append(x \o y, e)
        BY <1>5 DEF LruHit
    <2>2. x \o Append(y, e) = Append(x \o y, e)
        <3> HIDE DEF x, y
        <3> QED BY <1>5, AppendConcat
    <2> QED BY <2>1, <2>2
<1>7. p = <<>> => x = <<>>
    BY OnlyEmpty
<1> HIDE DEF x, y
<1>8. ASSUME NEW a \in Seq(X), NEW b \in Seq(X), Len(b) <= n,
             a = <<>> \/ Len(b) = n
      PROVE  LastOf(a \o b, n) = b
    <2>1. LastOf(a \o b, n) = LastOf(a, n - Len(b)) \o b /\ Len(b) \in Nat
        BY <1>1, <1>8, LastOfConcat, LenProperties
    <2>2. LastOf(a, n - Len(b)) = <<>>
        <3> DEFINE m == n - Len(b)
                   c == LastOf(a, m)
        <3>1. m \in Nat
            BY <1>1, <1>8, <2>1
        <3> HIDE DEF m
        <3>2. c \in Seq(X) /\ Len(c) <= m /\ (Len(a) <= m => c = a)
            BY <3>1, LastOfSplit
        <3>3. CASE a = <<>>
            <4>1. Len(a) = 0
                BY <3>3, EmptySeq
            <4> QED BY <3>1, <3>2, <3>3, <4>1 DEF m
        <3>4. CASE Len(b) = n
            <4>1. m = 0
                BY <1>1, <3>4 DEF m
            <4> HIDE DEF c
            <4>2. Len(c) = 0
                BY <3>2, <4>1, LenProperties
            <4>3. c = <<>>
                BY <3>2, <4>2, EmptySeq
            <4> QED BY <4>3 DEF c, m
        <3> QED BY <1>8, <3>3, <3>4
    <2>3. <<>> \o b = b
        BY ConcatEmptySeq
    <2> QED BY <2>1, <2>2, <2>3
<1>9. CASE e \in Range(q)
    <2> DEFINE b == Append(y, e)
    <2>1. b \in Seq(X) /\ Len(b) = Len(q)
        BY <1>4, <1>5, <1>6, <1>9, AppendProperties, LruHitProperties
    <2>2. x = p
        <3>1. Range(p) \subseteq S
            BY <1>4, <1>9, RangeOfSeq
        <3> QED BY <3>1, OnlyAll DEF x
    <2>3. LruTake(X, n, q, e) = b
        BY <1>6, <1>9 DEF LruTake, LruHit
    <2> HIDE DEF b
    <2>4. LastOf(x \o b, n) = b
        BY <1>2, <1>3, <1>5, <1>8, <2>1, <2>2
    <2> QED BY <1>6, <2>3, <2>4 DEF b, q
<1>10. CASE e \notin Range(q)
    <2>1. y = q
        <3>1. Range(q) \subseteq S
            BY <1>2, <1>10, RangeOfSeq
        <3> QED BY <1>2, <3>1, OnlyAll DEF y
    <2>2. CASE Len(q) < n
        <3> DEFINE b == Append(q, e)
        <3>1. b \in Seq(X) /\ Len(b) = Len(q) + 1 /\ Len(b) <= n
            BY <1>1, <1>2, <2>2, AppendProperties
        <3>2. LruTake(X, n, q, e) = b
            BY <1>10, <2>2 DEF LruTake
        <3>3. x = <<>>
            BY <1>3, <1>7, <2>2, <1>1, <1>2
        <3> HIDE DEF b
        <3>4. LastOf(x \o b, n) = b
            BY <1>5, <1>8, <3>1, <3>3
        <3> QED BY <1>6, <2>1, <3>2, <3>4 DEF b, q
    <2>3. CASE ~(Len(q) < n)
        <3> DEFINE h == <<Head(q)>>
                   r == Tail(q)
                   b == Append(r, e)
        <3>1. Len(q) = n /\ q # <<>>
            BY <1>1, <1>2, <2>3, EmptySeq
        <3>2. r \in Seq(X) /\ h \in Seq(X) /\ q = h \o r /\ Len(r) = Len(q) - 1
            BY <1>2, <3>1, TailProperties
        <3>3. LruTake(X, n, q, e) = b
            BY <1>10, <2>3 DEF LruTake
        <3> HIDE DEF h, r
        <3>4. b \in Seq(X) /\ Len(b) = n /\ x \o h \in Seq(X)
            BY <1>1, <1>5, <3>1, <3>2, AppendProperties, ConcatProperties
        <3>5. x \o Append(y, e) = (x \o h) \o b
            <4>1. Append(q, e) = h \o b
                BY <3>2, AppendConcat
            <4> HIDE DEF b
            <4>2. (x \o h) \o b = x \o (h \o b)
                BY <1>5, <3>2, <3>4, ConcatAssociative, SMTT(40)
            <4> QED BY <2>1, <4>1, <4>2
        <3> HIDE DEF b
        <3>6. LastOf((x \o h) \o b, n) = b
            <4> DEFINE g == x \o h
            <4>1. g \in Seq(X) /\ Len(b) <= n
                BY <1>1, <3>4
            <4> HIDE DEF g
            <4>2. LastOf(g \o b, n) = b
                BY <1>8, <3>4, <4>1
            <4> QED BY <4>2 DEF g
        <3> QED BY <1>6, <3>3, <3>5, <3>6 DEF q
    <2> QED BY <2>2, <2>3
<1> QED BY <1>9, <1>10

\* Adopting experts one by one leaves the last n of the pool's experts
\* and theirs, in the order of their last use.
LEMMA LruTakesLast ==
    ASSUME NEW X, NEW n \in Nat \ {0}, NEW o \in LruPools(X, n), NEW es \in Seq(X)
    PROVE  LruTakes(X, n, o, es) = LastOf(LruHits(X, o, es), n)
<1> DEFINE T == {t \in Seq(X) : LruTakes(X, n, o, t) = LastOf(LruHits(X, o, t), n)}
<1>1. o \in LruOrders(X) /\ o \in Seq(X) /\ Len(o) <= n /\ n \in Nat
    BY DEF LruPools, LruOrders
<1>2. <<>> \in T
    BY <1>1, LruHitsEmpty, LruTakesEmpty, LastOfSplit, EmptySeq
<1>3. ASSUME NEW t \in Seq(X), NEW e \in X, t \in T PROVE Append(t, e) \in T
    <2> DEFINE u == Append(t, e)
    <2>1. /\ u \in Seq(X) /\ LruHits(X, o, t) \in LruOrders(X)
          /\ LruTakes(X, n, o, u) = LruTake(X, n, LruTakes(X, n, o, t), e)
          /\ LruHits(X, o, u) = LruHit(X, LruHits(X, o, t), e)
        BY <1>1, AppendProperties, LruHitsAppend, LruTakesAppend
    <2> HIDE DEF u
    <2>2. LruTakes(X, n, o, u) = LastOf(LruHits(X, o, u), n)
        BY <1>3, <2>1, LruTakeLast
    <2> QED BY <2>1, <2>2 DEF u
<1>4. Seq(X) \subseteq T
    <2> HIDE DEF T
    <2> QED BY <1>2, <1>3, SequenceInduction
<1> QED BY <1>4

\* Hits on residents change a pool's order and nothing else.
LEMMA LruHitsResident ==
    ASSUME NEW X, NEW n \in Nat \ {0}, NEW o \in LruPools(X, n), NEW es \in Seq(X),
           Range(es) \subseteq Range(o)
    PROVE  LruHits(X, o, es) \in LruPools(X, n) /\ Range(LruHits(X, o, es)) = Range(o)
<1> DEFINE R == X \ Range(es)
           x == Only(o, R)
           d == LruHits(X, <<>>, es)
           a == LruHits(X, o, es)
<1>0. \A p \in LruOrders(X), s \in Seq(X) :
          /\ <<>> \in LruOrders(X) /\ LruHits(X, <<>>, s) \in LruOrders(X)
          /\ Range(LruHits(X, <<>>, s)) = Range(s)
          /\ IsInjective(s) => LruHits(X, <<>>, s) = s
          /\ LruHits(X, p, s) = Only(p, X \ Range(s)) \o LruHits(X, <<>>, s)
    <2> SUFFICES ASSUME NEW p \in LruOrders(X), NEW s \in Seq(X)
                 PROVE  /\ <<>> \in LruOrders(X) /\ LruHits(X, <<>>, s) \in LruOrders(X)
                        /\ Range(LruHits(X, <<>>, s)) = Range(s)
                        /\ IsInjective(s) => LruHits(X, <<>>, s) = s
                        /\ LruHits(X, p, s) = Only(p, X \ Range(s)) \o LruHits(X, <<>>, s)
        OBVIOUS
    <2> QED BY LruHitsSplit
<1>1. o \in LruOrders(X) /\ o \in Seq(X) /\ IsInjective(o) /\ Len(o) <= n
    BY DEF LruPools, LruOrders
<1>2. /\ <<>> \in LruOrders(X) /\ d \in LruOrders(X) /\ d \in Seq(X) /\ Range(d) = Range(es)
      /\ a = x \o d
    BY <1>0, <1>1 DEF LruOrders
<1>3. x \in Seq(X) /\ Range(x) = Range(o) \cap R
    <2> HIDE DEF R
    <2> QED BY <1>1, OnlyProperties
<1>4. a \in LruOrders(X)
    <2>1. CASE es = <<>>
        BY <1>1, <2>1, LruHitsEmpty
    <2>2. CASE es # <<>>
        <3>1. PICK e \in X : TRUE
            BY <2>2, SequenceEmptyOrAppend
        <3> QED BY <1>1, <3>1, LruHitsAppend
    <2> QED BY <2>1, <2>2
<1> HIDE DEF x, d, a
<1>5. Range(a) = Range(o)
    <2>1. Range(x \o d) = Range(x) \cup Range(d)
        BY <1>2, <1>3, RangeConcatenation
    <2>2. Range(o) \subseteq X
        BY <1>1, RangeOfSeq
    <2> QED BY <1>2, <1>3, <2>1, <2>2
<1>6. Len(a) = Len(o)
    <2>1. Cardinality(Range(a)) = Len(a)
        BY <1>4, InjectiveLen DEF LruOrders
    <2>2. Cardinality(Range(o)) = Len(o)
        BY <1>1, InjectiveLen
    <2> QED BY <1>5, <2>1, <2>2
<1> QED BY <1>1, <1>4, <1>5, <1>6 DEF LruPools, a

\* Hits on some experts, then on others: all of them come last.
LEMMA LruHitsTwice ==
    ASSUME NEW X, NEW o \in LruOrders(X), NEW a \in Seq(X), NEW b \in Seq(X),
           IsInjective(a), IsInjective(b), Range(a) \cap Range(b) = {}
    PROVE  LruHits(X, LruHits(X, o, a), b) = Only(o, X \ Range(a \o b)) \o (a \o b)
<1> DEFINE ha == LruHits(X, o, a)
           c == a \o b
           K == X \ Range(c)
           A == X \ Range(a)
           B == X \ Range(b)
           x == Only(o, K)
           oA == Only(o, A)
<1>0. \A p \in LruOrders(X), s \in Seq(X) :
          /\ <<>> \in LruOrders(X) /\ LruHits(X, <<>>, s) \in LruOrders(X)
          /\ Range(LruHits(X, <<>>, s)) = Range(s)
          /\ IsInjective(s) => LruHits(X, <<>>, s) = s
          /\ LruHits(X, p, s) = Only(p, X \ Range(s)) \o LruHits(X, <<>>, s)
    <2> SUFFICES ASSUME NEW p \in LruOrders(X), NEW s \in Seq(X)
                 PROVE  /\ <<>> \in LruOrders(X) /\ LruHits(X, <<>>, s) \in LruOrders(X)
                        /\ Range(LruHits(X, <<>>, s)) = Range(s)
                        /\ IsInjective(s) => LruHits(X, <<>>, s) = s
                        /\ LruHits(X, p, s) = Only(p, X \ Range(s)) \o LruHits(X, <<>>, s)
        OBVIOUS
    <2> QED BY LruHitsSplit
<1>1. o \in Seq(X) /\ ha \in LruOrders(X)
    <2>1. CASE a = <<>>
        BY <2>1, LruHitsEmpty DEF LruOrders
    <2>2. CASE a # <<>>
        <3>1. Head(a) \in X
            BY <2>2, HeadTailProperties
        <3> QED BY <3>1, LruHitsAppend DEF LruOrders
    <2> QED BY <2>1, <2>2
<1>2. Range(c) = Range(a) \cup Range(b)
    BY RangeConcatenation
<1>3. x \in Seq(X) /\ oA \in Seq(X)
    <2> HIDE DEF K, A
    <2> QED BY <1>1, OnlyType
<1>4. LruHits(X, <<>>, a) = a /\ LruHits(X, <<>>, b) = b /\ ha = oA \o a
    BY <1>0, <1>1
<1>5. LruHits(X, ha, b) = Only(ha, B) \o b
    BY <1>0, <1>1, <1>4
<1>6. Only(oA \o a, B) = Only(oA, B) \o Only(a, B)
    <2> HIDE DEF oA, B
    <2> QED BY <1>3, OnlyConcat
<1>7. Only(oA, B) = x
    <2>1. A \cap B = K
        BY <1>2
    <2> HIDE DEF A, B, K
    <2>2. Only(oA, B) = Only(o, A \cap B)
        BY <1>1, OnlyOnly
    <2> QED BY <2>1, <2>2
<1>8. Only(a, B) = a
    <2>1. Range(a) \subseteq B
        BY RangeOfSeq
    <2> HIDE DEF B
    <2> QED BY <2>1, OnlyAll
<1> HIDE DEF x, oA
<1>9. (x \o a) \o b = x \o (a \o b)
    BY <1>3, ConcatAssociative, SMTT(40)
<1> QED BY <1>4, <1>5, <1>6, <1>7, <1>8, <1>9 DEF x

\* A sequence that ends with another.
EndsWith(X, s, e) == \E f \in Seq(X) : s = f \o e

\* Experts taken all different and no more than the slots stay the pool's last
\* ones, behind some of those that were there.
LEMMA LruTakesEnd ==
    ASSUME NEW X, NEW n \in Nat \ {0}, NEW o \in LruPools(X, n), NEW d \in Seq(X), NEW es \in Seq(X),
           EndsWith(X, o, d), IsInjective(d \o es), Len(d \o es) <= n
    PROVE  /\ LruTakes(X, n, o, es) \in LruPools(X, n)
           /\ EndsWith(X, LruTakes(X, n, o, es), d \o es)
<1>0. PICK f \in Seq(X) : o = f \o d
    BY DEF EndsWith
<1> DEFINE c == d \o es
           x == Only(f, X \ Range(es))
<1>1. o \in LruPools(X, n) /\ o \in LruOrders(X)
    BY DEF LruPools
<1>2. c \in Seq(X) /\ IsInjective(es) /\ Range(d) \cap Range(es) = {} /\ Range(d) \subseteq X
    BY ConcatProperties, InjectiveConcat, RangeOfSeq
<1>3. x \in Seq(X) /\ Only(o, X \ Range(es)) = x \o d
    <2> DEFINE R == X \ Range(es)
    <2> HIDE DEF R
    <2>0. Only(f, R) \in Seq(X)
        BY OnlyType
    <2>1. Only(f \o d, R) = Only(f, R) \o Only(d, R)
        BY OnlyConcat
    <2>2. Range(d) \subseteq R
        BY <1>2 DEF R
    <2>3. Only(d, R) = d
        BY <2>2, OnlyAll
    <2> QED BY <1>0, <2>0, <2>1, <2>3 DEF R
<1>4. LruHits(X, o, es) = Only(o, X \ Range(es)) \o es
    <2> QED BY <1>1, <1>2, LruHitsSplit
<1>5. LruHits(X, o, es) = x \o c
    <2> HIDE DEF x
    <2>1. (x \o d) \o es = x \o (d \o es)
        BY <1>3, ConcatAssociative
    <2> QED BY <1>3, <1>4, <2>1
<1>6. LruTakes(X, n, o, es) \in LruPools(X, n) /\ LruTakes(X, n, o, es) = LastOf(LruHits(X, o, es), n)
    <2>1. LruTakes(X, n, o, es) = LastOf(LruHits(X, o, es), n)
        BY <1>1, LruTakesLast
    <2>2. CASE es = <<>>
        BY <1>1, <2>2, LruTakesEmpty, <2>1
    <2>3. CASE es # <<>>
        <3>1. Head(es) \in X
            BY <2>3, HeadTailProperties
        <3> QED BY <1>1, <2>1, <3>1, LruTakesAppend
    <2> QED BY <2>2, <2>3
<1> DEFINE m == n - Len(c)
           g == LastOf(x, m)
<1>7. Len(c) \in Nat /\ m \in Nat /\ n \in Nat
    BY <1>2, LenProperties
<1> HIDE DEF x, c, m
<1>8. g \in Seq(X)
    BY <1>3, <1>7, LastOfSplit
<1>9. LastOf(x \o c, n) = LastOf(x, n - Len(c)) \o c
    <2>1. Len(c) <= n
        BY DEF c
    <2> QED BY <1>2, <1>3, <1>7, <2>1, LastOfConcat
<1>10. LruTakes(X, n, o, es) = g \o c
    BY <1>5, <1>6, <1>9 DEF m
<1>11. EndsWith(X, LruTakes(X, n, o, es), c)
    <2> HIDE DEF g
    <2> QED BY <1>8, <1>10 DEF EndsWith
<1> QED BY <1>6, <1>11 DEF c

=============================================================================
