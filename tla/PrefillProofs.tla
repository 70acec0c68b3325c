--------------------------- MODULE PrefillProofs ----------------------------
(***************************************************************************)
(* Theorems about a prompt's prefill.  For every vocabulary, tail, step    *)
(* size and conversation (PrefillHistory): what is stored is what its key  *)
(* says, the chunks are even, and a turn's history is there for the next.  *)
(* For every call, mask and limit (AttentionBlocks): attention in blocks   *)
(* is the stock call's.                                                    *)
(***************************************************************************)
EXTENDS MCPrefill, SeqFoldsProofs

Tokens == Words \cup {"ask", "reply"}
Texts == Seq(Tokens)

\* What is left of t after its first n tokens.
Drop(t, n) == SubSeq(t, n + 1, Len(t))

-----------------------------------------------------------------------------
(* Cutting a text.                                                         *)

\* The entries of a part of a text.
LEMMA PartOf ==
    ASSUME NEW t \in Texts, NEW a \in 1 .. Len(t) + 1, NEW b \in a - 1 .. Len(t)
    PROVE  /\ SubSeq(t, a, b) \in Texts /\ Len(SubSeq(t, a, b)) = b - a + 1
           /\ \A i \in 1 .. b - a + 1 : SubSeq(t, a, b)[i] = t[a + i - 1]
<1>1. Len(t) \in Nat /\ \A i \in 1 .. Len(t) : t[i] \in Tokens
    BY LenProperties, ElementOfSeq DEF Texts
<1>2. a \in Int /\ b \in Int /\ \A i \in a .. b : t[i] \in Tokens
    BY <1>1
<1> QED BY <1>1, <1>2, SubSeqProperties DEF Texts

\* A text is its first tokens and the rest.
LEMMA CutAt ==
    ASSUME NEW t \in Texts, NEW n \in 0 .. Len(t)
    PROVE  /\ Take(t, n) \in Texts /\ Len(Take(t, n)) = n
           /\ Drop(t, n) \in Texts /\ Len(Drop(t, n)) = Len(t) - n
           /\ Take(t, n) \o Drop(t, n) = t
           /\ Take(t, Len(t)) = t /\ Drop(t, 0) = t /\ Take(t, 0) = <<>>
           /\ \A m \in 0 .. n : Take(Take(t, n), m) = Take(t, m)
<1>1. Len(t) \in Nat
    BY LenProperties DEF Texts
<1>2. /\ Take(t, n) \in Texts /\ Len(Take(t, n)) = n /\ Take(t, Len(t)) = t
      /\ Take(t, 0) = <<>>
      /\ \A m \in 0 .. n : Take(Take(t, n), m) = Take(t, m)
    BY PrefixProperties DEF Take, Texts
<1>3. Drop(t, n) \in Texts /\ Len(Drop(t, n)) = Len(t) - n
    <2>1. n + 1 \in 1 .. Len(t) + 1 /\ Len(t) \in (n + 1) - 1 .. Len(t)
        BY <1>1
    <2>2. Len(t) - (n + 1) + 1 = Len(t) - n
        BY <1>1
    <2> QED BY <2>1, <2>2, PartOf DEF Drop
<1>4. Drop(t, 0) = t
    BY <1>1, SubSeqFull DEF Drop, Texts
<1>5. Take(t, n) \o Drop(t, n) = t
    <2>1. 1 \in 1 .. Len(t) + 1 /\ n \in 1 - 1 .. Len(t) /\ Len(t) \in n .. Len(t)
        BY <1>1
    <2>2. SubSeq(t, 1, n) \o SubSeq(t, n + 1, Len(t)) = SubSeq(t, 1, Len(t))
        BY <2>1, ConcatAdjacentSubSeq DEF Texts
    <2> QED BY <2>2, SubSeqFull DEF Take, Drop, Texts
<1> QED BY <1>2, <1>3, <1>4, <1>5

\* A part of the rest is a part of the text, and continues what came before.
LEMMA CutFurther ==
    ASSUME NEW t \in Texts, NEW b \in 0 .. Len(t), NEW d \in 0 .. Len(t) - b,
           NEW e \in d .. Len(t) - b
    PROVE  /\ SubSeq(Drop(t, b), d + 1, e) = SubSeq(t, b + d + 1, b + e)
           /\ Take(t, b + d) \o SubSeq(Drop(t, b), d + 1, e) = Take(t, b + e)
           /\ SubSeq(Drop(t, b), d + 1, Len(Drop(t, b))) = Drop(t, b + d)
<1>1. Len(t) \in Nat /\ Drop(t, b) \in Texts /\ Len(Drop(t, b)) = Len(t) - b
    BY CutAt, LenProperties DEF Texts
<1>2. \A i \in 1 .. Len(t) - b : Drop(t, b)[i] = t[b + i]
    <2>1. b + 1 \in 1 .. Len(t) + 1 /\ Len(t) \in (b + 1) - 1 .. Len(t)
        BY <1>1
    <2>2. \A i \in 1 .. Len(t) - (b + 1) + 1 : SubSeq(t, b + 1, Len(t))[i] = t[(b + 1) + i - 1]
        BY <2>1, PartOf
    <2> QED BY <1>1, <2>2 DEF Drop
<1>3. ASSUME NEW f \in d .. Len(t) - b
      PROVE  SubSeq(Drop(t, b), d + 1, f) = SubSeq(t, b + d + 1, b + f)
    <2> DEFINE x == SubSeq(Drop(t, b), d + 1, f)
               y == SubSeq(t, b + d + 1, b + f)
    <2>1. d + 1 \in 1 .. Len(Drop(t, b)) + 1 /\ f \in (d + 1) - 1 .. Len(Drop(t, b))
        BY <1>1, <1>3
    <2>2. b + d + 1 \in 1 .. Len(t) + 1 /\ b + f \in (b + d + 1) - 1 .. Len(t)
        BY <1>1, <1>3
    <2>3. /\ x \in Texts /\ Len(x) = f - (d + 1) + 1
          /\ \A i \in 1 .. f - (d + 1) + 1 : x[i] = Drop(t, b)[(d + 1) + i - 1]
        BY <1>1, <2>1, PartOf
    <2>4. /\ y \in Texts /\ Len(y) = b + f - (b + d + 1) + 1
          /\ \A i \in 1 .. b + f - (b + d + 1) + 1 : y[i] = t[(b + d + 1) + i - 1]
        BY <2>2, PartOf
    <2> HIDE DEF x, y
    <2>5. Len(x) = f - d /\ Len(y) = f - d
        BY <1>1, <1>3, <2>3, <2>4
    <2>6. ASSUME NEW i \in 1 .. f - d PROVE x[i] = y[i]
        <3>1. /\ i \in 1 .. f - (d + 1) + 1 /\ i \in 1 .. b + f - (b + d + 1) + 1
              /\ (d + 1) + i - 1 = d + i /\ (b + d + 1) + i - 1 = b + (d + i)
              /\ d + i \in 1 .. Len(t) - b
            BY <1>1, <1>3
        <3> QED BY <1>2, <2>3, <2>4, <3>1
    <2>7. x = y
        BY <2>3, <2>4, <2>5, <2>6, SeqEqual DEF Texts
    <2> QED BY <2>7 DEF x, y
<1>4. Take(t, b + d) \o SubSeq(t, b + d + 1, b + e) = Take(t, b + e)
    <2>1. 1 \in 1 .. Len(t) + 1 /\ b + d \in 1 - 1 .. Len(t) /\ b + e \in b + d .. Len(t)
        BY <1>1
    <2> QED BY <2>1, ConcatAdjacentSubSeq DEF Take, Texts
<1>5. SubSeq(Drop(t, b), d + 1, Len(Drop(t, b))) = Drop(t, b + d)
    <2>1. Len(t) - b \in d .. Len(t) - b /\ b + (Len(t) - b) = Len(t)
        BY <1>1
    <2>2. SubSeq(Drop(t, b), d + 1, Len(t) - b) = SubSeq(t, b + d + 1, Len(t))
        BY <1>3, <2>1
    <2> QED BY <1>1, <2>2 DEF Drop
<1>6. e \in d .. Len(t) - b
    OBVIOUS
<1> QED BY <1>3, <1>4, <1>5, <1>6

-----------------------------------------------------------------------------
(* Numbers.                                                                *)

\* The greatest of a set of naturals with a bound.
LEMMA GreatestOf ==
    ASSUME NEW T \in SUBSET Nat, T # {}, NEW b \in Nat, \A x \in T : x <= b
    PROVE  Max(T) \in T /\ \A x \in T : x <= Max(T)
<1> DEFINE U == {u \in Nat : \A x \in T : x <= u}
<1>1. PICK u \in U : \A v \in U : u <= v
    <2>1. b \in U
        OBVIOUS
    <2> QED BY <2>1, LeastNatural
<1>2. \E x \in T : x >= u
    <2> SUFFICES ASSUME \A x \in T : ~(x >= u) PROVE FALSE
        OBVIOUS
    <2>1. PICK x \in T : TRUE
        OBVIOUS
    <2>2. u - 1 \in Nat /\ \A y \in T : y <= u - 1
        BY <2>1
    <2> QED BY <1>1, <2>2
<1>3. \E x \in T : \A y \in T : x >= y
    BY <1>1, <1>2
<1> QED BY <1>3 DEF Max

LEMMA LesserOf ==
    ASSUME NEW a \in Int, NEW b \in Int
    PROVE  Min({a, b}) = (IF a <= b THEN a ELSE b) /\ Max({a, b}) = (IF a >= b THEN a ELSE b)
<1>1. \E x \in {a, b} : \A y \in {a, b} : x <= y
    OBVIOUS
<1>2. Min({a, b}) \in {a, b} /\ \A y \in {a, b} : Min({a, b}) <= y
    BY <1>1 DEF Min
<1>3. \E x \in {a, b} : \A y \in {a, b} : x >= y
    OBVIOUS
<1>4. Max({a, b}) \in {a, b} /\ \A y \in {a, b} : Max({a, b}) >= y
    BY <1>3 DEF Max
<1> QED BY <1>2, <1>4

LEMMA Division ==
    ASSUME NEW a \in Nat, NEW b \in Nat \ {0}
    PROVE  /\ a \div b \in Nat /\ a % b \in 0 .. b - 1
           /\ a = b * (a \div b) + (a % b)
OBVIOUS

\* A product of naturals is no less than a factor the other keeps above zero.
LEMMA Product ==
    ASSUME NEW a \in Nat, NEW b \in Nat \ {0}
    PROVE  b * a \in Nat /\ b * a >= a
<1>1. b - 1 \in Nat
    OBVIOUS
<1>2. (b - 1) * a \in Nat
    BY <1>1
<1>3. b * a = a + (b - 1) * a
    OBVIOUS
<1> QED BY <1>2, <1>3

\* The chunks a prefill of n tokens is cut into are no more than chunks of s
\* tokens would be, and the longest is at most a quarter longer than s.
LEMMA SweepsRight ==
    ASSUME NEW n \in Nat \ {0}, NEW s \in Nat \ {0}
    PROVE  /\ Sweeps(n, s) \in 1 .. n /\ (Sweeps(n, s) - 1) * s < n
           /\ n \div Sweeps(n, s) \in Nat \ {0} /\ n % Sweeps(n, s) \in 0 .. Sweeps(n, s) - 1
           /\ n = Sweeps(n, s) * (n \div Sweeps(n, s)) + (n % Sweeps(n, s))
           /\ 4 * (n \div Sweeps(n, s) + (IF n % Sweeps(n, s) > 0 THEN 1 ELSE 0)) <= 5 * s
<1> DEFINE m == (n + s - 1) \div s
           k == Sweeps(n, s)
           h == s \div 4
<1>1. m \in Nat /\ s * m <= n + s - 1 /\ n <= s * m
    <2>1. n + s - 1 \in Nat
        OBVIOUS
    <2>2. /\ m \in Nat /\ (n + s - 1) % s \in 0 .. s - 1
          /\ n + s - 1 = s * m + ((n + s - 1) % s)
        BY <2>1, Division
    <2> HIDE DEF m
    <2>3. s * m \in Nat
        BY <2>2
    <2> QED BY <2>2, <2>3
<1>2. h \in Nat /\ 4 * h <= s
    <2>1. 4 \in Nat \ {0}
        OBVIOUS
    <2>2. h \in Nat /\ s % 4 \in 0 .. 3 /\ s = 4 * h + (s % 4)
        BY <2>1, Division
    <2> QED BY <2>2
<1>3. k = IF m > 1 /\ n - (m - 1) * s < h THEN m - 1 ELSE m
    BY DEF Sweeps
<1> HIDE DEF m, k, h
<1>4. m >= 1 /\ (m - 1) * s < n
    <2>1. m # 0
        <3>1. m = 0 => s * m = 0
            OBVIOUS
        <3> QED BY <1>1, <3>1
    <2>2. (m - 1) * s = s * m - s
        BY <1>1
    <2>3. s * m \in Nat
        BY <1>1
    <2> QED BY <1>1, <2>1, <2>2, <2>3
<1>5. k \in Nat \ {0} /\ k <= m /\ (k - 1) * s < n
    <2>1. CASE k = m
        BY <1>1, <1>4, <2>1
    <2>2. CASE k = m - 1 /\ m > 1
        <3>1. (k - 1) * s = (m - 1) * s - s
            BY <1>1, <2>2
        <3>2. (m - 1) * s \in Nat
            BY <1>1, <2>2
        <3> QED BY <1>1, <1>4, <2>2, <3>1, <3>2
    <2> QED BY <1>1, <1>3, <1>4, <2>1, <2>2
<1>6. k <= n
    <2>1. (k - 1) * s >= k - 1 /\ (k - 1) * s \in Nat
        <3>1. k - 1 \in Nat
            BY <1>5
        <3>2. s * (k - 1) \in Nat /\ s * (k - 1) >= k - 1
            BY <3>1, Product
        <3> QED BY <3>1, <3>2
    <2> QED BY <1>5, <2>1
<1> DEFINE q == n \div k
           r == n % k
<1>7. q \in Nat /\ r \in 0 .. k - 1 /\ n = k * q + r
    BY <1>5, Division
<1> HIDE DEF q, r
<1>8. q # 0
    <2>1. q = 0 => k * q = 0
        BY <1>5
    <2> QED BY <1>5, <1>6, <1>7, <2>1
<1>9. n <= k * s + (IF k = m THEN 0 ELSE h - 1) /\ (k # m => h >= 1)
    <2>1. CASE k = m
        <3>1. k * s = s * m
            BY <1>1, <2>1
        <3> QED BY <1>1, <2>1, <3>1
    <2>2. CASE k # m
        <3>1. k = m - 1 /\ n - k * s < h /\ k * s \in Nat
            BY <1>3, <1>5, <2>2
        <3>2. k * s < n
            BY <1>4, <3>1
        <3> QED BY <1>2, <2>2, <3>1, <3>2
    <2> QED BY <2>1, <2>2
<1>10. 4 * (q + (IF r > 0 THEN 1 ELSE 0)) <= 5 * s
    <2> SUFFICES ASSUME 4 * (q + (IF r > 0 THEN 1 ELSE 0)) > 5 * s PROVE FALSE
        BY <1>2, <1>7
    <2>1. q >= s
        BY <1>7
    <2>2. k * q = k * s + k * (q - s) /\ k * s \in Nat
        BY <1>5, <1>7
    <2>3. k * (q - s) \in Nat /\ k * (q - s) >= q - s
        <3>1. q - s \in Nat
            BY <1>7, <2>1
        <3> QED BY <1>5, <3>1, Product
    <2>4. q - s + r <= (IF k = m THEN 0 ELSE h - 1)
        BY <1>2, <1>5, <1>7, <1>9, <2>2, <2>3
    <2> DEFINE c == IF r > 0 THEN 1 ELSE 0
    <2>5. c \in 0 .. 1 /\ c <= r /\ 4 * (q + c) > 5 * s
        BY <1>7
    <2> HIDE DEF c
    <2>6. CASE k = m
        BY <1>7, <2>1, <2>4, <2>5, <2>6
    <2>7. CASE k # m
        BY <1>2, <1>7, <2>4, <2>5, <2>7
    <2> QED BY <2>6, <2>7
<1> QED BY <1>5, <1>6, <1>7, <1>8, <1>10 DEF k, q, r

\* Chunks as even as k of them can be, r the longer.
Evened(k, q, r) == [i \in 1 .. k |-> q + (IF i <= r THEN 1 ELSE 0)]

LEMMA EvenedSum ==
    ASSUME NEW q \in Nat, NEW r \in Nat, NEW k \in Nat
    PROVE  Total(Evened(k, q, r)) = k * q + (IF k <= r THEN k ELSE r)
<1> DEFINE T == {m \in Nat : Total(Evened(m, q, r)) = m * q + (IF m <= r THEN m ELSE r)}
<1>1. \A m \in Nat : Evened(m, q, r) \in Seq(Int) /\ Len(Evened(m, q, r)) = m
    BY DEF Evened
<1>2. 0 \in T
    <2>1. Evened(0, q, r) = <<>>
        BY <1>1, EmptySeq
    <2>2. <<>> \in Seq(Int) /\ 0 \in Int /\ 0 * q = 0
        BY EmptySeq
    <2>3. Total(<<>>) = 0
        BY <2>2, SumAppend
    <2> QED BY <2>1, <2>2, <2>3
<1>3. ASSUME NEW m \in T PROVE m + 1 \in T
    <2> DEFINE x == q + (IF m + 1 <= r THEN 1 ELSE 0)
               a == Evened(m, q, r)
               b == Evened(m + 1, q, r)
    <2>1. m \in Nat /\ Total(a) = m * q + (IF m <= r THEN m ELSE r) /\ x \in Int
        BY <1>3
    <2>2. a \in Seq(Int) /\ b \in Seq(Int) /\ Len(a) = m /\ Len(b) = m + 1
        BY <1>1, <2>1
    <2>3. /\ Append(a, x) \in Seq(Int) /\ Len(Append(a, x)) = m + 1
          /\ \A i \in 1 .. m : Append(a, x)[i] = a[i]
          /\ Append(a, x)[m + 1] = x
        BY <2>1, <2>2, AppendProperties
    <2>4. ASSUME NEW i \in 1 .. m + 1 PROVE b[i] = Append(a, x)[i]
        <3>1. b[i] = q + (IF i <= r THEN 1 ELSE 0)
            BY <2>1 DEF Evened
        <3>2. i \in 1 .. m => a[i] = q + (IF i <= r THEN 1 ELSE 0)
            BY <2>1 DEF Evened
        <3> HIDE DEF a, b
        <3> QED BY <2>1, <2>3, <3>1, <3>2
    <2>5. b = Append(a, x)
        <3> HIDE DEF a, b, x
        <3> QED BY <2>2, <2>3, <2>4, SeqEqual
    <2>6. Total(b) = Total(a) + x
        <3> HIDE DEF a, b, x
        <3> QED BY <2>1, <2>2, <2>5, SumAppend
    <2>7. (m + 1) * q = m * q + q /\ m * q \in Nat
        BY <2>1
    <2>8. Total(b) = (m + 1) * q + (IF m + 1 <= r THEN m + 1 ELSE r)
        <3> HIDE DEF a, b
        <3> QED BY <2>1, <2>6, <2>7
    <2> QED BY <2>1, <2>8
<1>4. T = Nat
    <2>1. T \in SUBSET Nat
        OBVIOUS
    <2> HIDE DEF T
    <2> QED BY <1>2, <1>3, <2>1, Induction
<1> QED BY <1>4

\* _chunks: their sum, their sizes and their number.
LEMMA ChunksRight ==
    ASSUME NEW n \in Nat \ {0}, NEW s \in Nat \ {0}
    PROVE  /\ Chunks(n, s) \in Seq(Nat \ {0}) /\ Total(Chunks(n, s)) = n
           /\ (Len(Chunks(n, s)) - 1) * s < n
           /\ \A i, j \in 1 .. Len(Chunks(n, s)) :
                 i <= j => Chunks(n, s)[i] - Chunks(n, s)[j] \in {0, 1}
           /\ \A i \in 1 .. Len(Chunks(n, s)) : 4 * Chunks(n, s)[i] <= 5 * s
<1> DEFINE k == Sweeps(n, s)
           q == n \div k
           r == n % k
           w == Evened(k, q, r)
<1>1. /\ k \in 1 .. n /\ (k - 1) * s < n /\ q \in Nat \ {0} /\ r \in 0 .. k - 1
      /\ n = k * q + r /\ 4 * (q + (IF r > 0 THEN 1 ELSE 0)) <= 5 * s
    BY SweepsRight
<1>2. Chunks(n, s) = w
    BY DEF Chunks, Evened
<1> HIDE DEF k, q, r
<1>3. \A i \in 1 .. k : w[i] = q + (IF i <= r THEN 1 ELSE 0)
    BY DEF Evened
<1>4. w \in Seq(Nat \ {0}) /\ Len(w) = k
    BY <1>1 DEF Evened
<1>5. Total(w) = n
    <2>1. Total(w) = k * q + (IF k <= r THEN k ELSE r)
        BY <1>1, EvenedSum
    <2> QED BY <1>1, <2>1
<1> HIDE DEF w
<1>6. ASSUME NEW i \in 1 .. k, NEW j \in 1 .. k, i <= j PROVE w[i] - w[j] \in {0, 1}
    BY <1>1, <1>3, <1>6
<1>7. ASSUME NEW i \in 1 .. k PROVE 4 * w[i] <= 5 * s
    BY <1>1, <1>3
<1> QED BY <1>1, <1>2, <1>4, <1>5, <1>6, <1>7

-----------------------------------------------------------------------------
(* What the store gives back.                                              *)

LEMMA CommonRight ==
    ASSUME NEW a \in Texts, NEW b \in Texts
    PROVE  /\ Common(a, b) \in 0 .. Len(a) /\ Common(a, b) <= Len(b)
           /\ Take(a, Common(a, b)) = Take(b, Common(a, b))
           /\ \A n \in 0 .. Len(a) : n <= Len(b) /\ Take(a, n) = Take(b, n) => n <= Common(a, b)
<1> DEFINE T == {n \in 0 .. Min({Len(a), Len(b)}) : Take(a, n) = Take(b, n)}
<1>1. Len(a) \in Nat /\ Len(b) \in Nat
    BY LenProperties DEF Texts
<1>2. Min({Len(a), Len(b)}) = IF Len(a) <= Len(b) THEN Len(a) ELSE Len(b)
    BY <1>1, LesserOf
<1>3. Take(a, 0) = Take(b, 0)
    BY <1>1, CutAt
<1>4. T \in SUBSET Nat /\ T # {} /\ \A x \in T : x <= Len(a)
    <2>1. Min({Len(a), Len(b)}) \in Nat /\ Min({Len(a), Len(b)}) <= Len(a)
        BY <1>1, <1>2
    <2>2. 0 \in T
        BY <1>3, <2>1
    <2>3. T \subseteq 0 .. Min({Len(a), Len(b)})
        OBVIOUS
    <2> DEFINE m == Min({Len(a), Len(b)})
    <2>4. m \in Nat /\ m <= Len(a) /\ T \subseteq 0 .. m
        BY <2>1, <2>3
    <2> HIDE DEF T, m
    <2>5. \A x \in T : x \in Nat /\ x <= Len(a)
        BY <1>1, <2>4
    <2> QED BY <2>2, <2>5
<1>5. Common(a, b) = Max(T)
    BY DEF Common
<1>6. Max(T) \in T /\ \A x \in T : x <= Max(T)
    <2> HIDE DEF T
    <2> QED BY <1>1, <1>4, GreatestOf
<1>7. /\ Max(T) \in 0 .. Min({Len(a), Len(b)})
      /\ Take(a, Max(T)) = Take(b, Max(T))
    BY <1>6
<1>8. ASSUME NEW n \in 0 .. Len(a), n <= Len(b), Take(a, n) = Take(b, n)
      PROVE  n <= Max(T)
    <2>1. n \in T
        BY <1>1, <1>2, <1>8
    <2> HIDE DEF T
    <2> QED BY <1>6, <2>1
<1> HIDE DEF T
<1> QED BY <1>1, <1>2, <1>5, <1>7, <1>8

LEMMA StrictLonger ==
    ASSUME NEW a \in Texts, NEW b \in Texts
    PROVE  /\ IsPrefix(a, b) => Len(a) \in 0 .. Len(b) /\ a = Take(b, Len(a))
           /\ IsStrictPrefix(a, b) => Len(a) \in 0 .. Len(b) - 1
<1>1. Len(a) \in Nat /\ Len(b) \in Nat /\ Take(a, Len(a)) = a /\ Take(b, Len(b)) = b
    BY CutAt, LenProperties DEF Texts
<1>2. IsPrefix(a, b) => Len(a) <= Len(b) /\ Take(a, Len(a)) = Take(b, Len(a))
    BY DEF IsPrefix, Take
<1>3. IsStrictPrefix(a, b) => IsPrefix(a, b) /\ a # b
    BY DEF IsStrictPrefix
<1> QED BY <1>1, <1>2, <1>3

LEMMA TakePrefix ==
    ASSUME NEW t \in Texts, NEW n \in 0 .. Len(t)
    PROVE  IsPrefix(Take(t, n), t)
<1>1. Len(t) \in Nat /\ Len(Take(t, n)) = n /\ Take(Take(t, n), n) = Take(t, n)
    BY CutAt, LenProperties DEF Texts
<1> QED BY <1>1 DEF IsPrefix, Take

\* An entry gives back a part of t, and all of its key if it cannot be cut.
LEMMA GivesRight ==
    ASSUME NEW e, e.key \in Texts, NEW t \in Texts, t # <<>>
    PROVE  /\ Gives(e, t) \in 0 .. Len(t) /\ Gives(e, t) <= Len(e.key)
           /\ Take(e.key, Gives(e, t)) = Take(t, Gives(e, t))
           /\ ~trimmable /\ Gives(e, t) > 0 => Gives(e, t) = Len(e.key) /\ e.key = Take(t, Len(e.key))
<1>1. Len(t) \in Nat \ {0} /\ Len(e.key) \in Nat
    BY EmptySeq, LenProperties DEF Texts
<1>2. CASE e.key = t /\ ~paged
    BY <1>1, <1>2, CutAt DEF Gives
<1>3. CASE ~(e.key = t /\ ~paged) /\ trimmable /\ (paged => Succeeds(e, t))
    <2> DEFINE c == Common(e.key, t)
               n == IF c <= Len(t) - 1 THEN c ELSE Len(t) - 1
    <2>1. c \in 0 .. Len(e.key) /\ c <= Len(t) /\ Take(e.key, c) = Take(t, c)
        BY CommonRight
    <2>2. Gives(e, t) = n
        BY <1>1, <1>3, <2>1, LesserOf DEF Gives
    <2> HIDE DEF c
    <2>3. n \in 0 .. c
        BY <1>1, <2>1
    <2> HIDE DEF n
    <2>4. Take(Take(e.key, c), n) = Take(e.key, n) /\ Take(Take(t, c), n) = Take(t, n)
        BY <1>1, <2>1, <2>3, CutAt
    <2> QED BY <1>1, <1>3, <2>1, <2>2, <2>3, <2>4
<1>4. CASE ~(e.key = t /\ ~paged) /\ ~(trimmable /\ (paged => Succeeds(e, t)))
    <2>1. CASE IsStrictPrefix(e.key, t)
        <3>1. Gives(e, t) = Len(e.key)
            BY <1>4, <2>1 DEF Gives
        <3>2. Len(e.key) <= Len(t) /\ Take(e.key, Len(e.key)) = Take(t, Len(e.key))
            BY <2>1 DEF IsStrictPrefix, IsPrefix, Take
        <3> QED BY <1>1, <3>1, <3>2, CutAt
    <2>2. CASE ~IsStrictPrefix(e.key, t)
        <3>1. Gives(e, t) = 0
            BY <1>4, <2>2 DEF Gives
        <3> QED BY <1>1, <3>1, CutAt
    <2> QED BY <2>1, <2>2
<1> QED BY <1>2, <1>3, <1>4

\* Of the stored keys that t goes on from, the longest is used whole.
LEMMA WholeMost ==
    ASSUME NEW t \in Texts, t # <<>>, \A e \in store : e.key \in Texts
    PROVE  /\ Whole(t) \in 0 .. Len(t) - 1 /\ Len(t) \in Nat \ {0}
           /\ \A e \in store : IsStrictPrefix(e.key, t) => Len(e.key) <= Whole(t)
           /\ Whole(t) > 0 => Take(t, Whole(t)) \in Keys
<1> DEFINE K == {k \in Keys : IsStrictPrefix(k, t)}
           T == {Len(k) : k \in K} \cup {0}
<1>1. Len(t) \in Nat \ {0} /\ \A k \in Keys : k \in Texts
    BY EmptySeq, LenProperties DEF Texts, Keys
<1>2. \A k \in K : Len(k) \in 0 .. Len(t) - 1 /\ k = Take(t, Len(k))
    BY <1>1, StrictLonger DEF IsStrictPrefix
<1>3. T \in SUBSET Nat /\ T # {} /\ \A x \in T : x <= Len(t) - 1
    BY <1>1, <1>2
<1>4. Whole(t) = Max(T)
    BY DEF Whole
<1>5. Max(T) \in T /\ \A x \in T : x <= Max(T)
    <2>1. \A x \in T : x <= Len(t)
        BY <1>1, <1>3
    <2> HIDE DEF T
    <2> QED BY <1>1, <1>3, <2>1, GreatestOf
<1>6. \A e \in store : IsStrictPrefix(e.key, t) => Len(e.key) \in T
    BY DEF Keys
<1>7. \A x \in T : x > 0 => Take(t, x) \in Keys
    BY <1>2
<1> HIDE DEF T, K
<1>8. Max(T) \in 0 .. Len(t) - 1
    <2>1. Max(T) \in Nat /\ Max(T) <= Len(t) - 1
        BY <1>3, <1>5
    <2> QED BY <1>1, <2>1
<1> QED BY <1>1, <1>4, <1>5, <1>6, <1>7, <1>8

\* An entry that may be cut gives back all that t shares with it.
LEMMA GivesShared ==
    ASSUME NEW e, e.key \in Texts, NEW t \in Texts, t # <<>>,
           trimmable, paged => Succeeds(e, t),
           NEW n \in 0 .. Len(t) - 1, n <= Len(e.key), Take(e.key, n) = Take(t, n)
    PROVE  Gives(e, t) >= n
<1>1. Len(t) \in Nat \ {0} /\ Len(e.key) \in Nat /\ n \in 0 .. Len(e.key)
    BY EmptySeq, LenProperties DEF Texts
<1> DEFINE c == Common(e.key, t)
<1>2. n <= c /\ c \in 0 .. Len(e.key)
    BY <1>1, CommonRight
<1>3. Gives(e, t) = Len(t) \/ Gives(e, t) = Min({c, Len(t) - 1})
    BY DEF Gives
<1> HIDE DEF c
<1>4. Min({c, Len(t) - 1}) = IF c <= Len(t) - 1 THEN c ELSE Len(t) - 1
    <2>1. c \in Int /\ Len(t) - 1 \in Int
        BY <1>1, <1>2
    <2> QED BY <2>1, LesserOf
<1> QED BY <1>1, <1>2, <1>3, <1>4

\* An entry t goes on from gives back all of its key.
LEMMA GivesWhole ==
    ASSUME NEW e, e.key \in Texts, NEW t \in Texts, t # <<>>, IsStrictPrefix(e.key, t)
    PROVE  Gives(e, t) >= Len(e.key)
<1>1. /\ Len(e.key) \in 0 .. Len(t) - 1 /\ Len(e.key) \in Nat /\ Len(t) \in Nat
      /\ e.key = Take(t, Len(e.key)) /\ Take(e.key, Len(e.key)) = e.key /\ e.key # t
    <2>1. Len(e.key) \in Nat /\ Len(t) \in Nat
        BY LenProperties DEF Texts
    <2>2. Take(e.key, Len(e.key)) = e.key
        <3>1. Len(e.key) \in 0 .. Len(e.key)
            BY <2>1
        <3> QED BY <3>1, CutAt
    <2>3. IsPrefix(e.key, t) /\ e.key # t
        BY DEF IsStrictPrefix
    <2>4. Len(e.key) \in 0 .. Len(t) - 1 /\ e.key = Take(t, Len(e.key))
        BY <2>3, StrictLonger
    <2> QED BY <2>1, <2>2, <2>3, <2>4
<1>2. CASE trimmable /\ (paged => Succeeds(e, t))
    BY <1>1, <1>2, GivesShared
<1>3. CASE ~(trimmable /\ (paged => Succeeds(e, t)))
    BY <1>1, <1>3 DEF Gives
<1> QED BY <1>2, <1>3

\* Of the entries, the one that gives back most is found.
LEMMA FoundMost ==
    ASSUME NEW t \in Texts, t # <<>>, \A e \in store : e.key \in Texts
    PROVE  /\ Found(t) \in 0 .. Len(t)
           /\ \A e \in store : Gives(e, t) <= Found(t)
           /\ Found(t) = 0 \/ \E e \in store : Gives(e, t) = Found(t)
<1> DEFINE T == {Gives(e, t) : e \in store} \cup {0}
<1>1. Len(t) \in Nat
    BY LenProperties DEF Texts
<1>2. T \in SUBSET Nat /\ T # {} /\ \A x \in T : x <= Len(t)
    BY <1>1, GivesRight
<1>3. \A e \in store : Gives(e, t) \in T
    OBVIOUS
<1>4. Found(t) = Max(T) /\ \A x \in T : x = 0 \/ \E e \in store : Gives(e, t) = x
    BY DEF Found
<1> HIDE DEF T
<1>5. Max(T) \in T /\ \A x \in T : x <= Max(T)
    BY <1>1, <1>2, GreatestOf
<1>6. Max(T) \in Nat /\ Max(T) <= Len(t)
    BY <1>2, <1>5
<1> QED BY <1>1, <1>3, <1>4, <1>5, <1>6

-----------------------------------------------------------------------------
(* The requests.                                                           *)

LEMMA TailText ==
    Suffix \in Texts /\ Len(Suffix) = SuffixLen /\ SuffixLen \in Nat
<1>1. SuffixLen \in Nat
    BY PrefillAssumption
<1> QED BY <1>1 DEF Suffix, Texts, Tokens

LEMMA ConcatDrop ==
    ASSUME NEW s \in Texts, NEW t \in Texts
    PROVE  s \o t \in Texts /\ Drop(s \o t, Len(s)) = t
<1>1. s \o t \in Texts /\ Len(s \o t) = Len(s) + Len(t) /\ Len(s) \in Nat /\ Len(t) \in Nat
    BY ConcatProperties, LenProperties DEF Texts
<1>2. Take(s \o t, Len(s)) = s
    BY PrefixOfConcat DEF Take, Texts
<1>3. Drop(s \o t, Len(s)) \in Texts /\ s \o Drop(s \o t, Len(s)) = s \o t
    <2>1. Len(s) \in 0 .. Len(s \o t)
        BY <1>1
    <2>2. Take(s \o t, Len(s)) \o Drop(s \o t, Len(s)) = s \o t
        BY <1>1, <2>1, CutAt
    <2> QED BY <1>1, <1>2, <2>1, <2>2, CutAt
<1>4. Drop(s \o t, Len(s)) = t
    BY <1>3, ConcatSimplifications DEF Texts
<1> QED BY <1>1, <1>4

LEMMA TailAtEnd ==
    ASSUME NEW s \in Texts
    PROVE  s \o Suffix \in Texts /\ EndsInTail(s \o Suffix)
<1>1. s \o Suffix \in Texts /\ Len(s \o Suffix) = Len(s) + SuffixLen /\ Len(s) \in Nat
    BY TailText, ConcatProperties, LenProperties DEF Texts
<1>2. Drop(s \o Suffix, Len(s)) = Suffix
    BY TailText, ConcatDrop
<1>3. Len(s \o Suffix) - SuffixLen + 1 = Len(s) + 1
    BY <1>1, TailText
<1> QED BY <1>1, <1>2, <1>3, TailText DEF EndsInTail, Drop

\* How many tokens a prompt has after its history.
Left == IF SuffixLen >= 1 THEN SuffixLen ELSE 1

LEMMA HistoryType ==
    ASSUME NEW t \in Texts
    PROVE  /\ History(t) \in Texts
           /\ Left <= Len(t) => /\ Len(t) - Left \in 0 .. Len(t) - 1 /\ Len(t) \in Nat
                                /\ History(t) = Take(t, Len(t) - Left)
                                /\ Len(History(t)) = Len(t) - Left
<1>1. Len(t) \in Nat /\ SuffixLen \in Nat
    BY TailText, LenProperties DEF Texts
<1> DEFINE n == IF 0 >= Len(t) - Left THEN 0 ELSE Len(t) - Left
<1>2. Max({SuffixLen, 1}) = Left
    <2>1. SuffixLen \in Int /\ 1 \in Int
        BY <1>1
    <2> QED BY <2>1, LesserOf DEF Left
<1>3. Left \in Nat \ {0}
    BY <1>1 DEF Left
<1>4. Max({0, Len(t) - Left}) = n
    <2>1. 0 \in Int /\ Len(t) - Left \in Int
        BY <1>1, <1>3
    <2> QED BY <2>1, LesserOf
<1>5. n \in 0 .. Len(t) /\ (Left <= Len(t) => n = Len(t) - Left)
    BY <1>1, <1>3
<1> HIDE DEF n
<1>6. History(t) = Take(t, n)
    BY <1>2, <1>4 DEF History
<1>7. Take(t, n) \in Texts /\ Len(Take(t, n)) = n
    BY <1>5, CutAt
<1> QED BY <1>1, <1>3, <1>5, <1>6, <1>7

\* Every prompt ends with the template's tail.
LEMMA PromptsEnd ==
    ASSUME req \in Texts, req # <<>> => EndsInTail(req), NEW w \in Words, NEW n \in Lengths,
           NEW t \in {Opening(w, n), req}
                 \cup (IF req = <<>> THEN {} ELSE {NextTurn(tail, w, n) : tail \in {Suffix, <<>>}}),
           t # <<>>
    PROVE  t \in Texts /\ EndsInTail(t)
<1>1. n \in Nat /\ Message(w, n) \in Texts /\ Message("reply", 1) \in Texts
    BY PrefillAssumption DEF Message, Texts, Tokens
<1>2. CASE t = Opening(w, n)
    BY <1>1, <1>2, TailAtEnd DEF Opening
<1>3. CASE t = req
    BY <1>3
<1>4. ASSUME NEW tail \in {Suffix, <<>>}, t = NextTurn(tail, w, n)
      PROVE  t \in Texts /\ EndsInTail(t)
    <2> DEFINE b == History(req) \o tail \o Message("reply", 1)
    <2>1. tail \in Texts
        BY TailText, EmptySeq DEF Texts
    <2>2. b \in Texts
        BY <1>1, <2>1, HistoryType, ConcatProperties DEF Texts
    <2>3. t = b \o (Message(w, n) \o Suffix)
        BY <1>4 DEF NextTurn, Opening
    <2> HIDE DEF b
    <2>4. t = (b \o Message(w, n)) \o Suffix /\ b \o Message(w, n) \in Texts
        <3> DEFINE m == Message(w, n)
        <3>1. b \in Seq(Tokens) /\ m \in Seq(Tokens) /\ Suffix \in Seq(Tokens)
            BY <1>1, <2>2, TailText DEF Texts
        <3> HIDE DEF m
        <3>2. (b \o m) \o Suffix = b \o (m \o Suffix) /\ b \o m \in Seq(Tokens)
            BY <3>1, ConcatAssociative, ConcatProperties
        <3> QED BY <2>3, <3>2 DEF m, Texts
    <2> QED BY <2>4, TailAtEnd
<1>5. \/ t = Opening(w, n) \/ t = req
      \/ \E tail \in {Suffix, <<>>} : t = NextTurn(tail, w, n)
    OBVIOUS
<1> QED BY <1>2, <1>3, <1>4, <1>5

-----------------------------------------------------------------------------
(* The inductive invariant.                                                *)

PType ==
    /\ paged \in BOOLEAN /\ trimmable \in BOOLEAN /\ step \in Steps
    /\ \A e \in store : e.key \in Texts /\ e.from \in Nat
    /\ cut \in Nat
    /\ req \in Texts /\ fetch \in Texts /\ prompt \in Texts /\ cache \in Texts
    /\ owed \in Texts
    /\ last \in Nat /\ base \in Nat /\ todo \in Seq(Nat \ {0})
    /\ pc \in {"idle", "fetched", "chunks", "rest"}

\* What is asked ends with the template's tail.
Asked == (req # <<>> => EndsInTail(req)) /\ (pc # "idle" => req # <<>>)

\* The cache is the request's first tokens and what is to be computed the rest.
Parted ==
    /\ Len(cache) <= Len(req)
    /\ cache = Take(req, Len(cache)) /\ prompt = Drop(req, Len(cache))

Restored == pc = "fetched" =>
    Parted /\ IF paged THEN last = Len(cache) ELSE fetch = req

\* The history is computed up to Done tokens past what was restored, and the
\* chunks left are even.
Computing == pc = "chunks" =>
    /\ base <= Len(req) /\ prompt = Drop(req, base)
    /\ HistoryEnd(prompt) >= 1 /\ Done >= 0
    /\ cache = Take(req, base + Done)
    /\ ~paged => fetch = req
    /\ \A i, j \in 1 .. Len(todo) : i <= j => todo[i] - todo[j] \in {0, 1}
    /\ \A i \in 1 .. Len(todo) : 4 * todo[i] <= 5 * step
    /\ Done = 0 => (Len(todo) - 1) * step < HistoryEnd(prompt)

Rest == pc = "rest" => Parted

PInv == PType /\ Asked /\ Restored /\ Computing /\ Rest /\ StoredExact

\* n is where the longest key in s that h goes on from ends.
Nearest(s, h, n) ==
    /\ n = 0 \/ \E d \in s : d.key = Take(h, n)
    /\ \A d \in s : IsStrictPrefix(d.key, h) => Len(d.key) <= n

\* An entry of s gives the history h back whole to a request that repeats it: as
\* it is, or cut, and of the paged cache's if it succeeds the longest used whole.
Holds(s, h) ==
    \E e \in s :
        \/ e.key = h
        \/ /\ trimmable /\ IsPrefix(h, e.key)
           /\ paged => e.from < Len(h) /\ Nearest(s, h, e.from)

\* Of a request restored n tokens, but none past its history from an entry used
\* whole, the history is stored if it was all restored.
Reach(n) ==
    (paged \/ ~trimmable) /\ History(req) # <<>>
    /\ had <= Len(History(req)) /\ Len(History(req)) <= n => Holds(store, History(req))

\* So it is when a prefill begins and, while it goes on, where each of its chunks
\* ended is stored by the paged cache.
Points ==
    /\ had \in Nat
    /\ pc = "fetched" => (~paged => had = Len(cache)) /\ Reach(Len(cache))
    /\ pc = "chunks" =>
        /\ (~paged => had = base) /\ Reach(base)
        /\ paged /\ Done > 0 => Take(req, base + Done) \in Keys

\* What an answered request left is stored, and is where it stops if its prefill
\* came that far.
Promised ==
    /\ pc = "idle" /\ owed # <<>> /\ ~late => Holds(store, owed)
    /\ pc = "rest" /\ (paged \/ ~trimmable) /\ Leaves(req) # <<>>
            /\ had <= Len(History(req)) => Holds(store, History(req))

HInv == PInv /\ Points /\ Promised /\ HistoryRestored

\* What has been reported of a request.
Reported ==
    /\ shown \in [at : Nat, of : Nat] /\ shown.at <= shown.of
    /\ pc = "fetched" => shown = Unreported
    /\ pc = "chunks" => shown = [at |-> Done, of |-> Len(prompt)]

Rises ==
    pc # "idle" /\ Unreported \notin {shown, shown'} =>
        shown'.at >= shown.at /\ shown'.of = shown.of /\ shown'.at <= shown'.of

LEMMA HistoryEndType ==
    ASSUME NEW p \in Texts
    PROVE  HistoryEnd(p) \in Int /\ HistoryEnd(p) <= Len(p) /\ Len(p) \in Nat
<1>1. Len(p) \in Nat /\ SuffixLen \in Nat
    BY TailText, LenProperties DEF Texts
<1> QED BY <1>1 DEF HistoryEnd

\* Restored, cut and continued, a request is still itself.
LEMMA PartsWhole ==
    ASSUME PType, Parted
    PROVE  cache \o prompt = req
<1>1. Len(cache) \in 0 .. Len(req)
    BY LenProperties DEF PType, Parted, Texts
<1> QED BY <1>1, CutAt DEF PType, Parted

LEMMA InitParted == Init => PInv
<1> SUFFICES ASSUME Init PROVE PInv
    OBVIOUS
<1>1. <<>> \in Texts /\ <<>> \in Seq(Nat \ {0})
    BY EmptySeq DEF Texts
<1>2. PType
    BY <1>1 DEF Init, PType
<1> QED BY <1>2 DEF Init, PInv, Asked, Restored, Computing, Rest, StoredExact

\* What a lookup restores.
LEMMA FetchFacts ==
    ASSUME PInv, NEW t \in Texts, t # <<>>, EndsInTail(t), Fetch(t)
    PROVE  /\ PInv' /\ pc' = "fetched" /\ req' = t
           /\ Len(cache') = Found(t) /\ cache' = Take(t, Found(t))
           /\ had' = IF paged THEN Whole(t) ELSE Found(t)
           /\ ~trimmable /\ Found(t) > 0 => Take(t, Found(t)) \in Keys
<1> DEFINE n == Found(t)
<1>1. PType /\ StoredExact
    BY DEF PInv
<1>2. n \in 0 .. Len(t) /\ Len(t) \in Nat \ {0}
    <2>1. n \in 0 .. Len(t)
        BY <1>1, FoundMost DEF PType
    <2>2. Len(t) \in Nat \ {0}
        BY EmptySeq DEF Texts
    <2> QED BY <2>1, <2>2
<1>3. /\ pc' = "fetched" /\ req' = t /\ prompt' = Drop(t, n) /\ store' = store
      /\ paged' = paged /\ trimmable' = trimmable /\ step' = step
      /\ base' = base /\ todo' = todo /\ owed' = owed
      /\ had' = IF paged THEN Whole(t) ELSE n
      /\ cut' = IF paged THEN Whole(t) ELSE cut
      /\ IF paged THEN last' = n /\ fetch' = fetch ELSE fetch' = t /\ last' = last
    BY DEF Fetch, server, Recorded, Drop
<1>4. \/ n = 0 /\ cache' = <<>>
      \/ \E e \in store : n > 0 /\ Gives(e, t) = n /\ cache' = Take(e.held, n)
    BY DEF Fetch
<1> HIDE DEF n
<1>5. cache' = Take(t, n) /\ (~trimmable /\ n > 0 => Take(t, n) \in Keys)
    <2>1. CASE n = 0 /\ cache' = <<>>
        BY <1>2, <2>1, CutAt
    <2>2. ASSUME NEW e \in store, n > 0, Gives(e, t) = n, cache' = Take(e.held, n)
          PROVE  cache' = Take(t, n) /\ (~trimmable => Take(t, n) \in Keys)
        <3>1. e.key \in Texts /\ e.held = e.key
            BY <1>1 DEF PType, StoredExact
        <3>2. /\ Take(e.key, n) = Take(t, n)
              /\ ~trimmable => n = Len(e.key) /\ e.key = Take(t, Len(e.key))
            BY <2>2, <3>1, GivesRight
        <3> QED BY <2>2, <3>1, <3>2 DEF Keys
    <2> QED BY <1>4, <2>1, <2>2
<1>6. /\ Len(cache') = n /\ cache' \in Texts /\ prompt' \in Texts
    BY <1>2, <1>3, <1>5, CutAt
<1>10. Whole(t) \in Nat
    BY <1>1, WholeMost DEF PType
<1>7. PType'
    BY <1>1, <1>2, <1>3, <1>6, <1>10 DEF PType
<1>8. Parted'
    BY <1>2, <1>3, <1>5, <1>6 DEF Parted
<1>9. (Asked /\ Restored /\ Computing /\ Rest /\ StoredExact)'
    BY <1>1, <1>3, <1>6, <1>8 DEF Asked, Restored, Computing, Rest, StoredExact
<1> QED BY <1>3, <1>5, <1>6, <1>7, <1>9 DEF PInv, n

\* Base is what was restored.
LEMMA StartStep ==
    ASSUME PInv, Start
    PROVE  PInv' /\ base' = Len(cache) /\ Done' = 0
<1>1. /\ PType /\ Asked /\ Parted /\ StoredExact /\ pc = "fetched" /\ req # <<>>
      /\ IF paged THEN last = Len(cache) ELSE fetch = req
    BY DEF PInv, Restored, Start, Asked
<1>2. /\ base' = Base /\ todo' = Chunks(HistoryEnd(prompt), step) /\ pc' = "chunks"
      /\ HistoryEnd(prompt) >= 1
      /\ paged' = paged /\ trimmable' = trimmable /\ step' = step /\ store' = store /\ req' = req
      /\ fetch' = fetch /\ last' = last /\ prompt' = prompt /\ cache' = cache /\ owed' = owed
      /\ cut' = cut
    BY DEF Start, server
<1>3. Len(cache) \in 0 .. Len(req) /\ Len(req) \in Nat /\ Len(prompt) = Len(req) - Len(cache)
    <2>1. Len(cache) \in 0 .. Len(req) /\ Len(req) \in Nat
        BY <1>1, LenProperties DEF PType, Parted, Texts
    <2> QED BY <1>1, <2>1, CutAt DEF PType, Parted
<1>4. base' = Len(cache)
    BY <1>1, <1>2, <1>3 DEF Base
<1>5. HistoryEnd(prompt) \in Nat \ {0} /\ step \in Nat \ {0}
    <2>1. HistoryEnd(prompt) \in Int
        BY <1>1, HistoryEndType DEF PType
    <2>2. step \in Nat \ {0}
        BY <1>1, PrefillAssumption DEF PType
    <2> QED BY <1>2, <2>1, <2>2
<1>6. /\ todo' \in Seq(Nat \ {0}) /\ Total(todo') = HistoryEnd(prompt)
      /\ (Len(todo') - 1) * step < HistoryEnd(prompt)
      /\ \A i, j \in 1 .. Len(todo') : i <= j => todo'[i] - todo'[j] \in {0, 1}
      /\ \A i \in 1 .. Len(todo') : 4 * todo'[i] <= 5 * step
    BY <1>2, <1>5, ChunksRight
<1>7. Done' = 0
    BY <1>2, <1>5, <1>6 DEF Done
<1>8. PType'
    BY <1>1, <1>2, <1>3, <1>4, <1>6 DEF PType
<1>9. Computing'
    <2>1. base' + Done' = Len(cache) /\ base' <= Len(req)
        BY <1>3, <1>4, <1>7
    <2> QED BY <1>1, <1>2, <1>4, <1>5, <1>6, <1>7, <2>1 DEF Computing, Parted
<1>10. (Asked /\ Restored /\ Rest /\ StoredExact)'
    BY <1>1, <1>2 DEF Asked, Restored, Rest, StoredExact
<1> QED BY <1>4, <1>7, <1>8, <1>9, <1>10 DEF PInv

\* How far a prefill has come.
LEMMA DoneRight ==
    ASSUME PInv, pc = "chunks"
    PROVE  /\ base \in 0 .. Len(req) /\ Len(req) \in Nat /\ Len(prompt) = Len(req) - base
           /\ HistoryEnd(prompt) \in 1 .. Len(req) - base
           /\ Done \in 0 .. HistoryEnd(prompt) /\ todo \in Seq(Int)
           /\ Total(todo) = HistoryEnd(prompt) - Done /\ Len(todo) <= Total(todo)
           /\ todo = <<>> => Done = HistoryEnd(prompt)
           /\ Len(cache) = base + Done
<1>1. PType /\ Computing
    BY DEF PInv
<1>2. base \in 0 .. Len(req) /\ Len(req) \in Nat
    BY <1>1, LenProperties DEF PType, Computing, Texts
<1>3. prompt \in Texts /\ Len(prompt) = Len(req) - base
    BY <1>1, <1>2, CutAt DEF PType, Computing
<1>4. HistoryEnd(prompt) \in 1 .. Len(req) - base
    BY <1>1, <1>2, <1>3, HistoryEndType DEF Computing
<1>5. todo \in Seq(Nat \ {0}) /\ todo \in Seq(Int)
    BY <1>1, SeqMonotonic DEF PType
<1>6. Total(todo) \in Nat /\ Len(todo) <= Total(todo)
    BY <1>5, SumPositive
<1>7. Done = HistoryEnd(prompt) - Total(todo) /\ Done >= 0
    BY <1>1 DEF Done, Computing
<1>8. Done \in 0 .. HistoryEnd(prompt) /\ Total(todo) = HistoryEnd(prompt) - Done
    BY <1>2, <1>4, <1>6, <1>7
<1>9. todo = <<>> => Total(todo) = 0
    <2>1. <<>> \in Seq(Int) /\ 0 \in Int
        BY EmptySeq
    <2> QED BY <2>1, SumAppend
<1>10. Len(cache) = base + Done
    <2>1. base + Done \in 0 .. Len(req)
        BY <1>2, <1>4, <1>8
    <2> QED BY <1>1, <2>1, CutAt DEF PType, Computing
<1>11. todo = <<>> => Done = HistoryEnd(prompt)
    BY <1>2, <1>4, <1>8, <1>9
<1> QED BY <1>2, <1>3, <1>4, <1>5, <1>6, <1>8, <1>10, <1>11

LEMMA ChunkStep ==
    ASSUME PInv, Chunk
    PROVE  /\ PInv' /\ base' = base /\ Done' = Done + Head(todo) /\ Head(todo) \in Nat \ {0}
           /\ Done' \in 1 .. HistoryEnd(prompt)
           /\ store \subseteq store'
           /\ \A e \in store' : e \in store \/ Len(e.key) = base + Done'
           /\ paged => Take(req, base + Done') \in Keys'
<1>1. PType /\ Asked /\ Computing /\ StoredExact /\ pc = "chunks" /\ todo # <<>>
    BY DEF PInv, Chunk
<1> DEFINE n == Head(todo)
           d == Done + n
           k == Take(req, base + d)
<1>2. /\ paged' = paged /\ trimmable' = trimmable /\ step' = step /\ req' = req
      /\ fetch' = fetch /\ last' = last /\ prompt' = prompt /\ base' = base /\ owed' = owed
      /\ pc' = pc /\ todo' = Tail(todo)
      /\ cache' = cache \o SubSeq(prompt, Done + 1, d)
      /\ store' = IF paged /\ k \notin Keys THEN store \cup {Entry(k, cache')} ELSE store
      /\ cut' = IF paged THEN base + d ELSE cut
    BY DEF Chunk, server
<1>3. /\ n \in Nat \ {0} /\ Tail(todo) \in Seq(Nat \ {0}) /\ Len(Tail(todo)) = Len(todo) - 1
      /\ Len(todo) \in Nat \ {0}
      /\ \A i \in 1 .. Len(todo) - 1 : Tail(todo)[i] = todo[i + 1]
    BY <1>1, HeadTailProperties, EmptySeq DEF PType
<1>4. /\ base \in 0 .. Len(req) /\ Len(req) \in Nat
      /\ HistoryEnd(prompt) \in 1 .. Len(req) - base
      /\ Done \in 0 .. HistoryEnd(prompt)
      /\ Total(todo) = HistoryEnd(prompt) - Done
    BY <1>1, DoneRight
<1>5. Total(todo) = n + Total(Tail(todo)) /\ Total(Tail(todo)) \in Nat
    <2>1. todo \in Seq(Int)
        BY <1>1, DoneRight
    <2> QED BY <1>1, <1>3, <2>1, SumHead, SumPositive
<1>6. Done' = HistoryEnd(prompt) - Total(Tail(todo))
    BY <1>2 DEF Done
<1> HIDE DEF n
<1>7. Done' = d /\ d \in 1 .. HistoryEnd(prompt)
    <2> DEFINE h == HistoryEnd(prompt)
               m == Total(Tail(todo))
    <2>1. h \in Nat /\ Done \in 0 .. h /\ m \in Nat /\ h - Done = n + m /\ Done' = h - m
        BY <1>4, <1>5, <1>6
    <2> HIDE DEF h, m
    <2>2. Done' = Done + n /\ Done + n \in 1 .. h
        BY <1>3, <2>1
    <2> QED BY <2>2 DEF h
<1>8. cache' = k /\ k \in Texts /\ Len(k) = base + d /\ base + d \in Nat
    <2>1. /\ Done \in 0 .. Len(req) - base /\ d \in Done .. Len(req) - base
          /\ base + d \in 0 .. Len(req)
        BY <1>3, <1>4, <1>7, SMTT(40)
    <2>2. cache = Take(req, base + Done) /\ prompt = Drop(req, base) /\ req \in Texts
        BY <1>1 DEF Computing, PType
    <2>3. Take(req, base + Done) \o SubSeq(Drop(req, base), Done + 1, d) = Take(req, base + d)
        BY <1>4, <2>1, <2>2, CutFurther
    <2>4. cache' = k
        BY <1>2, <2>2, <2>3
    <2>5. k \in Texts /\ Len(k) = base + d
        BY <2>1, <2>2, CutAt
    <2>6. base + d \in Nat
        BY <1>4, <2>1
    <2> QED BY <2>4, <2>5, <2>6
<1> HIDE DEF d
<1>9. \A e \in store' : e \in store \/ e = Entry(k, k)
    BY <1>2, <1>8
<1>10. store \subseteq store' /\ (paged => k \in Keys')
    <2>1. store \subseteq store'
        BY <1>2
    <2>2. CASE paged /\ k \notin Keys
        <3>1. Entry(k, cache') \in store' /\ Entry(k, cache').key = k
            BY <1>2, <2>2 DEF Entry
        <3> QED BY <2>1, <3>1 DEF Keys
    <2>3. CASE paged /\ k \in Keys
        BY <1>2, <2>3 DEF Keys
    <2> QED BY <2>1, <2>2, <2>3
<1> HIDE DEF k
<1>11. /\ StoredExact' /\ \A e \in store' : e.key \in Texts /\ e.from \in Nat
       /\ \A e \in store' : e \in store \/ Len(e.key) = base + d
    <2>1. ASSUME NEW e \in store'
          PROVE  /\ e.key = e.held /\ e.key \in Texts /\ e.from \in Nat
                 /\ e \in store \/ Len(e.key) = base + d
        <3>1. CASE e \in store
            BY <1>1, <3>1 DEF PType, StoredExact
        <3>2. CASE e = Entry(k, k)
            BY <1>1, <1>8, <3>2 DEF Entry, PType
        <3> QED BY <1>9, <3>1, <3>2
    <2> QED BY <2>1 DEF StoredExact
<1>12. PType'
    BY <1>1, <1>2, <1>3, <1>8, <1>11 DEF PType
<1>13. Computing'
    <2>1. /\ base' <= Len(req') /\ prompt' = Drop(req', base') /\ HistoryEnd(prompt') >= 1
          /\ ~paged' => fetch' = req'
        BY <1>1, <1>2 DEF Computing
    <2>2. cache' = Take(req', base' + Done')
        BY <1>2, <1>7, <1>8 DEF k
    <2>3. ASSUME NEW i \in 1 .. Len(todo'), NEW j \in 1 .. Len(todo'), i <= j
          PROVE  todo'[i] - todo'[j] \in {0, 1}
        <3>1. /\ i + 1 \in 1 .. Len(todo) /\ j + 1 \in 1 .. Len(todo) /\ i + 1 <= j + 1
              /\ todo'[i] = todo[i + 1] /\ todo'[j] = todo[j + 1]
            BY <1>2, <1>3, <2>3
        <3> QED BY <1>1, <3>1 DEF Computing
    <2>4. ASSUME NEW i \in 1 .. Len(todo') PROVE 4 * todo'[i] <= 5 * step'
        <3>1. i + 1 \in 1 .. Len(todo) /\ todo'[i] = todo[i + 1]
            BY <1>2, <1>3
        <3> QED BY <1>1, <1>2, <3>1 DEF Computing
    <2>5. Done' >= 0 /\ Done' # 0
        BY <1>4, <1>7
    <2> QED BY <2>1, <2>2, <2>3, <2>4, <2>5 DEF Computing
<1>14. (Asked /\ Restored /\ Rest)'
    BY <1>1, <1>2 DEF Asked, Restored, Rest
<1> QED BY <1>2, <1>3, <1>7, <1>10, <1>11, <1>12, <1>13, <1>14 DEF PInv, n, d, k

LEMMA StopStep ==
    ASSUME PInv, Stop
    PROVE  /\ PInv' /\ store \subseteq store' /\ Len(cache') = base + HistoryEnd(prompt)
           /\ Done = HistoryEnd(prompt)
           /\ paged => store' = store
           /\ ~paged /\ Copied(Len(cache)) => Take(req, Len(cache')) \in Keys'
<1>1. PType /\ Asked /\ Computing /\ StoredExact /\ pc = "chunks" /\ todo = <<>>
    BY DEF PInv, Stop
<1> DEFINE h == HistoryEnd(prompt)
<1>2. /\ paged' = paged /\ trimmable' = trimmable /\ step' = step /\ req' = req /\ fetch' = <<>>
      /\ last' = last /\ cache' = cache /\ base' = base /\ todo' = todo /\ owed' = owed
      /\ cut' = cut
      /\ pc' = "rest" /\ store' = Snapshot(base + h) /\ prompt' = SubSeq(prompt, h + 1, Len(prompt))
    BY DEF Stop, server
<1>3. /\ base \in 0 .. Len(req) /\ Len(req) \in Nat /\ h \in 1 .. Len(req) - base
      /\ Done = h /\ Len(cache) = base + h
    BY <1>1, DoneRight
<1> HIDE DEF h
<1>4. cache = Take(req, base + h) /\ prompt = Drop(req, base) /\ (~paged => fetch = req)
    BY <1>1, <1>3 DEF Computing
<1>5. prompt' = Drop(req, base + h) /\ prompt' \in Texts
    <2>1. h \in 0 .. Len(req) - base /\ base + h \in 0 .. Len(req) /\ h \in h .. Len(req) - base
        BY <1>3
    <2>2. SubSeq(Drop(req, base), h + 1, Len(Drop(req, base))) = Drop(req, base + h)
        BY <1>1, <1>3, <2>1, CutFurther DEF PType
    <2>3. Drop(req, base + h) \in Texts
        BY <1>1, <2>1, CutAt DEF PType
    <2> QED BY <1>2, <1>4, <2>2, <2>3
<1>6. Parted'
    BY <1>2, <1>3, <1>4, <1>5 DEF Parted
<1>7. store' = IF ~paged /\ fetch # <<>> /\ Copied(Len(cache))
               THEN store \cup {Entry(cache, cache)} ELSE store
    BY <1>2, <1>3, <1>4 DEF Snapshot
<1>8. \A e \in store' : e.key \in Texts /\ e.from \in Nat /\ e.key = e.held
    BY <1>1, <1>7 DEF PType, StoredExact, Entry
<1>9. store \subseteq store' /\ (paged => store' = store)
    BY <1>7
<1>10. ~paged /\ Copied(Len(cache)) => Take(req, Len(cache')) \in Keys'
    <2> SUFFICES ASSUME ~paged, Copied(Len(cache)) PROVE cache \in Keys'
        BY <1>2, <1>3, <1>4
    <2>1. fetch # <<>>
        BY <1>1, <1>4 DEF Asked
    <2>2. Entry(cache, cache) \in store' /\ Entry(cache, cache).key = cache
        BY <1>7, <2>1 DEF Entry
    <2> QED BY <2>2 DEF Keys
<1>11. PType'
    BY <1>1, <1>2, <1>5, <1>8, EmptySeq DEF PType, Texts
<1>12. (Asked /\ Restored /\ Computing /\ Rest /\ StoredExact)'
    BY <1>1, <1>2, <1>6, <1>8 DEF Asked, Restored, Computing, Rest, StoredExact
<1> QED BY <1>2, <1>3, <1>9, <1>10, <1>11, <1>12 DEF PInv, h

LEMMA NothingBeforeStep ==
    ASSUME PInv, NothingBefore
    PROVE  /\ PInv' /\ Parted /\ pc = "fetched" /\ HistoryEnd(prompt) < 1 /\ pc' = "rest"
           /\ UNCHANGED <<paged, trimmable, store, req, cache, base, todo, prompt, owed>>
<1>1. /\ paged' = paged /\ trimmable' = trimmable /\ step' = step /\ req' = req /\ fetch' = <<>>
      /\ last' = last /\ cache' = cache /\ base' = base /\ todo' = todo /\ owed' = owed
      /\ cut' = cut
      /\ pc' = "rest" /\ store' = store /\ prompt' = prompt
      /\ pc = "fetched" /\ HistoryEnd(prompt) < 1
    BY DEF NothingBefore, server
<1>2. PType /\ Asked /\ Parted /\ StoredExact
    BY <1>1 DEF PInv, Restored
<1>3. Parted'
    BY <1>1, <1>2 DEF Parted
<1>4. PType'
    BY <1>1, <1>2, EmptySeq DEF PType, Texts
<1>5. (Asked /\ Restored /\ Computing /\ Rest /\ StoredExact)'
    BY <1>1, <1>2, <1>3 DEF Asked, Restored, Computing, Rest, StoredExact
<1> QED BY <1>1, <1>2, <1>4, <1>5 DEF PInv

LEMMA AnswerStep ==
    ASSUME PInv, NEW a \in Texts, a = Message("reply", 1), Answer(a)
    PROVE  /\ PInv' /\ pc = "rest" /\ pc' = "idle" /\ owed' = Leaves(req)
           /\ paged' = paged /\ trimmable' = trimmable /\ req' = req
           /\ store' = IF paged /\ req \o a \in Keys THEN store
                       ELSE {e \in store : e.key # req \o a} \cup {Entry(req \o a, req \o a)}
<1>1. /\ paged' = paged /\ trimmable' = trimmable /\ step' = step /\ req' = req /\ fetch' = fetch
      /\ last' = last /\ cache' = <<>> /\ base' = 0 /\ todo' = todo /\ owed' = Leaves(req)
      /\ pc = "rest" /\ pc' = "idle" /\ prompt' = <<>>
      /\ cut' = cut
      /\ store' = IF paged /\ req \o a \in Keys THEN store
                  ELSE {e \in store : e.key # req \o a} \cup {Entry(req \o a, cache \o prompt \o a)}
    BY DEF Answer, server
<1>2. PType /\ Asked /\ Parted /\ StoredExact
    BY <1>1 DEF PInv, Rest
<1>3. cache \o prompt = req /\ req \o a \in Texts
    BY <1>2, PartsWhole, ConcatProperties DEF PType, Texts
<1>4. store' = IF paged /\ req \o a \in Keys THEN store
               ELSE {e \in store : e.key # req \o a} \cup {Entry(req \o a, req \o a)}
    BY <1>1, <1>3
<1>5. ASSUME NEW e \in store'
      PROVE  e.key \in Texts /\ e.from \in Nat /\ e.key = e.held
    <2>1. CASE e \in store
        BY <1>2, <2>1 DEF PType, StoredExact
    <2>2. CASE e = Entry(req \o a, req \o a)
        BY <1>2, <1>3, <2>2 DEF Entry, PType
    <2> QED BY <1>4, <2>1, <2>2
<1>6. Leaves(req) \in Texts
    <2>1. <<>> \in Texts
        BY EmptySeq DEF Texts
    <2> QED BY <1>2, <2>1, HistoryType DEF Leaves, PType
<1>7. PType'
    <2>1. <<>> \in Texts
        BY EmptySeq DEF Texts
    <2> QED BY <1>1, <1>2, <1>5, <1>6, <2>1 DEF PType
<1>8. (Asked /\ Restored /\ Computing /\ Rest /\ StoredExact)'
    BY <1>1, <1>2, <1>5 DEF Asked, Restored, Computing, Rest, StoredExact
<1> QED BY <1>1, <1>4, <1>7, <1>8 DEF PInv

\* What leaves the request and at most takes from the store.
LEMMA IdleStep ==
    ASSUME PInv, Abort \/ \E e \in store : Forget(e)
    PROVE  PInv' /\ pc' = "idle" /\ owed' = <<>>
<1>1. <<>> \in Texts /\ <<>> \in Seq(Nat \ {0})
    BY EmptySeq DEF Texts
<1>2. PType /\ Asked /\ StoredExact
    BY DEF PInv
<1>3. CASE Abort
    <2>1. /\ paged' = paged /\ trimmable' = trimmable /\ step' = step /\ req' = req /\ fetch' = fetch
          /\ last' = last /\ cache' = <<>> /\ base' = 0 /\ todo' = <<>> /\ owed' = <<>>
          /\ pc' = "idle" /\ prompt' = <<>> /\ store' = store /\ cut' = cut
        BY <1>3 DEF Abort, server
    <2>2. PType'
        BY <1>1, <1>2, <2>1 DEF PType
    <2>3. (Asked /\ Restored /\ Computing /\ Rest /\ StoredExact)'
        BY <1>2, <2>1 DEF Asked, Restored, Computing, Rest, StoredExact
    <2> QED BY <2>1, <2>2, <2>3 DEF PInv
<1>4. ASSUME NEW e \in store, Forget(e) PROVE PInv' /\ pc' = "idle" /\ owed' = <<>>
    <2>1. /\ paged' = paged /\ trimmable' = trimmable /\ step' = step /\ req' = req /\ fetch' = fetch
          /\ last' = last /\ cache' = cache /\ base' = base /\ todo' = todo /\ owed' = <<>>
          /\ pc = "idle" /\ pc' = pc /\ prompt' = prompt /\ store' = store \ {e} /\ cut' = cut
        BY <1>4 DEF Forget, server
    <2>2. PType'
        BY <1>1, <1>2, <2>1 DEF PType
    <2>3. (Asked /\ Restored /\ Computing /\ Rest /\ StoredExact)'
        BY <1>2, <2>1 DEF Asked, Restored, Computing, Rest, StoredExact
    <2> QED BY <2>1, <2>2, <2>3 DEF PInv
<1> QED BY <1>3, <1>4

\* A request of Request's is one of those that end with the tail.
LEMMA RequestFacts ==
    ASSUME PInv, Request
    PROVE  \E t \in Texts : t # <<>> /\ EndsInTail(t) /\ Fetch(t)
<1>1. PICK w \in Words, n \in Lengths :
        \E t \in {Opening(w, n), req}
                 \cup (IF req = <<>> THEN {} ELSE {NextTurn(tail, w, n) : tail \in {Suffix, <<>>}}) :
            t # <<>> /\ Fetch(t)
    BY DEF Request
<1>2. PICK t \in {Opening(w, n), req}
                 \cup (IF req = <<>> THEN {} ELSE {NextTurn(tail, w, n) : tail \in {Suffix, <<>>}}) :
            t # <<>> /\ Fetch(t)
    BY <1>1
<1>3. req \in Texts /\ (req # <<>> => EndsInTail(req))
    BY DEF PInv, PType, Asked
<1>4. t \in Texts /\ EndsInTail(t)
    BY <1>2, <1>3, PromptsEnd
<1> QED BY <1>2, <1>4

LEMMA ReplyText ==
    Message("reply", 1) \in Texts
BY DEF Message, Texts, Tokens

LEMMA PartedStep == PInv /\ [Next]_vars => PInv'
<1> SUFFICES ASSUME PInv, [Next]_vars PROVE PInv'
    OBVIOUS
<1>1. CASE Request
    BY <1>1, RequestFacts, FetchFacts
<1>2. CASE NothingBefore
    BY <1>2, NothingBeforeStep
<1>3. CASE Start
    BY <1>3, StartStep
<1>4. CASE Chunk
    BY <1>4, ChunkStep
<1>5. CASE Stop
    BY <1>5, StopStep
<1>6. CASE Answer(Message("reply", 1))
    BY <1>6, ReplyText, AnswerStep
<1>7. CASE Abort \/ \E e \in store : Forget(e)
    BY <1>7, IdleStep
<1>8. CASE UNCHANGED vars
    BY <1>8 DEF vars, server, PInv, PType, Asked, Restored, Computing, Rest, StoredExact,
                Parted, Done
<1> QED BY <1>1, <1>2, <1>3, <1>4, <1>5, <1>6, <1>7, <1>8 DEF Next

-----------------------------------------------------------------------------
(* Histories.                                                              *)

\* A prompt is at least as long as what follows its history.
LEMMA HistoryTail ==
    ASSUME NEW t \in Texts, t # <<>>, EndsInTail(t)
    PROVE  /\ Left \in Nat \ {0} /\ Len(t) - Left \in 0 .. Len(t) - 1 /\ Len(t) \in Nat
           /\ History(t) = Take(t, Len(t) - Left) /\ History(t) \in Texts
           /\ Len(History(t)) = Len(t) - Left
<1>1. Len(t) \in Nat \ {0} /\ SuffixLen \in Nat /\ Len(t) >= SuffixLen
    BY TailText, EmptySeq, LenProperties DEF Texts, EndsInTail
<1>2. Left \in Nat \ {0} /\ Left <= Len(t)
    BY <1>1 DEF Left
<1> QED BY <1>2, HistoryType

\* What is left of a prompt ends in the tail unless it is shorter.
LEMMA TailOfRest ==
    ASSUME NEW t \in Texts, t # <<>>, EndsInTail(t), NEW c \in 0 .. Len(t)
    PROVE  /\ c <= Len(t) - Left => HistoryEnd(Drop(t, c)) = Len(t) - c - Left
           /\ HistoryEnd(Drop(t, c)) < 1 => c >= Len(t) - Left
<1>1. /\ Len(t) \in Nat /\ SuffixLen \in Nat /\ Left \in Nat \ {0} /\ Len(Suffix) = SuffixLen
      /\ Suffix \in Texts /\ Len(t) - SuffixLen >= 0
    BY TailText, HistoryTail DEF EndsInTail
<1>2. Len(Drop(t, c)) = Len(t) - c
    BY CutAt
<1>3. ASSUME c <= Len(t) - Left
      PROVE  HistoryEnd(Drop(t, c)) = Len(t) - c - Left
    <2>1. CASE SuffixLen = 0
        <3>1. Suffix = <<>> /\ Left = 1
            BY <1>1, <2>1, EmptySeq DEF Left, Texts
        <3> QED BY <1>2, <3>1 DEF HistoryEnd
    <2>2. CASE SuffixLen > 0
        <3>1. Suffix # <<>> /\ Left = SuffixLen
            BY <1>1, <2>2, EmptySeq DEF Left, Texts
        <3> DEFINE d == Len(t) - c - SuffixLen
        <3>2. d \in 0 .. Len(t) - c /\ c + d = Len(t) - SuffixLen /\ d \in d .. Len(t) - c
            BY <1>1, <1>3, <3>1
        <3>3. SubSeq(Drop(t, c), d + 1, Len(Drop(t, c))) = Drop(t, c + d)
            BY <3>2, CutFurther
        <3>4. Drop(t, c + d) = Suffix
            BY <1>1, <3>2 DEF EndsInTail, Drop
        <3>5. Len(Drop(t, c)) - SuffixLen + 1 = d + 1 /\ Len(Drop(t, c)) >= SuffixLen
            BY <1>1, <1>2, <1>3, <3>1
        <3>6. EndsInTail(Drop(t, c))
            BY <3>3, <3>4, <3>5 DEF EndsInTail
        <3> QED BY <1>1, <1>2, <3>1, <3>6 DEF HistoryEnd
    <2> QED BY <1>1, <2>1, <2>2
<1> QED BY <1>1, <1>3

LEMMA TakeStrict ==
    ASSUME NEW t \in Texts, NEW n \in 0 .. Len(t) - 1
    PROVE  IsStrictPrefix(Take(t, n), t)
<1>1. Len(t) \in Nat /\ n \in 0 .. Len(t)
    BY LenProperties DEF Texts
<1>2. Len(Take(t, n)) = n /\ IsPrefix(Take(t, n), t)
    BY <1>1, CutAt, TakePrefix
<1>3. Take(t, n) # t
    BY <1>1, <1>2
<1> QED BY <1>2, <1>3 DEF IsStrictPrefix

\* What the paged cache restores of t, from the longest key used whole on, it
\* would restore of any t that goes on from there.
LEMMA WholeHeld ==
    ASSUME PType, paged, NEW t \in Texts, t # <<>>, NEW m \in 1 .. Len(t) - 1,
           Whole(t) <= m, m <= Found(t)
    PROVE  Holds(store, Take(t, m))
<1> DEFINE w == Whole(t)
           h == Take(t, m)
<1>1. /\ w \in 0 .. Len(t) - 1 /\ Len(t) \in Nat \ {0}
      /\ \A e \in store : e.key \in Texts /\ (IsStrictPrefix(e.key, t) => Len(e.key) <= w)
      /\ w > 0 => Take(t, w) \in Keys
    BY WholeMost DEF PType
<1>2. /\ h \in Texts /\ Len(h) = m /\ m \in 0 .. Len(t)
      /\ \A x \in 0 .. m : Take(h, x) = Take(t, x)
    <2>1. m \in 0 .. Len(t)
        BY <1>1
    <2> QED BY <2>1, CutAt
<1>3. CASE w = m
    <2>1. h \in Keys
        BY <1>1, <1>3
    <2> QED BY <2>1 DEF Holds, Keys
<1>4. CASE w < m
    <2>1. Found(t) \in 0 .. Len(t) /\ Found(t) > w
        BY <1>1, <1>4, FoundMost DEF PType
    <2>2. PICK e \in store : Gives(e, t) = Found(t)
        BY <1>1, <2>1, FoundMost
    <2>3. trimmable /\ Succeeds(e, t)
        BY <1>1, <2>1, <2>2 DEF Gives
    <2>4. e.from = w
        BY <2>3 DEF Succeeds
    <2>5. /\ e.key \in Texts /\ Found(t) \in 0 .. Len(e.key) /\ Len(e.key) \in Nat
          /\ Take(e.key, Found(t)) = Take(t, Found(t))
        <3>1. e.key \in Texts /\ Len(e.key) \in Nat
            BY <1>1, LenProperties DEF Texts
        <3> QED BY <2>1, <2>2, <3>1, GivesRight
    <2>6. m \in 0 .. Found(t) /\ m \in 0 .. Len(e.key)
        BY <1>1, <2>1, <2>5
    <2>7. Take(e.key, m) = h
        BY <2>1, <2>5, <2>6, CutAt
    <2>8. IsPrefix(h, e.key)
        BY <2>5, <2>6, <2>7, TakePrefix
    <2>9. Nearest(store, h, w)
        <3>1. w = 0 \/ \E d \in store : d.key = Take(h, w)
            BY <1>1, <1>2, <1>4 DEF Keys
        <3>2. ASSUME NEW d \in store, IsStrictPrefix(d.key, h)
              PROVE  Len(d.key) <= w
            <4>1. /\ d.key \in Texts /\ Len(d.key) \in 0 .. m - 1
                  /\ d.key = Take(h, Len(d.key))
                BY <1>1, <1>2, <3>2, StrictLonger DEF IsStrictPrefix
            <4>2. d.key = Take(t, Len(d.key)) /\ Len(d.key) \in 0 .. Len(t) - 1
                BY <1>1, <1>2, <4>1
            <4>3. IsStrictPrefix(d.key, t)
                BY <4>2, TakeStrict
            <4> QED BY <1>1, <4>3
        <3> QED BY <3>1, <3>2 DEF Nearest
    <2> QED BY <1>2, <1>4, <2>3, <2>4, <2>8, <2>9 DEF Holds
<1> QED BY <1>1, <1>3, <1>4

\* Entries as long as the history or longer do not come before it.
LEMMA HoldsGrows ==
    ASSUME NEW s, NEW u, s \subseteq u, NEW h \in Texts, Holds(s, h),
           \A e \in u : e.key \in Texts,
           \A e \in u : e \in s \/ Len(e.key) >= Len(h)
    PROVE  Holds(u, h)
<1>1. \A d \in u : IsStrictPrefix(d.key, h) => d \in s
    <2> SUFFICES ASSUME NEW d \in u, IsStrictPrefix(d.key, h), ~(d \in s) PROVE FALSE
        OBVIOUS
    <2>1. Len(d.key) \in 0 .. Len(h) - 1 /\ Len(h) \in Nat /\ Len(d.key) >= Len(h)
        BY StrictLonger, LenProperties DEF Texts
    <2> QED BY <2>1
<1>2. \A n : Nearest(s, h, n) => Nearest(u, h, n)
    BY <1>1 DEF Nearest
<1> QED BY <1>2 DEF Holds

\* A request that repeats a history the store holds restores it.
LEMMA HistoryFound ==
    ASSUME PInv, NEW t \in Texts, t # <<>>, EndsInTail(t), Fetch(t),
           owed # <<>> /\ ~late => Holds(store, owed)
    PROVE  HistoryRestored'
<1>1. /\ store' = store /\ owed' = owed /\ trimmable' = trimmable /\ req' = t
      /\ late' = late /\ Len(cache') = Found(t)
    BY FetchFacts DEF Fetch, server
<1>2. PType
    BY DEF PInv
<1>3. /\ Found(t) \in 0 .. Len(t)
      /\ \A e \in store : Gives(e, t) <= Found(t) /\ e.key \in Texts /\ e.from \in Nat
    BY <1>2, FoundMost DEF PType
<1> SUFFICES ASSUME owed # <<>>, IsStrictPrefix(owed, t), ~late
             PROVE  Len(cache') >= Len(owed)
    BY <1>1 DEF HistoryRestored, NextTurnWhole
<1> DEFINE h == Len(owed)
           w == Whole(t)
<1>4. h \in 0 .. Len(t) - 1 /\ Len(t) \in Nat /\ owed = Take(t, h) /\ owed \in Texts
    BY <1>2, StrictLonger, LenProperties DEF PType, Texts, IsStrictPrefix
<1>5. \A n \in 0 .. h : Take(owed, n) = Take(t, n)
    <2>1. h \in 0 .. Len(t)
        BY <1>4
    <2>2. \A n \in 0 .. h : Take(Take(t, h), n) = Take(t, n)
        BY <2>1, CutAt
    <2> QED BY <1>4, <2>2
<1> SUFFICES Found(t) >= h
    BY <1>1
<1>6. \A e \in store : Gives(e, t) \in Nat
    BY <1>3, GivesRight
<1>7. PICK e \in store :
        \/ e.key = owed
        \/ /\ trimmable /\ IsPrefix(owed, e.key)
           /\ paged => e.from < h /\ Nearest(store, owed, e.from)
    BY DEF Holds
<1> HIDE DEF h
<1>8. CASE e.key = owed
    <2>1. Gives(e, t) >= h
        BY <1>3, <1>8, GivesWhole DEF h
    <2> QED BY <1>3, <1>4, <1>6, <2>1
<1>9. ASSUME trimmable, IsPrefix(owed, e.key), paged => Succeeds(e, t)
      PROVE  Found(t) >= h
    <2>1. e.key \in Texts /\ h \in 0 .. Len(e.key) /\ owed = Take(e.key, h)
        BY <1>3, <1>4, <1>9, StrictLonger DEF h
    <2>2. Gives(e, t) >= h
        <3>1. Len(e.key) \in Nat /\ h <= Len(e.key)
            BY <2>1, LenProperties DEF Texts
        <3>2. Take(e.key, h) = Take(t, h)
            BY <1>4, <2>1
        <3> QED BY <1>4, <1>9, <2>1, <3>1, <3>2, GivesShared
    <2> QED BY <1>3, <1>4, <1>6, <2>2
<1>10. CASE trimmable /\ IsPrefix(owed, e.key) /\ paged /\ e.from < h /\ Nearest(store, owed, e.from)
    <2>1. /\ w \in 0 .. Len(t) - 1
          /\ \A d \in store : IsStrictPrefix(d.key, t) => Len(d.key) <= w
          /\ w > 0 => \E d \in store : d.key = Take(t, w)
        BY <1>3, WholeMost DEF Keys
    <2> HIDE DEF w
    <2>2. CASE w >= h
        <3>1. CASE w = 0
            BY <1>3, <1>4, <2>1, <2>2, <3>1
        <3>2. CASE w > 0
            <4>1. PICK d \in store : d.key = Take(t, w)
                BY <2>1, <3>2
            <4>2. IsStrictPrefix(d.key, t) /\ Len(d.key) = w
                <5>1. w \in 0 .. Len(t)
                    BY <1>4, <2>1
                <5> QED BY <2>1, <4>1, <5>1, TakeStrict, CutAt
            <4>3. Gives(d, t) >= w
                BY <1>3, <4>2, GivesWhole
            <4> QED BY <1>3, <1>4, <1>6, <2>1, <2>2, <4>3
        <3> QED BY <2>1, <3>1, <3>2
    <2>3. CASE w < h
        <3>1. e.from \in Nat /\ e.from <= w
            <4>1. CASE e.from = 0
                BY <2>1, <4>1
            <4>2. CASE e.from # 0
                <5>1. PICK d \in store : d.key = Take(owed, e.from)
                    BY <1>10, <4>2 DEF Nearest
                <5>2. e.from \in 0 .. h /\ e.from \in 0 .. Len(t) - 1 /\ e.from \in 0 .. Len(t)
                    BY <1>3, <1>4, <1>10
                <5>3. d.key = Take(t, e.from) /\ Len(d.key) = e.from
                    BY <1>5, <5>1, <5>2, CutAt
                <5>4. IsStrictPrefix(d.key, t)
                    BY <5>2, <5>3, TakeStrict
                <5> QED BY <1>3, <2>1, <5>3, <5>4
            <4> QED BY <4>1, <4>2
        <3>2. w <= e.from
            <4>1. CASE w = 0
                BY <3>1, <4>1
            <4>2. CASE w > 0
                <5>1. PICK d \in store : d.key = Take(t, w)
                    BY <2>1, <4>2
                <5>2. w \in 0 .. h - 1 /\ w \in 0 .. h /\ h \in Nat
                    BY <1>4, <2>1, <2>3
                <5>3. d.key = Take(owed, w) /\ h = Len(owed)
                    BY <1>5, <5>1, <5>2 DEF h
                <5>4. Len(d.key) = w /\ IsStrictPrefix(d.key, owed)
                    BY <1>4, <5>2, <5>3, CutAt, TakeStrict
                <5> QED BY <1>10, <5>4 DEF Nearest
            <4> QED BY <2>1, <4>1, <4>2
        <3>3. e.from = w
            BY <2>1, <3>1, <3>2
        <3>4. e.key \in Texts /\ h \in 0 .. Len(e.key) /\ owed = Take(e.key, h) /\ Len(e.key) \in Nat
            BY <1>3, <1>4, <1>10, StrictLonger, LenProperties DEF h, Texts
        <3>5. w \in 0 .. h /\ w \in 0 .. Len(e.key)
            BY <2>1, <2>3, <3>4
        <3>6. Take(e.key, w) = Take(t, w)
            BY <1>5, <3>4, <3>5, CutAt
        <3>7. IsPrefix(Take(t, w), e.key)
            BY <3>4, <3>5, <3>6, TakePrefix
        <3> QED BY <1>9, <1>10, <3>3, <3>7 DEF Succeeds, w
    <2> QED BY <1>4, <2>1, <2>2, <2>3
<1> QED BY <1>7, <1>8, <1>9, <1>10

\* Points survives a step that starts or goes on with a prefill.
LEMMA PointsStep ==
    ASSUME HInv, PInv', [Next]_vars
    PROVE  Points'
<1>1. PInv /\ PType /\ Points
    BY DEF HInv, PInv
<1>2. CASE Request
    <2>1. PICK t \in Texts : t # <<>> /\ EndsInTail(t) /\ Fetch(t)
        BY <1>1, <1>2, RequestFacts
    <2>2. /\ pc' = "fetched" /\ req' = t /\ Len(cache') = Found(t)
          /\ had' = IF paged THEN Whole(t) ELSE Found(t)
          /\ ~trimmable /\ Found(t) > 0 => Take(t, Found(t)) \in Keys
        BY <1>1, <2>1, FetchFacts
    <2>3. trimmable' = trimmable /\ paged' = paged /\ store' = store
        BY <2>1 DEF Fetch, server
    <2>4. Found(t) \in 0 .. Len(t) /\ Len(t) \in Nat /\ Whole(t) \in 0 .. Len(t) - 1
        BY <1>1, <2>1, FoundMost, WholeMost DEF PType
    <2>5. /\ Len(t) - Left \in 0 .. Len(t) - 1 /\ Left \in Nat \ {0}
          /\ History(t) = Take(t, Len(t) - Left) /\ History(t) \in Texts
          /\ Len(History(t)) = Len(t) - Left
        BY <2>1, HistoryTail
    <2>6. ASSUME paged \/ ~trimmable, History(t) # <<>>,
                 had' <= Len(History(t)), Len(History(t)) <= Found(t)
          PROVE  Holds(store, History(t))
        <3> DEFINE m == Len(t) - Left
        <3>1. m \in 1 .. Len(t) - 1
            <4>1. Len(History(t)) # 0
                BY <2>5, <2>6, EmptySeq DEF Texts
            <4> QED BY <2>5, <4>1
        <3>2. CASE paged
            <4>1. Whole(t) <= m /\ m <= Found(t)
                BY <2>2, <2>5, <2>6, <3>2
            <4> QED BY <1>1, <2>1, <2>5, <3>1, <3>2, <4>1, WholeHeld
        <3>3. CASE ~paged
            <4>1. Found(t) = m /\ ~trimmable /\ Found(t) > 0
                BY <2>2, <2>4, <2>5, <2>6, <3>1, <3>3
            <4>2. History(t) \in Keys
                BY <2>2, <2>5, <4>1
            <4> QED BY <4>2 DEF Holds, Keys
        <3> QED BY <3>2, <3>3
    <2>7. Reach(Len(cache))'
        BY <2>2, <2>3, <2>6 DEF Reach, Holds, Nearest
    <2> QED BY <2>2, <2>3, <2>4, <2>7 DEF Points
<1>3. CASE Start
    <2>1. base' = Len(cache) /\ Done' = 0
        BY <1>1, <1>3, StartStep
    <2>2. /\ pc = "fetched" /\ pc' = "chunks" /\ trimmable' = trimmable /\ had' = had
          /\ paged' = paged /\ store' = store /\ req' = req
        BY <1>3 DEF Start, server
    <2>3. Reach(Len(cache))
        BY <1>1, <2>2 DEF Points
    <2>4. Reach(base)'
        BY <2>1, <2>2, <2>3 DEF Reach, Holds, Nearest
    <2> QED BY <1>1, <2>1, <2>2, <2>4 DEF Points
<1>4. CASE Chunk
    <2>1. /\ base' = base /\ store \subseteq store' /\ (paged => Take(req, base + Done') \in Keys')
          /\ \A e \in store' : e \in store \/ Len(e.key) = base + Done'
          /\ Done' \in 1 .. HistoryEnd(prompt)
        BY <1>1, <1>4, ChunkStep
    <2>2. /\ pc = "chunks" /\ pc' = pc /\ trimmable' = trimmable /\ paged' = paged /\ req' = req
          /\ had' = had
        BY <1>4 DEF Chunk, server
    <2>3. /\ base \in 0 .. Len(req) /\ Len(req) \in Nat
          /\ HistoryEnd(prompt) \in 1 .. Len(req) - base
        BY <1>1, <2>2, DoneRight
    <2>4. ASSUME paged \/ ~trimmable, History(req) # <<>>,
                 had <= Len(History(req)), Len(History(req)) <= base
          PROVE  Holds(store', History(req))
        <3>1. History(req) \in Texts /\ Len(History(req)) \in Nat
            BY <1>1, HistoryType, LenProperties DEF PType, Texts
        <3>2. Holds(store, History(req))
            BY <1>1, <2>2, <2>4 DEF Points, Reach
        <3>3. \A e \in store' : e.key \in Texts
            BY DEF PInv, PType
        <3>4. \A e \in store' : e \in store \/ Len(e.key) >= Len(History(req))
            BY <2>1, <2>3, <2>4, <3>1
        <3> QED BY <2>1, <3>1, <3>2, <3>3, <3>4, HoldsGrows
    <2>5. Reach(base)'
        BY <2>1, <2>2, <2>4 DEF Reach, Holds, Nearest
    <2> QED BY <1>1, <2>1, <2>2, <2>5 DEF Points
<1>5. CASE NothingBefore \/ Stop \/ Answer(Message("reply", 1)) \/ Abort \/ \E e \in store : Forget(e)
    <2>1. (pc' = "rest" \/ pc' = "idle") /\ had' \in {had, 0}
        BY <1>5 DEF NothingBefore, Stop, Answer, Abort, Forget
    <2> QED BY <1>1, <2>1 DEF Points
<1>6. CASE UNCHANGED vars
    BY <1>1, <1>6 DEF vars, server, Points, Reach, Holds, Nearest, Keys, Done
<1> QED BY <1>2, <1>3, <1>4, <1>5, <1>6 DEF Next

\* A prefill that did not go on from an entry past the history stops there and
\* stores it.
LEMMA StopPromise ==
    ASSUME HInv, Stop, paged \/ ~trimmable, Leaves(req) # <<>>, had <= Len(History(req))
    PROVE  Holds(store, History(req))'
<1>1. PInv /\ PType /\ Asked /\ Computing /\ Points /\ pc = "chunks" /\ todo = <<>>
    BY DEF HInv, PInv, Stop
<1>2. /\ store \subseteq store' /\ Len(cache') = base + HistoryEnd(prompt)
      /\ Done = HistoryEnd(prompt) /\ (paged => store' = store)
      /\ ~paged /\ Copied(Len(cache)) => Take(req, Len(cache')) \in Keys'
    BY <1>1, StopStep
<1>3. trimmable' = trimmable /\ paged' = paged /\ req' = req /\ cache' = cache
    BY DEF Stop, server
<1>4. /\ base \in 0 .. Len(req) /\ Len(req) \in Nat /\ HistoryEnd(prompt) \in 1 .. Len(req) - base
      /\ prompt = Drop(req, base) /\ req \in Texts /\ req # <<>> /\ EndsInTail(req)
    BY <1>1, DoneRight DEF PType, Asked, Computing
<1>5. /\ Len(req) - Left \in 0 .. Len(req) - 1 /\ Left \in Nat
      /\ History(req) = Take(req, Len(req) - Left) /\ Len(History(req)) = Len(req) - Left
    BY <1>4, HistoryTail
<1>6. CASE base <= Len(req) - Left
    <2>1. HistoryEnd(prompt) = Len(req) - base - Left
        BY <1>4, <1>6, TailOfRest
    <2>2. base + HistoryEnd(prompt) = Len(req) - Left /\ Len(cache) = Len(req) - Left
        BY <1>2, <1>3, <1>4, <1>5, <2>1
    <2>3. History(req) \in Keys'
        <3>1. CASE paged
            <4>1. Take(req, base + Done) \in Keys
                BY <1>1, <1>2, <1>4, <3>1 DEF Points
            <4> QED BY <1>2, <1>5, <2>2, <4>1 DEF Keys
        <3>2. CASE ~paged
            <4>1. Len(History(req)) \in MinSnapshot .. MaxSnapshot
                BY <3>2 DEF Leaves
            <4>2. Copied(Len(cache))
                BY <1>5, <2>2, <3>2, <4>1 DEF Copied
            <4> QED BY <1>2, <1>3, <1>5, <2>2, <3>2, <4>2
        <3> QED BY <3>1, <3>2
    <2> QED BY <1>3, <2>3 DEF Holds, Keys
<1>7. CASE base > Len(req) - Left
    <2>1. paged /\ Reach(base)
        BY <1>1, <1>4, <1>5, <1>7 DEF Points
    <2>2. History(req) # <<>> /\ Len(History(req)) <= base
        BY <1>4, <1>5, <1>7 DEF Leaves
    <2>3. Holds(store, History(req)) /\ store' = store
        BY <1>2, <2>1, <2>2 DEF Reach
    <2> QED BY <1>3, <2>3 DEF Holds, Nearest
<1> QED BY <1>4, <1>5, <1>6, <1>7

\* Nothing is left to do before the tail only where the history was restored.
LEMMA NothingBeforePromise ==
    ASSUME HInv, NothingBefore, paged \/ ~trimmable, Leaves(req) # <<>>, had <= Len(History(req))
    PROVE  Holds(store, History(req))'
<1>1. PInv /\ PType /\ Asked /\ Parted /\ Points /\ pc = "fetched" /\ HistoryEnd(prompt) < 1
    BY NothingBeforeStep DEF HInv, PInv, NothingBefore
<1>2. trimmable' = trimmable /\ paged' = paged /\ req' = req /\ store' = store
    BY DEF NothingBefore, server
<1>3. /\ Len(cache) \in 0 .. Len(req) /\ prompt = Drop(req, Len(cache))
      /\ req \in Texts /\ req # <<>> /\ EndsInTail(req)
    BY <1>1, LenProperties DEF PType, Asked, Parted, Texts
<1>4. Len(cache) >= Len(req) - Left
    BY <1>1, <1>3, TailOfRest
<1>5. Len(History(req)) = Len(req) - Left
    BY <1>3, HistoryTail
<1>6. History(req) # <<>>
    BY DEF Leaves
<1>7. Len(History(req)) <= Len(cache)
    BY <1>3, <1>4, <1>5, HistoryTail
<1>8. Holds(store, History(req))
    BY <1>1, <1>6, <1>7 DEF Points, Reach
<1> QED BY <1>2, <1>8 DEF Holds, Nearest

\* The answer's own entry repeats the history, and takes the place of no shorter one.
LEMMA AnswerPromise ==
    ASSUME HInv, PInv', NEW a \in Texts, a = Message("reply", 1), Answer(a), Leaves(req) # <<>>,
           (~paged /\ trimmable) \/ had <= Len(History(req))
    PROVE  Holds(store, History(req))'
<1>1. PInv /\ PType /\ Asked /\ Promised /\ pc = "rest"
    BY DEF HInv, PInv, Answer
<1>2. /\ trimmable' = trimmable /\ paged' = paged /\ req' = req
      /\ store' = IF paged /\ req \o a \in Keys THEN store
                  ELSE {e \in store : e.key # req \o a} \cup {Entry(req \o a, req \o a)}
    BY <1>1, AnswerStep DEF Answer, server
<1>3. req \in Texts /\ req # <<>> /\ EndsInTail(req) /\ Len(a) = 1
    BY <1>1 DEF PType, Asked, Message
<1> DEFINE n == Len(req) - Left
<1>4. /\ n \in 0 .. Len(req) - 1 /\ Len(req) \in Nat /\ History(req) = Take(req, n)
      /\ Len(History(req)) = n /\ History(req) \in Texts
    BY <1>3, HistoryTail
<1> HIDE DEF n
<1>5. /\ req \o a \in Texts /\ Len(req \o a) = Len(req) + 1
      /\ Take(req \o a, Len(req)) = req
    <2>1. req \in Seq(Tokens) /\ a \in Seq(Tokens)
        BY <1>3 DEF Texts
    <2>2. req \o a \in Seq(Tokens) /\ Len(req \o a) = Len(req) + Len(a)
        BY <2>1, ConcatProperties
    <2>3. SubSeq(req \o a, 1, Len(req)) = req
        BY <2>1, PrefixOfConcat
    <2> QED BY <1>3, <2>2, <2>3 DEF Texts, Take
<1>6. CASE ~paged /\ trimmable
    <2>1. Take(req \o a, n) = Take(req, n)
        <3>1. Len(req) \in 0 .. Len(req \o a) /\ n \in 0 .. Len(req)
            BY <1>4, <1>5
        <3>2. Take(Take(req \o a, Len(req)), n) = Take(req \o a, n)
            BY <1>5, <3>1, CutAt
        <3> QED BY <1>5, <3>2
    <2>2. IsPrefix(Take(req \o a, n), req \o a)
        <3>1. n \in 0 .. Len(req \o a)
            BY <1>4, <1>5
        <3> QED BY <1>5, <3>1, TakePrefix
    <2>3. Entry(req \o a, req \o a) \in store' /\ Entry(req \o a, req \o a).key = req \o a
        BY <1>2, <1>6 DEF Entry
    <2> QED BY <1>2, <1>4, <1>6, <2>1, <2>2, <2>3 DEF Holds
<1>7. CASE ~(~paged /\ trimmable)
    <2>1. Holds(store, History(req))
        BY <1>1, <1>7 DEF Promised
    <2>2. CASE paged
        <3>1. \A e \in store : e.key # req \o a \/ req \o a \in Keys
            BY DEF Keys
        <3>2. store \subseteq store'
            BY <1>2, <2>2, <3>1
        <3>3. \A e \in store' : e.key \in Texts
            BY DEF PInv, PType
        <3>4. \A e \in store' : e \in store \/ Len(e.key) >= Len(History(req))
            <4>1. Entry(req \o a, req \o a).key = req \o a
                BY DEF Entry
            <4>2. Len(req \o a) >= Len(History(req))
                BY <1>4, <1>5
            <4> QED BY <1>2, <4>1, <4>2
        <3>5. Holds(store', History(req))
            BY <1>4, <2>1, <3>2, <3>3, <3>4, HoldsGrows
        <3> QED BY <1>2, <3>5 DEF Holds, Nearest
    <2>3. CASE ~paged /\ ~trimmable
        <3>1. PICK e \in store : e.key = History(req)
            BY <2>1, <2>3 DEF Holds
        <3>2. e.key # req \o a
            BY <1>4, <1>5, <3>1
        <3>3. e \in store'
            BY <1>2, <2>3, <3>2
        <3> QED BY <1>2, <3>1, <3>3 DEF Holds
    <2> QED BY <1>7, <2>2, <2>3
<1> QED BY <1>6, <1>7

LEMMA PromisedStep ==
    ASSUME HInv, PInv', [Next]_vars
    PROVE  Promised'
<1>1. PInv /\ Promised
    BY DEF HInv
<1>2. \A t : Leaves(t) # <<>> => Leaves(t) = History(t)
    BY DEF Leaves
<1>3. CASE Request \/ Start \/ Chunk
    <2>1. pc' \in {"fetched", "chunks"}
        BY <1>3 DEF Request, Fetch, Start, Chunk
    <2> QED BY <2>1 DEF Promised
<1>4. CASE NothingBefore
    <2>1. /\ pc' = "rest" /\ trimmable' = trimmable /\ paged' = paged
          /\ req' = req /\ had' = had
        BY <1>4 DEF NothingBefore, server
    <2>2. Leaves(req)' = Leaves(req)
        BY <2>1 DEF Leaves
    <2>3. (paged \/ ~trimmable) /\ Leaves(req) # <<>> /\ had <= Len(History(req))
            => Holds(store, History(req))'
        BY <1>4, NothingBeforePromise
    <2> QED BY <2>1, <2>2, <2>3 DEF Promised
<1>5. CASE Stop
    <2>1. /\ pc' = "rest" /\ trimmable' = trimmable /\ paged' = paged
          /\ req' = req /\ had' = had
        BY <1>5 DEF Stop, server
    <2>2. Leaves(req)' = Leaves(req)
        BY <2>1 DEF Leaves
    <2>3. (paged \/ ~trimmable) /\ Leaves(req) # <<>> /\ had <= Len(History(req))
            => Holds(store, History(req))'
        BY <1>5, StopPromise
    <2> QED BY <2>1, <2>2, <2>3 DEF Promised
<1>6. CASE Answer(Message("reply", 1))
    <2>1. /\ pc' = "idle" /\ owed' = Leaves(req) /\ req' = req
          /\ late' = ((paged \/ ~trimmable) /\ had > Len(History(req)))
        BY <1>6 DEF Answer
    <2>2. Leaves(req) # <<>> /\ ~late' => Holds(store, History(req))'
        <3>1. req \in Texts /\ had \in Nat
            BY DEF HInv, PInv, PType, Points
        <3>2. Len(History(req)) \in Nat
            BY <3>1, HistoryType, LenProperties DEF Texts
        <3>3. ~late' => (~paged /\ trimmable) \/ had <= Len(History(req))
            <4>1. had <= Len(History(req)) \/ had > Len(History(req))
                BY <3>1, <3>2
            <4> QED BY <2>1, <4>1, Zenon
        <3>4. ASSUME Leaves(req) # <<>>, (~paged /\ trimmable) \/ had <= Len(History(req))
              PROVE  Holds(store, History(req))'
            BY <1>6, <3>4, ReplyText, AnswerPromise
        <3> QED BY <3>3, <3>4
    <2> QED BY <1>2, <2>1, <2>2 DEF Promised
<1>7. CASE Abort \/ \E e \in store : Forget(e)
    <2>1. pc' = "idle" /\ owed' = <<>>
        BY <1>1, <1>7, IdleStep
    <2> QED BY <2>1 DEF Promised
<1>8. CASE UNCHANGED vars
    BY <1>1, <1>8 DEF vars, server, Promised, Holds, Nearest, Leaves
<1> QED BY <1>3, <1>4, <1>5, <1>6, <1>7, <1>8 DEF Next

LEMMA HistoryStep ==
    ASSUME HInv, [Next]_vars
    PROVE  HInv'
<1>1. PInv /\ Promised /\ HistoryRestored
    BY DEF HInv
<1>2. PInv'
    BY <1>1, PartedStep
<1>3. Points' /\ Promised'
    BY <1>2, PointsStep, PromisedStep
<1>4. HistoryRestored'
    <2>1. CASE Request
        <3>1. PICK t \in Texts : t # <<>> /\ EndsInTail(t) /\ Fetch(t)
            BY <1>1, <2>1, RequestFacts
        <3>2. owed # <<>> /\ ~late => Holds(store, owed)
            BY <1>1, <3>1 DEF Promised, Fetch
        <3> QED BY <1>1, <3>1, <3>2, HistoryFound
    <2>2. CASE UNCHANGED vars
        BY <1>1, <2>2 DEF vars, server, HistoryRestored, NextTurnWhole
    <2>3. CASE ~Request /\ ~UNCHANGED vars
        <3>1. pc' # "fetched"
            <4>1. CASE Start \/ Chunk \/ NothingBefore \/ Stop
                BY <4>1 DEF Start, Chunk, NothingBefore, Stop
            <4>2. CASE Answer(Message("reply", 1)) \/ Abort \/ \E e \in store : Forget(e)
                BY <4>2 DEF Answer, Abort, Forget
            <4> QED BY <2>3, <4>1, <4>2 DEF Next
        <3> QED BY <3>1 DEF HistoryRestored, NextTurnWhole
    <2> QED BY <2>1, <2>2, <2>3
<1> QED BY <1>2, <1>3, <1>4 DEF HInv

-----------------------------------------------------------------------------
(* Progress.                                                               *)

LEMMA ReportedStep ==
    ASSUME PInv, Reported, PInv', [Next]_vars
    PROVE  Reported' /\ Rises
<1>1. Unreported \in [at : Nat, of : Nat] /\ Unreported.at = 0 /\ Unreported.of = 0
    BY DEF Unreported
<1>2. prompt \in Texts /\ Len(prompt) \in Nat /\ shown \in [at : Nat, of : Nat]
    BY LenProperties DEF PInv, PType, Texts, Reported
<1>3. CASE Request
    <2>1. pc = "idle" /\ pc' = "fetched" /\ shown' = Unreported
        BY <1>3 DEF Request, Fetch
    <2> QED BY <1>1, <2>1 DEF Reported, Rises
<1>4. CASE NothingBefore
    <2>1. pc = "fetched" /\ pc' = "rest" /\ shown' = shown
        BY <1>4 DEF NothingBefore
    <2> QED BY <1>1, <2>1 DEF Reported, Rises
<1>5. CASE Start
    <2>1. /\ pc = "fetched" /\ pc' = "chunks" /\ prompt' = prompt
          /\ shown' = [at |-> 0, of |-> Len(prompt)]
        BY <1>5 DEF Start
    <2>2. Done' = 0
        BY <1>5, StartStep
    <2> QED BY <1>1, <1>2, <2>1, <2>2 DEF Reported, Rises
<1>6. CASE Chunk
    <2>1. /\ pc = "chunks" /\ pc' = pc /\ prompt' = prompt /\ todo' = Tail(todo)
          /\ shown' = [at |-> Done + Head(todo), of |-> Len(prompt)]
        BY <1>6 DEF Chunk
    <2>2. Done' = Done + Head(todo) /\ Head(todo) \in Nat \ {0}
        BY <1>6, ChunkStep
    <2>3. Done \in Nat /\ Done' \in Nat /\ Done' <= Len(prompt)
        <3>1. Done' \in 1 .. HistoryEnd(prompt)
            BY <1>6, ChunkStep
        <3>2. Done \in 0 .. HistoryEnd(prompt) /\ HistoryEnd(prompt) \in 1 .. Len(req) - base
              /\ Len(req) - base = Len(prompt)
            BY <2>1, DoneRight
        <3> QED BY <1>2, <3>1, <3>2
    <2>4. shown = [at |-> Done, of |-> Len(prompt)]
        BY <2>1 DEF Reported
    <2>5. shown' = [at |-> Done', of |-> Len(prompt')]
        BY <2>1, <2>2
    <2>6. Reported'
        BY <1>2, <2>1, <2>3, <2>5 DEF Reported
    <2>7. Rises
        BY <1>2, <2>1, <2>2, <2>3, <2>4, <2>5 DEF Rises
    <2> QED BY <2>6, <2>7
<1>7. CASE Stop
    <2> DEFINE h == HistoryEnd(prompt)
    <2>1. pc = "chunks" /\ pc' = "rest" /\ shown' = [at |-> h + 0, of |-> h + (Len(prompt) - h)]
        BY <1>7 DEF Stop, Progress
    <2>2. Done = h /\ h \in 1 .. Len(prompt)
        BY <1>7, <2>1, DoneRight, StopStep
    <2> HIDE DEF h
    <2>3. shown' = [at |-> h, of |-> Len(prompt)] /\ shown = [at |-> h, of |-> Len(prompt)]
        BY <1>2, <2>1, <2>2 DEF Reported
    <2> QED BY <1>2, <2>1, <2>2, <2>3 DEF Reported, Rises
<1>8. CASE Answer(Message("reply", 1))
    <2>1. /\ pc = "rest" /\ pc' = "idle"
          /\ shown' = IF shown.of = 0 THEN [at |-> Len(prompt), of |-> Len(prompt)]
                      ELSE [shown EXCEPT !.at = shown.of]
        BY <1>8 DEF Answer
    <2>2. CASE shown.of = 0
        <3>1. shown = Unreported
            BY <1>2, <2>2 DEF Reported, Unreported
        <3> QED BY <1>2, <2>1, <2>2, <3>1 DEF Reported, Rises
    <2>3. CASE shown.of # 0
        <3>1. shown' = [at |-> shown.of, of |-> shown.of]
            BY <1>2, <2>1, <2>3
        <3> QED BY <1>2, <2>1, <3>1 DEF Reported, Rises
    <2> QED BY <2>2, <2>3
<1>9. CASE Abort \/ \E e \in store : Forget(e)
    <2>1. pc' = "idle" /\ (shown' = Unreported \/ (pc = "idle" /\ shown' = shown))
        BY <1>9 DEF Abort, Forget
    <2> QED BY <1>1, <2>1 DEF Reported, Rises
<1>10. CASE UNCHANGED vars
    <2>1. pc' = pc /\ shown' = shown /\ prompt' = prompt /\ todo' = todo
        BY <1>10 DEF vars
    <2> QED BY <1>2, <2>1 DEF Reported, Rises, Done
<1> QED BY <1>3, <1>4, <1>5, <1>6, <1>7, <1>8, <1>9, <1>10 DEF Next

-----------------------------------------------------------------------------
(* Theorems.                                                               *)

\* Between a lookup and the answer, the cache holds the request's first tokens
\* and the prompt the others, whatever an earlier request left behind
\* (_prefill_history's base, cut and prompt).
THEOREM PartsAlways == Spec => []PInv
BY InitParted, PartedStep, PTL DEF Spec

\* Whatever is stored is the cache of the tokens it is stored under
\* (save_progress and _snapshot).
THEOREM StoredAlwaysExact == Spec => []StoredExact
<1>1. PInv => StoredExact
    BY DEF PInv
<1> QED BY PartsAlways, <1>1, PTL

\* The chunks of a prefill are even, none longer than 1.25 steps, and no more
\* of them than of whole steps (_chunks).
THEOREM ChunksAlwaysEven == Spec => []ChunksEven
<1>1. PInv => ChunksEven
    <2> SUFFICES ASSUME PInv, pc = "chunks" PROVE ChunksEven
        BY DEF ChunksEven
    <2>1. PType /\ Computing
        BY DEF PInv
    <2>2. /\ base \in 0 .. Len(req) /\ Len(req) \in Nat /\ Done \in 0 .. HistoryEnd(prompt)
          /\ HistoryEnd(prompt) \in 1 .. Len(req) - base
          /\ Total(todo) = HistoryEnd(prompt) - Done /\ Len(todo) <= Total(todo)
          /\ Len(cache) = base + Done
        BY DoneRight
    <2>3. /\ Len(todo) \in Nat /\ DOMAIN todo = 1 .. Len(todo) /\ (todo # <<>> => Len(todo) >= 1)
          /\ \A i \in 1 .. Len(todo) : todo[i] \in Nat \ {0}
        BY <2>1, LenProperties, EmptySeq, ElementOfSeq DEF PType
    <2>4. Done >= 0 /\ Done < HistoryEnd(prompt) + (IF todo = <<>> THEN 1 ELSE 0)
        BY <2>2, <2>3
    <2>5. ASSUME NEW i \in DOMAIN todo
          PROVE  todo[i] >= 1 /\ 4 * todo[i] <= 5 * step /\ todo[1] - todo[i] \in {0, 1}
        <3>1. i \in 1 .. Len(todo) /\ 1 \in 1 .. Len(todo) /\ 1 <= i
            BY <2>3
        <3> QED BY <2>1, <2>3, <3>1 DEF Computing
    <2>6. Done = 0 => (Len(todo) - 1) * step < HistoryEnd(prompt)
        BY <2>1 DEF Computing
    <2>7. Done = Len(cache) - base
        BY <2>2
    <2> QED BY <2>4, <2>5, <2>6, <2>7 DEF ChunksEven
<1> QED BY PartsAlways, <1>1, PTL

\* A request that repeats the history of a turn answered finds all of it stored,
\* unless that turn itself went on from an entry past its history (_prefill_history and
\* _snapshot).
THEOREM HistoryAlwaysRestored == Spec => []HistoryRestored
<1>1. Init => HInv
    <2>1. Init => PInv
        BY InitParted
    <2> QED BY <2>1 DEF Init, HInv, Points, Promised, HistoryRestored, NextTurnWhole
<1>2. HInv /\ [Next]_vars => HInv'
    BY HistoryStep
<1>3. HInv => HistoryRestored
    BY DEF HInv
<1> QED BY <1>1, <1>2, <1>3, PTL DEF Spec

\* The progress shown of a request never goes back, over its total or to
\* another total, from the first report on (_prefill_history's on_progress).
THEOREM ProgressAlwaysRises == Spec => ProgressRises
<1>1. Init => PInv /\ Reported
    <2>1. Init => PInv
        BY InitParted
    <2> QED BY <2>1 DEF Init, Reported, Unreported
<1>2. PInv /\ Reported /\ [Next]_vars => (PInv /\ Reported)' /\ Rises
    BY PartedStep, ReportedStep
<1>3. Spec => [][Rises]_vars
    BY <1>1, <1>2, PTL DEF Spec
<1> QED BY <1>3 DEF ProgressRises, Rises

-----------------------------------------------------------------------------
(* Attention in blocks of query rows: what a block's mask shows a row is   *)
(* what the stock call's would, wherever the block begins.                 *)
MostScores == Max({Limit, Unit * keys})

BlocksInv ==
    /\ queries \in Nat \ {0} /\ keys \in Nat \ {0} /\ rowsDone \in 0 .. queries
    /\ maskKind \in {"none", "causal", "rows", "shared"}
    /\ stage \in {"call", "blocks", "done", "unblocked"} /\ built \in Nat
    /\ queries >= MinRows /\ stage # "unblocked" => built <= MostScores
    /\ stage = "call" => rowsDone = 0
    /\ stage = "blocks" =>
           \/ rowsDone = 0
           \/ attended = [r \in 0 .. rowsDone - 1 |-> Blocks!StockRow(r)]
    /\ stage \in {"done", "unblocked"} => attended = Blocks!Stock

LEMMA SameMax == \A S : Blocks!Max(S) = Max(S)
BY DEF Blocks!Max, Max

LEMMA ScoresMost ==
    ASSUME Blocks!BlocksAssumption, keys \in Nat
    PROVE  MostScores \in Nat /\ MostScores >= Limit /\ MostScores >= Unit * keys
<1>1. Limit \in Nat /\ Unit * keys \in Nat
    <2>1. Limit \in Nat /\ Unit \in Nat
        BY DEF Blocks!BlocksAssumption
    <2> QED BY <2>1
<1>2. PICK b : b = Unit * keys
    OBVIOUS
<1>3. MostScores = IF Limit >= b THEN Limit ELSE b
    <2>1. MostScores = Max({Limit, b})
        BY <1>2 DEF MostScores
    <2>2. b \in Int /\ Limit \in Int
        BY <1>1, <1>2
    <2>3. Max({Limit, b}) = IF Limit >= b THEN Limit ELSE b
        BY <2>2, LesserOf
    <2> QED BY <2>1, <2>3
<1> QED BY <1>1, <1>2, <1>3

\* A block is a unit of rows, or as many as the limit allows.
LEMMA BlockFits ==
    ASSUME Blocks!BlocksAssumption, keys \in Nat \ {0}
    PROVE  /\ Blocks!RowsPerBlock \in Nat \ {0}
           /\ Blocks!RowsPerBlock * keys <= MostScores
<1>1. Limit \in Nat /\ Unit \in Nat \ {0}
    BY DEF Blocks!BlocksAssumption
<1>2. PICK a : a = Limit \div keys
    OBVIOUS
<1>3. PICK b : b = a \div Unit
    OBVIOUS
<1>4. a \in Nat /\ Limit = keys * a + (Limit % keys) /\ Limit % keys \in 0 .. keys - 1
    BY <1>1, <1>2, Division
<1>5. b \in Nat /\ a = Unit * b + (a % Unit) /\ a % Unit \in 0 .. Unit - 1
    BY <1>1, <1>3, <1>4, Division
<1>6. PICK w : w = b * Unit
    OBVIOUS
<1>7. w \in Nat /\ w <= a
    <2>1. Unit * b = b * Unit /\ b * Unit \in Nat
        BY <1>1, <1>5
    <2> QED BY <1>1, <1>4, <1>5, <1>6, <2>1
<1>8. w * keys <= Limit
    <2>1. w * keys <= a * keys
        <3>1. (a - w) \in Nat /\ (a - w) * keys \in Nat
            BY <1>4, <1>7
        <3>2. a * keys = w * keys + (a - w) * keys /\ w * keys \in Nat
            BY <1>4, <1>7, <3>1
        <3> QED BY <3>1, <3>2
    <2>2. a * keys = keys * a /\ keys * a \in Nat
        BY <1>4
    <2>3. w * keys \in Nat
        BY <1>7
    <2> QED BY <1>1, <1>4, <2>1, <2>2, <2>3
<1>9. Blocks!RowsPerBlock = IF Unit >= w THEN Unit ELSE w
    <2>1. Blocks!RowsPerBlock = Max({Unit, w})
        BY <1>2, <1>3, <1>6, SameMax DEF Blocks!RowsPerBlock
    <2> QED BY <1>1, <1>7, <2>1, LesserOf
<1>10. MostScores \in Nat /\ MostScores >= Limit /\ MostScores >= Unit * keys
    BY ScoresMost
<1>11. w * keys \in Nat /\ Unit * keys \in Nat
    BY <1>1, <1>7
<1> QED BY <1>1, <1>7, <1>8, <1>9, <1>10, <1>11

\* A row of a block sees what it would in the whole call.
LEMMA BlockRowStock ==
    ASSUME queries \in Nat, keys \in Nat, NEW a \in Int, NEW b \in Int, NEW r \in Int,
           maskKind \in {"none", "causal", "rows", "shared"}
    PROVE  Blocks!BlockRow(r, a, b) = Blocks!StockRow(r)
<1>1. a + (r - a) = r /\ (a + keys - queries) + (r - a) = r + keys - queries
    OBVIOUS
<1> QED BY <1>1 DEF Blocks!BlockRow, Blocks!StockRow, Blocks!Causal

LEMMA BlocksInitInv == ASSUME Blocks!BlocksAssumption, Blocks!Init PROVE BlocksInv
<1>1. /\ queries \in Queries /\ keys \in {c + queries : c \in Contexts}
      /\ maskKind \in {"none", "causal", "rows", "shared"}
      /\ rowsDone = 0 /\ built = 0 /\ stage = "call"
    BY DEF Blocks!Init
<1>2. queries \in Nat \ {0} /\ keys \in Nat \ {0}
    BY <1>1 DEF Blocks!BlocksAssumption
<1>3. MostScores \in Nat
    BY <1>2, ScoresMost
<1> QED BY <1>1, <1>2, <1>3 DEF BlocksInv

LEMMA BlocksStepInv ==
    ASSUME BlocksInv, Blocks!BlocksAssumption, [Blocks!Next]_(Blocks!vars)
    PROVE  BlocksInv'
<1>1. /\ queries \in Nat \ {0} /\ keys \in Nat \ {0} /\ rowsDone \in 0 .. queries
      /\ maskKind \in {"none", "causal", "rows", "shared"}
      /\ built \in Nat /\ (queries >= MinRows /\ stage # "unblocked" => built <= MostScores)
    BY DEF BlocksInv
<1>2. UNCHANGED <<queries, keys, maskKind, mask>>
    BY DEF Blocks!Next, Blocks!vars, Blocks!args, Blocks!Stay, Blocks!Fused, Blocks!Blocked,
           Blocks!Block, Blocks!Unblocked, Blocks!Joined
<1>3. /\ MostScores' = MostScores /\ Blocks!Stock' = Blocks!Stock
      /\ \A r : Blocks!StockRow(r)' = Blocks!StockRow(r)
    BY <1>2 DEF MostScores, Blocks!Stock, Blocks!StockRow, Blocks!Causal
<1>4. MostScores \in Nat /\ MostScores >= Limit /\ Limit \in Nat /\ MinRows \in Nat
    BY <1>1, ScoresMost DEF Blocks!BlocksAssumption
<1>5. CASE Blocks!Stay
    <2>1. /\ (Blocks!Small /\ built' = queries * keys) \/ built' = 0
          /\ attended' = Blocks!Stock /\ stage' = "done" /\ rowsDone' = rowsDone
        BY <1>5 DEF Blocks!Stay
    <2>2. queries * keys \in Nat
        BY <1>1
    <2>3. built' \in Nat /\ (queries >= MinRows => built' <= MostScores)
        BY <1>1, <1>4, <2>1, <2>2 DEF Blocks!Small
    <2> QED BY <1>1, <1>2, <1>3, <2>1, <2>3 DEF BlocksInv
<1>6. CASE Blocks!Fused
    <2>1. attended' = Blocks!Stock /\ stage = "call" /\ stage' = "done" /\ UNCHANGED <<rowsDone, built>>
        BY <1>6 DEF Blocks!Fused
    <2> QED BY <1>1, <1>2, <1>3, <2>1 DEF BlocksInv
<1>11. CASE Blocks!Unblocked
    <2>1. PICK a : a = queries * keys
        OBVIOUS
    <2>2. /\ attended' = Blocks!Stock /\ stage' = "unblocked" /\ rowsDone' = rowsDone
          /\ built' = Max({built, a})
        BY <1>11, <2>1, SameMax DEF Blocks!Unblocked
    <2>3. built' \in Nat
        <3>1. a \in Nat
            BY <1>1, <2>1
        <3>2. built' = IF built >= a THEN built ELSE a
            BY <1>1, <2>2, <3>1, LesserOf
        <3> QED BY <1>1, <3>1, <3>2
    <2> QED BY <1>1, <1>2, <1>3, <2>2, <2>3 DEF BlocksInv
<1>7. CASE Blocks!Blocked
    <2>1. stage = "call" /\ stage' = "blocks" /\ UNCHANGED <<rowsDone, attended, built>>
        BY <1>7 DEF Blocks!Blocked
    <2>2. rowsDone = 0
        BY <2>1 DEF BlocksInv
    <2> QED BY <1>1, <1>2, <1>3, <2>1, <2>2 DEF BlocksInv
<1>8. CASE Blocks!Block
    <2>1. PICK j : j = Blocks!Cut(queries, rowsDone + Blocks!RowsPerBlock)
        OBVIOUS
    <2>2. /\ stage = "blocks" /\ rowsDone < queries /\ stage' = stage /\ rowsDone' = j
          /\ attended' = [r \in 0 .. j - 1 |->
                             IF r < rowsDone THEN attended[r]
                             ELSE Blocks!BlockRow(r, rowsDone, j)]
          /\ built' = Max({built, (j - rowsDone) * keys})
        BY <1>8, <2>1, SameMax DEF Blocks!Block
    <2>3. Blocks!RowsPerBlock \in Nat \ {0} /\ Blocks!RowsPerBlock * keys <= MostScores
        BY <1>1, BlockFits
    <2>4. j \in 0 .. queries /\ j - rowsDone \in Nat /\ j - rowsDone <= Blocks!RowsPerBlock
        BY <1>1, <2>1, <2>2, <2>3 DEF Blocks!Cut
    <2>5. (j - rowsDone) * keys \in Nat /\ (j - rowsDone) * keys <= MostScores
        <3>1. PICK a : a = j - rowsDone
            OBVIOUS
        <3>2. PICK b : b = Blocks!RowsPerBlock
            OBVIOUS
        <3>3. a \in Nat /\ b \in Nat /\ a <= b /\ b * keys <= MostScores
            BY <2>3, <2>4, <3>1, <3>2
        <3>4. (b - a) * keys \in Nat /\ b * keys = a * keys + (b - a) * keys /\ a * keys \in Nat
            BY <1>1, <3>3
        <3> QED BY <1>4, <3>1, <3>3, <3>4
    <2>6. built' \in Nat /\ (queries >= MinRows => built' <= MostScores)
        <3>1. PICK a : a = (j - rowsDone) * keys
            OBVIOUS
        <3>2. a \in Nat /\ a <= MostScores /\ built' = Max({built, a})
            BY <2>2, <2>5, <3>1
        <3>3. built' = IF built >= a THEN built ELSE a
            BY <1>1, <3>2, LesserOf
        <3> QED BY <1>1, <2>2, <3>2, <3>3
    <2>7. attended' = [r \in 0 .. j - 1 |-> Blocks!StockRow(r)]
        <3>1. ASSUME NEW r \in 0 .. j - 1
              PROVE  (IF r < rowsDone THEN attended[r] ELSE Blocks!BlockRow(r, rowsDone, j))
                         = Blocks!StockRow(r)
            <4>1. CASE r < rowsDone
                <5>1. r \in 0 .. rowsDone - 1 /\ rowsDone # 0
                    BY <1>1, <2>4, <4>1
                <5>2. attended = [x \in 0 .. rowsDone - 1 |-> Blocks!StockRow(x)]
                    BY <2>2, <5>1 DEF BlocksInv
                <5> QED BY <4>1, <5>1, <5>2
            <4>2. CASE ~(r < rowsDone)
                <5>1. Blocks!BlockRow(r, rowsDone, j) = Blocks!StockRow(r)
                    BY <1>1, <2>4, BlockRowStock
                <5> QED BY <4>2, <5>1
            <4> QED BY <4>1, <4>2
        <3> QED BY <2>2, <3>1
    <2>8. attended' = [r \in 0 .. rowsDone' - 1 |-> Blocks!StockRow(r)']
        BY <1>3, <2>2, <2>7
    <2>9. rowsDone' \in 0 .. queries'
        BY <1>2, <2>2, <2>4
    <2> QED BY <1>1, <1>2, <1>3, <2>2, <2>6, <2>8, <2>9 DEF BlocksInv
<1>9. CASE Blocks!Joined
    <2>1. /\ stage = "blocks" /\ rowsDone = queries /\ stage' = "done"
          /\ UNCHANGED <<rowsDone, attended, built>>
        BY <1>9 DEF Blocks!Joined
    <2>2. attended = [r \in 0 .. queries - 1 |-> Blocks!StockRow(r)]
        BY <1>1, <2>1 DEF BlocksInv
    <2>3. attended' = Blocks!Stock'
        BY <1>3, <2>1, <2>2 DEF Blocks!Stock
    <2> QED BY <1>1, <1>2, <1>3, <2>1, <2>3 DEF BlocksInv
<1>10. CASE UNCHANGED Blocks!vars
    <2>1. UNCHANGED <<rowsDone, attended, built, stage>>
        BY <1>10 DEF Blocks!vars
    <2> QED BY <1>1, <1>2, <1>3, <2>1 DEF BlocksInv
<1> QED BY <1>5, <1>6, <1>7, <1>8, <1>9, <1>10, <1>11 DEF Blocks!Next

\* Attention in blocks shows every row the keys the stock call would, wherever
\* a block raises; and a call of MinRows rows or more, unless a block of it
\* raised, never holds more scores at once than the limit or one unit of rows
\* (attention.py, _attend).
THEOREM BlocksAlwaysExact == PartsSpec => []BlocksExact
<1> DEFINE Inv == part = "blocks" => BlocksInv
<1>0. Blocks!BlocksAssumption
    BY PartsAssumption
<1>1. PartsInit => Inv
    BY <1>0, BlocksInitInv DEF PartsInit
<1>2. Inv /\ [PartsNext]_<<part, vars, blockVars>> => Inv'
    <2> SUFFICES ASSUME Inv, [PartsNext]_<<part, vars, blockVars>>, part' = "blocks"
                 PROVE  BlocksInv'
        OBVIOUS
    <2>1. part = "blocks" /\ BlocksInv /\ (Blocks!Next \/ UNCHANGED blockVars)
        BY DEF PartsNext
    <2>2. UNCHANGED blockVars => UNCHANGED Blocks!vars
        BY DEF blockVars, Blocks!vars, Blocks!args
    <2> QED BY <1>0, <2>1, <2>2, BlocksStepInv
<1>3. BlocksInv => Blocks!BlocksExact
    BY SameMax
       DEF BlocksInv, Blocks!BlocksExact, Blocks!RowsExact, Blocks!ScoresBounded, Blocks!Answered,
           MostScores
<1>4. Inv => BlocksExact
    BY <1>3 DEF BlocksExact
<1> QED BY <1>1, <1>2, <1>4, PTL DEF PartsSpec
=============================================================================
