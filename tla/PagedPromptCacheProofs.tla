----------------------- MODULE PagedPromptCacheProofs -----------------------
(***************************************************************************)
(* The prompt cache's books, files and restored prefixes are right in      *)
(* every reachable state of PagedPromptCache, for any vocabulary, lengths, *)
(* byte caps and faults: through evictions, failed writes, crashes and     *)
(* restarts.                                                               *)
(***************************************************************************)
EXTENDS PagedPromptCache, SeqFoldsProofs

\* A segment holds the tokens of its key that its prefix, its `prev`, lacks.
GoodSegs == {s \in Segments : s.v.start < Len(s.k) /\ s.v.prev = Take(s.k, s.v.start)}

\* No key twice.
Apart(R) == \A x, y \in R : x.k = y.k => x = y
Dict(d) == d \in Seq(GoodSegs) /\ IsInjective(d) /\ Apart(Range(d))

-----------------------------------------------------------------------------
(* Segments.                                                               *)

LEMMA TokenSeqFacts ==
    ASSUME NEW t
    PROVE  t \in TokenSeqs <=> t \in Seq(Tokens) /\ Len(t) \in 1 .. MaxLen
<1>1. ASSUME t \in TokenSeqs PROVE t \in Seq(Tokens) /\ Len(t) \in 1 .. MaxLen
    <2>1. PICK n \in 1 .. MaxLen : t \in [1 .. n -> Tokens]
        BY <1>1 DEF TokenSeqs
    <2>2. n \in Nat
        BY BoundsAssumption
    <2>3. t \in Seq(Tokens)
        BY <2>1, <2>2, SeqDef
    <2> QED BY <2>1, <2>2, <2>3, LenProperties
<1>2. ASSUME t \in Seq(Tokens), Len(t) \in 1 .. MaxLen PROVE t \in TokenSeqs
    <2>1. t \in [1 .. Len(t) -> Tokens]
        BY <1>2, LenProperties
    <2> QED BY <1>2, <2>1 DEF TokenSeqs
<1> QED BY <1>1, <1>2

LEMMA TakeFacts ==
    ASSUME NEW t \in Seq(Tokens), NEW n \in 0 .. Len(t)
    PROVE  /\ Take(t, n) \in Seq(Tokens) /\ Len(Take(t, n)) = n
           /\ Take(t, 0) = Root /\ Take(t, Len(t)) = t
           /\ \A m \in 0 .. n : Take(Take(t, n), m) = Take(t, m)
           /\ Take(t, n) = Root <=> n = 0
<1>1. /\ Take(t, n) \in Seq(Tokens) /\ Len(Take(t, n)) = n
      /\ Take(t, 0) = <<>> /\ Take(t, Len(t)) = t
      /\ \A m \in 0 .. n : Take(Take(t, n), m) = Take(t, m)
    BY PrefixProperties DEF Take
<1>2. Take(t, n) = <<>> <=> n = 0
    BY <1>1, EmptySeq
<1> QED BY <1>1, <1>2 DEF Root

LEMMA SegFacts ==
    ASSUME NEW s \in GoodSegs
    PROVE  /\ s \in Segments /\ s.k \in TokenSeqs /\ s.k \in Seq(Tokens) /\ Len(s.k) \in 1 .. MaxLen
           /\ s.v.start \in 0 .. Len(s.k) - 1 /\ s.v.prev = Take(s.k, s.v.start)
           /\ s.v.prev \in Seq(Tokens) /\ Len(s.v.prev) = s.v.start
           /\ Size(s) \in Nat \ {0}
           /\ Payload(s) \in Seq(Tokens) /\ s.v.prev \o Payload(s) = s.k
           /\ s = Seg(s.k, s.v.prev, s.v.start)
<1>1. /\ s \in Segments /\ s.k \in TokenSeqs /\ s.v.start \in 0 .. MaxLen
      /\ s.v.start < Len(s.k) /\ s.v.prev = Take(s.k, s.v.start)
      /\ s = Seg(s.k, s.v.prev, s.v.start)
    BY DEF GoodSegs, Segments, Seg
<1>2. s.k \in Seq(Tokens) /\ Len(s.k) \in 1 .. MaxLen
    BY <1>1, TokenSeqFacts
<1>3. PICK k \in Seq(Tokens), n \in Nat : k = s.k /\ n = s.v.start /\ n < Len(k) /\ Len(k) \in Nat
    BY <1>1, <1>2, BoundsAssumption
<1>4. Take(k, n) \in Seq(Tokens) /\ Len(Take(k, n)) = n
    BY <1>3, TakeFacts
<1>5. Take(k, n) \o SubSeq(k, n + 1, Len(k)) = k /\ SubSeq(k, n + 1, Len(k)) \in Seq(Tokens)
    <2>1. SubSeq(k, 1, n) \o SubSeq(k, n + 1, Len(k)) = SubSeq(k, 1, Len(k))
        <3>1. /\ 1 \in 1 .. Len(k) + 1 /\ n \in 1 - 1 .. Len(k) /\ Len(k) \in n .. Len(k)
            BY <1>3
        <3> QED BY <3>1, ConcatAdjacentSubSeq
    <2>2. SubSeq(k, 1, Len(k)) = k
        BY SubSeqFull
    <2>3. ASSUME NEW i \in n + 1 .. Len(k) PROVE k[i] \in Tokens
        <3>1. i \in 1 .. Len(k)
            BY <1>3
        <3> QED BY <3>1, ElementOfSeq
    <2>4. SubSeq(k, n + 1, Len(k)) \in Seq(Tokens)
        BY <1>3, <2>3, SubSeqProperties
    <2> QED BY <2>1, <2>2, <2>4 DEF Take
<1>6. /\ s.v.start \in 0 .. Len(s.k) - 1 /\ Size(s) \in Nat \ {0}
    BY <1>3 DEF Size
<1>7. /\ s.v.prev \in Seq(Tokens) /\ Len(s.v.prev) = s.v.start
      /\ Payload(s) \in Seq(Tokens) /\ s.v.prev \o Payload(s) = s.k
    BY <1>1, <1>3, <1>4, <1>5 DEF Payload
<1> QED BY <1>1, <1>2, <1>6, <1>7

\* Which tokens make a segment.
LEMMA NewSeg ==
    ASSUME NEW t \in Seq(Tokens), NEW n \in 1 .. Len(t), n <= MaxLen, NEW c \in 0 .. n - 1
    PROVE  /\ Seg(Take(t, n), Take(t, c), c) \in GoodSegs
           /\ Seg(Take(t, n), Take(t, c), c).k = Take(t, n)
<1>1. /\ n \in 0 .. Len(t) /\ c \in 0 .. n /\ c \in 0 .. Len(t) /\ n \in 1 .. MaxLen
      /\ c \in 0 .. MaxLen /\ MaxLen \in Nat
    BY LenProperties, BoundsAssumption
<1>2. Take(t, n) \in Seq(Tokens) /\ Len(Take(t, n)) = n /\ Take(Take(t, n), c) = Take(t, c)
    BY <1>1, TakeFacts
<1>3. Take(t, c) \in Seq(Tokens) /\ Len(Take(t, c)) = c /\ (Take(t, c) = Root <=> c = 0)
    BY <1>1, TakeFacts
<1>4. Take(t, n) \in TokenSeqs /\ Take(t, c) \in TokenSeqs \cup {Root}
    <2>1. Take(t, n) \in TokenSeqs
        BY <1>1, <1>2, TokenSeqFacts
    <2>2. CASE c = 0
        BY <1>3, <2>1, <2>2
    <2>3. CASE c # 0
        <3>1. c \in 1 .. MaxLen
            BY <1>1, <2>3
        <3> QED BY <1>3, <2>1, <3>1, TokenSeqFacts
    <2> QED BY <2>2, <2>3
<1> QED BY <1>1, <1>2, <1>4 DEF Seg, GoodSegs, Segments

-----------------------------------------------------------------------------
(* Dictionaries of segments.                                               *)

LEMMA DictFacts ==
    ASSUME NEW d, Dict(d)
    PROVE  /\ d \in Seq(GoodSegs) /\ Len(d) \in Nat /\ DOMAIN d = 1 .. Len(d)
           /\ Range(d) \subseteq GoodSegs
           /\ Keys(d) = {x.k : x \in Range(d)}
           /\ \A i \in 1 .. Len(d) : d[i] \in Range(d)
           /\ \A i \in 1 .. Len(d) : IndexOf(d, d[i].k) = i
<1>1. d \in Seq(GoodSegs) /\ IsInjective(d) /\ Apart(Range(d))
    BY DEF Dict
<1>2. Len(d) \in Nat /\ DOMAIN d = 1 .. Len(d) /\ Range(d) \subseteq GoodSegs
    BY <1>1, LenProperties, RangeOfSeq
<1>3. \A i \in 1 .. Len(d) : d[i] \in Range(d)
    BY <1>2 DEF Range
<1>4. Keys(d) = {x.k : x \in Range(d)}
    BY DEF Keys, Range
<1>5. ASSUME NEW i \in 1 .. Len(d) PROVE IndexOf(d, d[i].k) = i
    <2>1. \A j \in DOMAIN d : d[j].k = d[i].k => j = i
        BY <1>1, <1>2, <1>3, <1>5 DEF Apart, IsInjective
    <2> QED BY <1>2, <2>1 DEF IndexOf
<1> QED BY <1>1, <1>2, <1>3, <1>4, <1>5

\* Where a key is found.
LEMMA DictAt ==
    ASSUME NEW d, Dict(d), NEW key \in Keys(d)
    PROVE  /\ d[IndexOf(d, key)] \in Range(d) /\ d[IndexOf(d, key)].k = key
<1>1. PICK i \in DOMAIN d : key = d[i].k
    BY DEF Keys
<1> QED BY <1>1, DictFacts

LEMMA DictEmpty == Dict(<<>>) /\ Keys(<<>>) = {} /\ Range(<<>>) = {}
BY EmptySeq DEF Dict, IsInjective, Apart, Range, Keys

LEMMA DictAppend ==
    ASSUME NEW d, Dict(d), NEW s \in GoodSegs, s.k \notin Keys(d)
    PROVE  /\ Dict(Append(d, s)) /\ Range(Append(d, s)) = Range(d) \cup {s}
           /\ Keys(Append(d, s)) = Keys(d) \cup {s.k}
<1>1. d \in Seq(GoodSegs) /\ IsInjective(d) /\ Apart(Range(d)) /\ Keys(d) = {x.k : x \in Range(d)}
    BY DictFacts DEF Dict
<1> DEFINE a == Append(d, s)
<1>2. a \in Seq(GoodSegs) /\ Range(a) = Range(d) \cup {s}
    BY <1>1, AppendProperties, AppendRange
<1>3. s \notin Range(d)
    BY <1>1
<1>4. IsInjective(a)
    BY <1>1, <1>3, AppendRange
<1> HIDE DEF a
<1>5. Apart(Range(a))
    BY <1>1, <1>2 DEF Apart
<1>6. Dict(a)
    BY <1>2, <1>4, <1>5 DEF Dict
<1>7. Keys(a) = Keys(d) \cup {s.k}
    BY <1>1, <1>2, <1>6, DictFacts
<1> QED BY <1>2, <1>6, <1>7 DEF a

\* Two dictionaries in a row.
LEMMA DictConcat ==
    ASSUME NEW d, NEW e, Dict(d), Dict(e)
    PROVE  /\ Range(d \o e) = Range(d) \cup Range(e) /\ d \o e \in Seq(GoodSegs)
           /\ Keys(d) \cap Keys(e) = {} => Dict(d \o e)
<1> DEFINE T == {t \in Seq(GoodSegs) :
                    /\ Range(d \o t) = Range(d) \cup Range(t) /\ d \o t \in Seq(GoodSegs)
                    /\ Dict(t) /\ Keys(d) \cap Keys(t) = {} => Dict(d \o t)}
<1>1. <<>> \in T
    <2>1. d \o <<>> = d /\ <<>> \in Seq(GoodSegs) /\ Range(<<>>) = {} /\ d \in Seq(GoodSegs)
        BY ConcatEmptySeq, EmptySeq, DictEmpty DEF Dict
    <2> QED BY <2>1
<1>2. ASSUME NEW t \in Seq(GoodSegs), NEW s \in GoodSegs, t \in T PROVE Append(t, s) \in T
    <2> DEFINE u == Append(t, s)
    <2>1. d \o u = Append(d \o t, s) /\ d \in Seq(GoodSegs) /\ d \o t \in Seq(GoodSegs)
        BY <1>2, AppendConcat DEF Dict
    <2>2. /\ u \in Seq(GoodSegs) /\ Range(u) = Range(t) \cup {s} /\ d \o u \in Seq(GoodSegs)
          /\ Range(d \o u) = Range(d \o t) \cup {s}
          /\ IsInjective(u) => IsInjective(t) /\ s \notin Range(t)
        <3>1. u \in Seq(GoodSegs) /\ Range(u) = Range(t) \cup {s}
            BY AppendProperties, AppendRange
        <3>2. IsInjective(u) => IsInjective(t) /\ s \notin Range(t)
            BY AppendRange
        <3> DEFINE v == d \o t
        <3>3. v \in Seq(GoodSegs) /\ d \o u = Append(v, s)
            BY <2>1
        <3> HIDE DEF v
        <3>4. Append(v, s) \in Seq(GoodSegs) /\ Range(Append(v, s)) = Range(v) \cup {s}
            BY <3>3, AppendProperties, AppendRange
        <3> HIDE DEF u
        <3> QED BY <3>1, <3>2, <3>3, <3>4 DEF v
    <2>3. Range(d \o t) = Range(d) \cup Range(t)
        BY <1>2
    <2>4. ASSUME Dict(u), Keys(d) \cap Keys(u) = {} PROVE Dict(d \o u)
        <3>1. Dict(t)
            BY <2>2, <2>4 DEF Dict, Apart
        <3>2. Keys(t) = {x.k : x \in Range(t)} /\ Keys(u) = {x.k : x \in Range(u)}
            BY <2>4, <3>1, DictFacts
        <3>3. Keys(t) \subseteq Keys(u) /\ s.k \in Keys(u)
            BY <2>2, <3>2
        <3>4. Dict(d \o t)
            BY <1>2, <2>4, <3>1, <3>3
        <3>5. Keys(d \o t) = {x.k : x \in Range(d \o t)} /\ Keys(d) = {x.k : x \in Range(d)}
            BY <3>4, DictFacts
        <3>6. s.k \notin Keys(t)
            <4>1. \A x \in Range(t) : x \in Range(u) /\ s \in Range(u) /\ x # s
                BY <2>2, <2>4 DEF Dict
            <4> QED BY <2>4, <3>2, <4>1 DEF Dict, Apart
        <3>7. s.k \notin Keys(d \o t)
            BY <2>3, <2>4, <3>2, <3>3, <3>5, <3>6
        <3> QED BY <2>1, <3>4, <3>7, DictAppend
    <2> HIDE DEF u
    <2> QED BY <2>2, <2>3, <2>4 DEF u
<1>3. Seq(GoodSegs) \subseteq T
    <2> HIDE DEF T
    <2> QED BY <1>1, <1>2, SequenceInduction
<1> QED BY <1>3 DEF Dict

\* A dictionary without some keys is a selection of it.
LEMMA LessFacts ==
    ASSUME NEW d, Dict(d), NEW keys
    PROVE  /\ Less(d, keys) = Only(d, {x \in GoodSegs : x.k \notin keys})
           /\ Dict(Less(d, keys)) /\ Range(Less(d, keys)) = {x \in Range(d) : x.k \notin keys}
           /\ Keys(Less(d, keys)) = Keys(d) \ keys
           /\ Len(Less(d, keys)) <= Len(d)
<1> DEFINE S == {x \in GoodSegs : x.k \notin keys}
           R == Range(d)
           V == Seq(R)
           st1 == [x \in R |-> [t \in V |-> IF x.k \in keys THEN t ELSE Append(t, x)]]
           st2 == OnlyStep(R, S)
<1>1. R \subseteq GoodSegs /\ d \in Seq(R) /\ d \in Seq(GoodSegs) /\ IsInjective(d) /\ Apart(R)
    BY RangeOfSeq, SeqOfRange DEF Dict
<1>2. Only(d, S) = Fold(st2, <<>>, d) /\ <<>> \in V /\ Closed(st2, R, V)
    BY <1>1, OnlyIsFold
<1>3. \A x \in R, v \in V : st2[x][v] = st1[x][v]
    BY <1>1 DEF OnlyStep
<1>4. Less(d, keys) = Fold(st1, <<>>, d)
    BY DEF Less
<1>5. Less(d, keys) = Only(d, S)
    <2> HIDE DEF st1, st2, V, S
    <2>1. Fold(st2, <<>>, d) = Fold(st1, <<>>, d)
        BY <1>1, <1>2, <1>3, FoldSame
    <2> QED BY <1>2, <1>4, <2>1
<1> HIDE DEF S, V, st1, st2
<1> DEFINE o == Only(d, S)
<1>6. /\ o \in Seq(GoodSegs) /\ Range(o) = R \cap S /\ IsInjective(o) /\ Len(o) <= Len(d)
    BY <1>1, OnlyProperties
<1> HIDE DEF o
<1>7. Range(o) = {x \in R : x.k \notin keys}
    BY <1>1, <1>6 DEF S
<1>8. Dict(o)
    BY <1>1, <1>6, <1>7 DEF Dict, Apart
<1>9. Keys(o) = Keys(d) \ keys
    <2>1. Keys(o) = {x.k : x \in Range(o)} /\ Keys(d) = {x.k : x \in R}
        BY <1>8, DictFacts
    <2> QED BY <1>7, <2>1
<1> QED BY <1>5, <1>6, <1>7, <1>8, <1>9 DEF o, S

\* Keys taken away one after the other.
LEMMA LessLess ==
    ASSUME NEW d, Dict(d), NEW k1, NEW k2
    PROVE  /\ Less(Less(d, k1), k2) = Less(d, k1 \cup k2)
           /\ Keys(d) \cap k1 = {} => Less(d, k1) = d
<1> DEFINE S1 == {x \in GoodSegs : x.k \notin k1}
           S2 == {x \in GoodSegs : x.k \notin k2}
           S3 == {x \in GoodSegs : x.k \notin k1 \cup k2}
<1>1. /\ Less(d, k1) = Only(d, S1) /\ Less(d, k1 \cup k2) = Only(d, S3) /\ Dict(Less(d, k1))
      /\ d \in Seq(GoodSegs)
    BY LessFacts DEF Dict
<1>2. Less(Less(d, k1), k2) = Only(Less(d, k1), S2)
    BY <1>1, LessFacts
<1>3. S1 \cap S2 = S3
    OBVIOUS
<1>4. Keys(d) \cap k1 = {} => Range(d) \subseteq S1
    BY DictFacts
<1> HIDE DEF S1, S2, S3
<1>5. Only(Only(d, S1), S2) = Only(d, S1 \cap S2)
    BY <1>1, OnlyOnly
<1>6. Range(d) \subseteq S1 => Only(d, S1) = d
    BY <1>1, OnlyAll
<1> QED BY <1>1, <1>2, <1>3, <1>4, <1>5, <1>6

-----------------------------------------------------------------------------
(* Byte counts.                                                            *)

SizeStep(X) == [s \in X |-> [n \in Int |-> n + Size(s)]]

LEMMA TotalIsFold ==
    ASSUME NEW s \in Seq(GoodSegs)
    PROVE  /\ TotalSize(s) = Fold(SizeStep(GoodSegs), 0, s)
           /\ Closed(SizeStep(GoodSegs), GoodSegs, Int)
<1> DEFINE R == Range(s)
           st1 == SizeStep(R)
           st2 == SizeStep(GoodSegs)
<1>1. R \subseteq GoodSegs /\ s \in Seq(R)
    BY RangeOfSeq, SeqOfRange
<1>2. \A x \in GoodSegs : Size(x) \in Int
    BY SegFacts
<1>3. Closed(st2, GoodSegs, Int) /\ Closed(st1, R, Int)
    BY <1>1, <1>2 DEF Closed, SizeStep
<1>4. 0 \in Int /\ \A x \in R, n \in Int : st1[x][n] = st2[x][n]
    BY <1>1 DEF SizeStep
<1>5. TotalSize(s) = Fold(st1, 0, s)
    BY DEF TotalSize, SizeStep
<1> HIDE DEF R, st1, st2
<1>6. Fold(st1, 0, s) = Fold(st2, 0, s)
    <2> DEFINE V == Int
    <2>1. 0 \in V /\ Closed(st1, R, V) /\ \A x \in R, n \in V : st1[x][n] = st2[x][n]
        BY <1>3, <1>4
    <2> HIDE DEF V
    <2> QED BY <1>1, <2>1, FoldSame
<1> QED BY <1>3, <1>5, <1>6 DEF st2

LEMMA TotalAppend ==
    ASSUME NEW s \in Seq(GoodSegs), NEW x \in GoodSegs
    PROVE  TotalSize(Append(s, x)) = TotalSize(s) + Size(x)
<1>1. Append(s, x) \in Seq(GoodSegs)
    BY AppendProperties
<1> DEFINE st == SizeStep(GoodSegs)
<1>2. TotalSize(s) = Fold(st, 0, s) /\ Closed(st, GoodSegs, Int)
    BY TotalIsFold
<1>3. TotalSize(Append(s, x)) = Fold(st, 0, Append(s, x))
    BY <1>1, TotalIsFold
<1> DEFINE V == Int
<1>4. 0 \in V /\ Closed(st, GoodSegs, V)
    BY <1>2
<1> HIDE DEF st, V
<1>5. Fold(st, 0, Append(s, x)) = st[x][Fold(st, 0, s)]
    BY <1>4, FoldAppend
<1>6. Fold(st, 0, s) \in V
    BY <1>4, FoldType
<1> QED BY <1>2, <1>3, <1>5, <1>6 DEF st, V, SizeStep

\* A count is at least the number of segments: none is empty.
LEMMA TotalType ==
    ASSUME NEW s \in Seq(GoodSegs)
    PROVE  /\ TotalSize(s) \in Nat /\ Len(s) <= TotalSize(s) /\ TotalSize(<<>>) = 0
           /\ TotalSize(s) = 0 => s = <<>>
<1> DEFINE T == {t \in Seq(GoodSegs) : TotalSize(t) \in Nat /\ Len(t) <= TotalSize(t)}
<1>1. TotalSize(<<>>) = 0 /\ <<>> \in T
    <2>1. <<>> \in Seq(GoodSegs) /\ Len(<<>>) = 0
        BY EmptySeq
    <2>2. TotalSize(<<>>) = 0
        BY <2>1, TotalIsFold, FoldEmpty
    <2> QED BY <2>1, <2>2
<1>2. ASSUME NEW t \in Seq(GoodSegs), NEW x \in GoodSegs, t \in T PROVE Append(t, x) \in T
    <2>1. TotalSize(Append(t, x)) = TotalSize(t) + Size(x) /\ Size(x) \in Nat \ {0}
        BY TotalAppend, SegFacts
    <2>2. Append(t, x) \in Seq(GoodSegs) /\ Len(Append(t, x)) = Len(t) + 1 /\ Len(t) \in Nat
        BY AppendProperties, LenProperties
    <2> QED BY <1>2, <2>1, <2>2
<1>3. s \in T
    <2> HIDE DEF T
    <2> QED BY <1>1, <1>2, SequenceInduction
<1>4. Len(s) \in Nat /\ (Len(s) = 0 => s = <<>>)
    BY EmptySeq, LenProperties
<1> QED BY <1>1, <1>3, <1>4

LEMMA TotalOne ==
    ASSUME NEW x \in GoodSegs PROVE TotalSize(<<x>>) = Size(x)
<1>1. <<>> \in Seq(GoodSegs) /\ Append(<<>>, x) = <<x>> /\ Size(x) \in Nat
    BY EmptySeq, SegFacts
<1>2. TotalSize(<<>>) = 0
    BY <1>1, TotalType
<1>3. TotalSize(Append(<<>>, x)) = TotalSize(<<>>) + Size(x)
    BY <1>1, TotalAppend
<1> QED BY <1>1, <1>2, <1>3

LEMMA TotalConcat ==
    ASSUME NEW s \in Seq(GoodSegs), NEW t \in Seq(GoodSegs)
    PROVE  TotalSize(s \o t) = TotalSize(s) + TotalSize(t)
<1> DEFINE T == {u \in Seq(GoodSegs) : TotalSize(s \o u) = TotalSize(s) + TotalSize(u)}
<1>1. <<>> \in T
    <2>1. <<>> \in Seq(GoodSegs) /\ s \o <<>> = s /\ TotalSize(<<>>) = 0 /\ TotalSize(s) \in Nat
        BY EmptySeq, ConcatEmptySeq, TotalType
    <2> QED BY <2>1
<1>2. ASSUME NEW u \in Seq(GoodSegs), NEW x \in GoodSegs, u \in T PROVE Append(u, x) \in T
    <2> DEFINE v == s \o u
    <2>1. v \in Seq(GoodSegs) /\ s \o Append(u, x) = Append(v, x)
        BY ConcatProperties, AppendConcat
    <2>2. TotalSize(v) = TotalSize(s) + TotalSize(u)
        BY <1>2
    <2> HIDE DEF v
    <2>3. TotalSize(Append(v, x)) = TotalSize(v) + Size(x)
        BY <2>1, TotalAppend
    <2>4. TotalSize(Append(u, x)) = TotalSize(u) + Size(x)
        BY TotalAppend
    <2>5. TotalSize(s) \in Nat /\ TotalSize(u) \in Nat /\ Size(x) \in Nat
        BY TotalType, SegFacts
    <2>6. Append(u, x) \in Seq(GoodSegs)
        BY AppendProperties
    <2>7. TotalSize(s \o Append(u, x)) = TotalSize(s) + TotalSize(Append(u, x))
        BY <2>1, <2>2, <2>3, <2>4, <2>5
    <2> QED BY <2>6, <2>7
<1>3. t \in T
    <2> HIDE DEF T
    <2> QED BY <1>1, <1>2, SequenceInduction
<1> QED BY <1>3

\* A selection and the rest.
LEMMA TotalOnly ==
    ASSUME NEW s \in Seq(GoodSegs), NEW S
    PROVE  TotalSize(s) = TotalSize(Only(s, S)) + TotalSize(Only(s, GoodSegs \ S))
<1> DEFINE R == GoodSegs \ S
           T == {t \in Seq(GoodSegs) :
                    TotalSize(t) = TotalSize(Only(t, S)) + TotalSize(Only(t, R))}
<1>1. <<>> \in T
    <2>1. <<>> \in Seq(GoodSegs) /\ TotalSize(<<>>) = 0
        BY EmptySeq, TotalType
    <2>2. Only(<<>>, S) = <<>> /\ Only(<<>>, R) = <<>>
        BY OnlyEmpty
    <2> QED BY <2>1, <2>2
<1>2. ASSUME NEW t \in Seq(GoodSegs), NEW x \in GoodSegs, t \in T PROVE Append(t, x) \in T
    <2>1. Append(t, x) \in Seq(GoodSegs) /\ TotalSize(Append(t, x)) = TotalSize(t) + Size(x)
        BY AppendProperties, TotalAppend
    <2>2. Only(t, S) \in Seq(GoodSegs) /\ Only(t, R) \in Seq(GoodSegs)
        BY OnlyType
    <2>3. /\ TotalSize(Only(t, S)) \in Nat /\ TotalSize(Only(t, R)) \in Nat /\ Size(x) \in Nat
          /\ TotalSize(Append(Only(t, S), x)) = TotalSize(Only(t, S)) + Size(x)
          /\ TotalSize(Append(Only(t, R), x)) = TotalSize(Only(t, R)) + Size(x)
        BY <2>2, TotalType, TotalAppend, SegFacts
    <2>4. TotalSize(t) = TotalSize(Only(t, S)) + TotalSize(Only(t, R))
        BY <1>2
    <2>0. PICK a \in Nat, b \in Nat, n \in Nat :
             a = TotalSize(Only(t, S)) /\ b = TotalSize(Only(t, R)) /\ n = Size(x)
        BY <2>3
    <2>7. a + b + n = (a + n) + b /\ a + b + n = a + (b + n)
        OBVIOUS
    <2>5. CASE x \in S
        <3>1. x \notin R
            BY <2>5
        <3>2. Only(Append(t, x), S) = Append(Only(t, S), x) /\ Only(Append(t, x), R) = Only(t, R)
            BY <2>5, <3>1, OnlyAppend
        <3>3. TotalSize(Append(t, x)) =
                 TotalSize(Only(Append(t, x), S)) + TotalSize(Only(Append(t, x), R))
            BY <2>0, <2>1, <2>3, <2>4, <2>7, <3>2
        <3> QED BY <2>1, <3>3
    <2>6. CASE x \notin S
        <3>1. x \in R
            BY <2>6
        <3>2. Only(Append(t, x), R) = Append(Only(t, R), x) /\ Only(Append(t, x), S) = Only(t, S)
            BY <2>6, <3>1, OnlyAppend
        <3>3. TotalSize(Append(t, x)) =
                 TotalSize(Only(Append(t, x), S)) + TotalSize(Only(Append(t, x), R))
            BY <2>0, <2>1, <2>3, <2>4, <2>7, <3>2
        <3> QED BY <2>1, <3>3
    <2> QED BY <2>5, <2>6
<1>3. s \in T
    <2> HIDE DEF T
    <2> QED BY <1>1, <1>2, SequenceInduction
<1> QED BY <1>3

\* A dictionary without one of its segments.
LEMMA TotalLess ==
    ASSUME NEW d, Dict(d), NEW x \in Range(d)
    PROVE  TotalSize(Less(d, {x.k})) = TotalSize(d) - Size(x)
<1>1. d \in Seq(GoodSegs) /\ IsInjective(d) /\ Apart(Range(d)) /\ x \in GoodSegs
    BY DictFacts DEF Dict
<1> DEFINE S == {x}
           R == GoodSegs \ S
           o == Only(d, S)
<1>2. Less(d, {x.k}) = Only(d, R)
    <2> DEFINE Q == {y \in GoodSegs : y.k \notin {x.k}}
    <2>1. Less(d, {x.k}) = Only(d, Q)
        BY LessFacts
    <2>2. Range(d) \cap Q = Range(d) \cap R
        BY <1>1 DEF Apart
    <2>3. Range(d) \subseteq Range(d)
        OBVIOUS
    <2> HIDE DEF Q, R
    <2>4. Only(d, Range(d)) = d
        BY <1>1, <2>3, OnlyAll
    <2>5. Only(Only(d, Range(d)), Q) = Only(d, Range(d) \cap Q)
        BY <1>1, OnlyOnly
    <2>6. Only(Only(d, Range(d)), R) = Only(d, Range(d) \cap R)
        BY <1>1, OnlyOnly
    <2> QED BY <2>1, <2>2, <2>4, <2>5, <2>6
<1>3. o \in Seq(GoodSegs) /\ Range(o) = {x} /\ IsInjective(o)
    <2>1. o \in Seq(GoodSegs) /\ Range(o) = Range(d) \cap S /\ IsInjective(o)
        BY <1>1, OnlyProperties
    <2> QED BY <2>1
<1> HIDE DEF o
<1>4. o = <<x>>
    <2>1. Cardinality({x}) = Len(o)
        BY <1>3, InjectiveLen
    <2>2. Len(o) = 1
        BY <2>1, FS_Singleton
    <2>3. o[1] \in Range(o)
        BY <1>3, <2>2, LenProperties DEF Range
    <2>4. <<x>> \in Seq(GoodSegs) /\ Len(<<x>>) = 1 /\ <<x>>[1] = x /\ o[1] = x
        BY <1>1, <1>3, <2>3
    <2> QED BY <1>3, <2>2, <2>4, SeqEqual
<1>5. TotalSize(d) = TotalSize(o) + TotalSize(Only(d, R))
    BY <1>1, TotalOnly DEF o
<1>6. TotalSize(o) = Size(x) /\ Size(x) \in Nat /\ TotalSize(Only(d, R)) \in Nat
    <2>1. Only(d, R) \in Seq(GoodSegs)
        BY <1>1, OnlyType
    <2> QED BY <1>1, <1>4, <2>1, TotalOne, SegFacts, TotalType
<1> QED BY <1>2, <1>5, <1>6

\* Some segments of a dictionary moved to its end.
LEMMA TouchedFacts ==
    ASSUME NEW d, Dict(d), NEW u, Dict(u), Range(u) \subseteq Range(d)
    PROVE  /\ Dict(Touched(d, u)) /\ Range(Touched(d, u)) = Range(d)
           /\ Keys(Touched(d, u)) = Keys(d) /\ TotalSize(Touched(d, u)) = TotalSize(d)
<1>1. /\ Dict(Less(d, Keys(u))) /\ Range(Less(d, Keys(u))) = {x \in Range(d) : x.k \notin Keys(u)}
      /\ Keys(Less(d, Keys(u))) = Keys(d) \ Keys(u)
    BY LessFacts
<1>2. Apart(Range(d)) /\ Keys(u) = {x.k : x \in Range(u)} /\ Keys(d) = {x.k : x \in Range(d)}
      /\ d \in Seq(GoodSegs) /\ u \in Seq(GoodSegs)
    BY DictFacts DEF Dict
<1>3. {x \in Range(d) : x.k \notin Keys(u)} = Range(d) \ Range(u)
    BY <1>2 DEF Apart
<1>4. Dict(Touched(d, u)) /\ Range(Touched(d, u)) = Range(d)
    <2> DEFINE l == Less(d, Keys(u))
    <2>1. Dict(l) /\ Keys(l) \cap Keys(u) = {} /\ Range(l) \cup Range(u) = Range(d)
        BY <1>1, <1>3
    <2>2. Touched(d, u) = l \o u
        BY DEF Touched
    <2> HIDE DEF l
    <2> QED BY <2>1, <2>2, DictConcat
<1>5. Keys(Touched(d, u)) = Keys(d)
    BY <1>2, <1>4, DictFacts
<1> DEFINE Kept(t) == TotalSize(Less(d, Keys(t))) + TotalSize(t) = TotalSize(d)
           T == {t \in Seq(GoodSegs) : Dict(t) /\ Range(t) \subseteq Range(d) => Kept(t)}
<1>6. <<>> \in T
    <2>1. <<>> \in Seq(GoodSegs) /\ TotalSize(<<>>) = 0 /\ Keys(<<>>) = {} /\ TotalSize(d) \in Nat
        BY <1>2, EmptySeq, TotalType, DictEmpty
    <2>2. Less(d, {}) = d
        <3>1. Keys(d) \cap {} = {}
            OBVIOUS
        <3> QED BY <3>1, LessLess
    <2>3. Kept(<<>>)
        <3>1. TotalSize(Less(d, Keys(<<>>))) = TotalSize(d)
            BY <2>1, <2>2
        <3>2. TotalSize(d) + 0 = TotalSize(d)
            BY <2>1
        <3> QED BY <2>1, <3>1, <3>2
    <2> QED BY <2>1, <2>3
<1>7. ASSUME NEW t \in Seq(GoodSegs), NEW x \in GoodSegs, t \in T PROVE Append(t, x) \in T
    <2> DEFINE v == Append(t, x)
    <2>1. /\ v \in Seq(GoodSegs) /\ Range(v) = Range(t) \cup {x}
          /\ IsInjective(v) => IsInjective(t) /\ x \notin Range(t)
        BY AppendProperties, AppendRange
    <2>2. TotalSize(v) = TotalSize(t) + Size(x)
        BY TotalAppend
    <2> HIDE DEF v
    <2> SUFFICES ASSUME Dict(v), Range(v) \subseteq Range(d) PROVE Kept(v)
        BY <2>1 DEF v
    <2>3. Dict(t) /\ Kept(t) /\ x \in Range(d)
        <3>1. Dict(t) /\ Range(t) \subseteq Range(d)
            BY <2>1 DEF Dict, Apart
        <3> QED BY <1>7, <2>1, <3>1
    <2>4. Keys(v) = Keys(t) \cup {x.k} /\ x.k \notin Keys(t)
        <3>1. Keys(v) = {y.k : y \in Range(v)} /\ Keys(t) = {y.k : y \in Range(t)}
            BY <2>3, DictFacts
        <3>2. x \notin Range(t) /\ Apart(Range(v))
            BY <2>1 DEF Dict
        <3> QED BY <2>1, <3>1, <3>2 DEF Apart
    <2> DEFINE l == Less(d, Keys(t))
    <2>5. Less(d, Keys(v)) = Less(l, {x.k}) /\ Dict(l) /\ x \in Range(l)
        <3>1. Less(l, {x.k}) = Less(d, Keys(t) \cup {x.k})
            BY LessLess
        <3>2. Dict(l) /\ Range(l) = {y \in Range(d) : y.k \notin Keys(t)}
            BY LessFacts
        <3> QED BY <2>3, <2>4, <3>1, <3>2
    <2> HIDE DEF l
    <2>6. TotalSize(Less(l, {x.k})) = TotalSize(l) - Size(x)
        BY <2>5, TotalLess
    <2>7. TotalSize(l) \in Nat /\ TotalSize(t) \in Nat /\ Size(x) \in Nat /\ TotalSize(d) \in Nat
        BY <1>2, <2>5, TotalType, SegFacts DEF Dict
    <2>8. TotalSize(l) + TotalSize(t) = TotalSize(d)
        BY <2>3 DEF l
    <2> QED BY <2>2, <2>5, <2>6, <2>7, <2>8
<1>8. u \in T
    <2> HIDE DEF T
    <2> QED BY <1>2, <1>6, <1>7, SequenceInduction
<1>9. TotalSize(Touched(d, u)) = TotalSize(d)
    <2>1. Less(d, Keys(u)) \in Seq(GoodSegs)
        BY <1>1 DEF Dict
    <2>2. TotalSize(Less(d, Keys(u)) \o u) = TotalSize(Less(d, Keys(u))) + TotalSize(u)
        BY <1>2, <2>1, TotalConcat
    <2>3. Kept(u)
        BY <1>8
    <2> QED BY <2>2, <2>3 DEF Touched
<1> QED BY <1>4, <1>5, <1>9

-----------------------------------------------------------------------------
(* The index.                                                              *)

LinkSet == Seq(Tokens) \X TokenSeqs
GoodIndex(ix) ==
    /\ ix \in [segs : Seq(GoodSegs), nexts : SUBSET LinkSet, bytes : Int]
    /\ Dict(ix.segs) /\ ix.nexts = Links(ix.segs) /\ ix.bytes = TotalSize(ix.segs)

LEMMA MakeIndex ==
    ASSUME NEW d, Dict(d)
    PROVE  GoodIndex([segs |-> d, nexts |-> Links(d), bytes |-> TotalSize(d)])
<1>1. d \in Seq(GoodSegs) /\ Range(d) \subseteq GoodSegs
    BY DictFacts
<1>2. Links(d) \in SUBSET LinkSet
    BY <1>1, SegFacts DEF Links, LinkSet
<1>3. TotalSize(d) \in Int
    BY <1>1, TotalType
<1> QED BY <1>1, <1>2, <1>3 DEF GoodIndex

LEMMA GoodFacts ==
    ASSUME NEW ix, GoodIndex(ix)
    PROVE  /\ ix = [segs |-> ix.segs, nexts |-> Links(ix.segs), bytes |-> TotalSize(ix.segs)]
           /\ Dict(ix.segs) /\ ix.nexts = Links(ix.segs) /\ ix.bytes = TotalSize(ix.segs)
           /\ ix.bytes \in Nat
<1>1. ix.segs \in Seq(GoodSegs)
    BY DEF GoodIndex, Dict
<1>2. ix.bytes \in Nat
    BY <1>1, TotalType DEF GoodIndex
<1> QED BY <1>2 DEF GoodIndex

\* The index of nothing.
LEMMA EmptyGood == GoodIndex(EmptyIndex)
<1>1. Dict(<<>>) /\ Links(<<>>) = {}
    BY DictEmpty DEF Links
<1>2. TotalSize(<<>>) = 0
    BY <1>1, TotalType DEF Dict
<1> QED BY <1>1, <1>2, MakeIndex DEF EmptyIndex

\* A new segment added.
LEMMA AddGood ==
    ASSUME NEW ix, GoodIndex(ix), NEW s \in GoodSegs, s.k \notin Keys(ix.segs)
    PROVE  GoodIndex(Add(ix, s)) /\ Add(ix, s).segs = Append(ix.segs, s)
<1> DEFINE d == ix.segs
           a == Append(d, s)
<1>1. Dict(d) /\ ix.nexts = Links(d) /\ ix.bytes = TotalSize(d) /\ ix.bytes \in Nat
    BY GoodFacts
<1>2. Renewed(d, s) = a
    <2>1. Less(d, {s.k}) = d
        BY <1>1, LessLess
    <2> QED BY <2>1 DEF Renewed
<1>3. Dict(a) /\ Range(a) = Range(d) \cup {s}
    BY <1>1, DictAppend
<1>4. TotalSize(a) = ix.bytes - 0 + Size(s)
    <2>1. d \in Seq(GoodSegs) /\ Size(s) \in Nat
        BY <1>1, SegFacts DEF Dict
    <2>2. TotalSize(a) = TotalSize(d) + Size(s)
        BY <2>1, TotalAppend
    <2> QED BY <1>1, <2>1, <2>2
<1>5. Add(ix, s) = [segs |-> a, nexts |-> Links(a), bytes |-> TotalSize(a)]
    <2>1. Links(a) = ix.nexts \cup {<<s.v.prev, s.k>>}
        BY <1>1, <1>3 DEF Links
    <2> QED BY <1>2, <1>4, <2>1 DEF Add
<1>6. Add(ix, s).segs = a
    BY <1>5
<1> HIDE DEF a
<1>7. GoodIndex(Add(ix, s))
    BY <1>3, <1>5, MakeIndex
<1> QED BY <1>6, <1>7 DEF a

\* A segment dropped.
LEMMA DropGood ==
    ASSUME NEW ix, GoodIndex(ix), NEW s \in Range(ix.segs)
    PROVE  GoodIndex(Drop(ix, s)) /\ Drop(ix, s).segs = Less(ix.segs, {s.k})
<1> DEFINE d == ix.segs
           l == Less(d, {s.k})
<1>1. Dict(d) /\ ix.nexts = Links(d) /\ ix.bytes = TotalSize(d)
    BY GoodFacts
<1>2. Dict(l) /\ Range(l) = {x \in Range(d) : x.k # s.k}
    <2>1. Dict(l) /\ Range(l) = {x \in Range(d) : x.k \notin {s.k}}
        BY <1>1, LessFacts
    <2> QED BY <2>1
<1>3. TotalSize(l) = ix.bytes - Size(s)
    BY <1>1, TotalLess
<1>4. Links(l) = ix.nexts \ {<<s.v.prev, s.k>>}
    <2>1. Apart(Range(d))
        BY <1>1 DEF Dict
    <2>2. ASSUME NEW p PROVE p \in Links(l) <=> p \in ix.nexts \ {<<s.v.prev, s.k>>}
        <3>1. ASSUME p \in Links(l) PROVE p \in ix.nexts \ {<<s.v.prev, s.k>>}
            <4>1. PICK x \in Range(l) : p = <<x.v.prev, x.k>>
                BY <3>1 DEF Links
            <4>2. x \in Range(d) /\ x.k # s.k
                BY <1>2
            <4>3. p # <<s.v.prev, s.k>>
                BY <4>1, <4>2
            <4> QED BY <1>1, <4>1, <4>2, <4>3 DEF Links
        <3>2. ASSUME p \in ix.nexts \ {<<s.v.prev, s.k>>} PROVE p \in Links(l)
            <4>1. PICK x \in Range(d) : p = <<x.v.prev, x.k>>
                BY <1>1, <3>2 DEF Links
            <4>2. x.k # s.k
                BY <2>1, <3>2, <4>1 DEF Apart
            <4> QED BY <1>2, <4>1, <4>2 DEF Links
        <3> QED BY <3>1, <3>2
    <2> QED BY <2>2
<1>5. Drop(ix, s) = [segs |-> l, nexts |-> Links(l), bytes |-> TotalSize(l)]
    BY <1>3, <1>4 DEF Drop
<1>6. Drop(ix, s).segs = l
    BY <1>5
<1> HIDE DEF l
<1>7. GoodIndex(Drop(ix, s))
    BY <1>2, <1>5, MakeIndex
<1> QED BY <1>6, <1>7 DEF l

\* The segments of R that none of R extends.
Tips(R) == {x \in R : \A y \in R : y.v.prev # x.k}

\* A segment with a longest key is one of them.
LEMMA TipExists ==
    ASSUME NEW d, Dict(d), d # <<>>
    PROVE  Tips(Range(d)) # {}
<1> DEFINE R == Range(d)
           lens == {MaxLen - Len(x.k) : x \in R}
<1>1. \A x \in R : Len(x.k) \in 1 .. MaxLen /\ x.v.prev \in Seq(Tokens) /\ Len(x.v.prev) < Len(x.k)
    <2> SUFFICES ASSUME NEW x \in R PROVE Len(x.k) \in 1 .. MaxLen /\ Len(x.v.prev) < Len(x.k)
                                          /\ x.v.prev \in Seq(Tokens)
        OBVIOUS
    <2>1. x \in GoodSegs
        BY DictFacts
    <2> QED BY <2>1, SegFacts
<1>2. MaxLen \in Nat
    BY BoundsAssumption
<1>3. lens \in SUBSET Nat
    BY <1>1, <1>2
<1>4. lens # {}
    <2>1. d \in Seq(GoodSegs)
        BY DEF Dict
    <2>2. Len(d) \in Nat /\ Len(d) # 0
        BY <2>1, EmptySeq, LenProperties
    <2>3. 1 \in 1 .. Len(d)
        BY <2>2
    <2>4. d[1] \in R
        BY <2>3, DictFacts
    <2> QED BY <2>4
<1> HIDE DEF lens
<1>5. PICK n \in lens : \A m \in lens : n <= m
    BY <1>3, <1>4, LeastNatural
<1>6. PICK x \in R : n = MaxLen - Len(x.k)
    BY <1>5 DEF lens
<1>7. ASSUME NEW y \in R, y.v.prev = x.k PROVE FALSE
    <2>1. Len(x.k) < Len(y.k) /\ Len(x.k) \in 1 .. MaxLen /\ Len(y.k) \in 1 .. MaxLen
        BY <1>1, <1>7
    <2>2. MaxLen - Len(x.k) <= MaxLen - Len(y.k)
        BY <1>5, <1>6 DEF lens
    <2> QED BY <1>2, <2>1, <2>2
<1> QED BY <1>6, <1>7 DEF Tips

\* The leaves are the segments that none extends: there is one unless there
\* is no segment.
LEMMA LeafExists ==
    ASSUME NEW ix, GoodIndex(ix)
    PROVE  /\ Dict(Leaves(ix)) /\ Range(Leaves(ix)) = Tips(Range(ix.segs))
           /\ Range(Leaves(ix)) \subseteq Range(ix.segs)
           /\ ix.segs # <<>> => Leaves(ix) # <<>>
<1> DEFINE d == ix.segs
           R == Range(d)
           starts == {link[1] : link \in ix.nexts}
           l == Less(d, starts)
<1>1. Dict(d) /\ ix.nexts = Links(d)
    BY GoodFacts
<1>2. Dict(l) /\ Range(l) = {x \in R : x.k \notin starts}
    BY <1>1, LessFacts
<1>3. Leaves(ix) = l
    BY DEF Leaves
<1>4. starts = {y.v.prev : y \in R}
    <2>1. ASSUME NEW link \in ix.nexts PROVE \E y \in R : link[1] = y.v.prev
        <3>1. PICK y \in R : link = <<y.v.prev, y.k>>
            BY <1>1 DEF Links
        <3> QED BY <3>1
    <2>2. ASSUME NEW y \in R PROVE \E link \in ix.nexts : link[1] = y.v.prev
        <3>1. PICK link : link = <<y.v.prev, y.k>>
            OBVIOUS
        <3>2. link \in ix.nexts
            BY <1>1, <3>1 DEF Links
        <3> QED BY <3>1, <3>2
    <2> QED BY <2>1, <2>2
<1>5. Range(l) = Tips(R)
    BY <1>2, <1>4 DEF Tips
<1> HIDE DEF starts
<1>6. d # <<>> => l # <<>>
    <2> SUFFICES ASSUME d # <<>>, l = <<>> PROVE FALSE
        OBVIOUS
    <2>1. Tips(R) # {}
        BY <1>1, TipExists
    <2>2. Range(l) = {}
        BY DictEmpty
    <2> QED BY <1>5, <2>1, <2>2
<1> QED BY <1>2, <1>3, <1>5, <1>6

\* e is d less some of its segments.
Cut(d, e) ==
    /\ Dict(e) /\ Range(e) \subseteq Range(d) /\ Keys(e) \subseteq Keys(d)
    /\ e = Less(d, Keys(d) \ Keys(e))

LEMMA CutSelf ==
    ASSUME NEW d, Dict(d) PROVE Cut(d, d)
<1>1. Keys(d) \cap (Keys(d) \ Keys(d)) = {}
    OBVIOUS
<1>2. Less(d, Keys(d) \ Keys(d)) = d
    BY <1>1, LessLess
<1> QED BY <1>2 DEF Cut

LEMMA CutLess ==
    ASSUME NEW d, NEW e, NEW s, Dict(d), Cut(d, e), s \in Range(e)
    PROVE  Cut(d, Less(e, {s.k})) /\ Len(Less(e, {s.k})) < Len(e)
<1> DEFINE f == Less(e, {s.k})
<1>1. Dict(e) /\ Range(e) \subseteq Range(d) /\ e = Less(d, Keys(d) \ Keys(e)) /\ Keys(e) \subseteq Keys(d)
    BY DEF Cut
<1>2. Dict(f) /\ Keys(f) = Keys(e) \ {s.k} /\ Range(f) = {x \in Range(e) : x.k \notin {s.k}}
    BY <1>1, LessFacts
<1>3. s.k \in Keys(e) /\ Apart(Range(e))
    BY <1>1, DictFacts DEF Dict
<1>4. f = Less(d, (Keys(d) \ Keys(e)) \cup {s.k})
    BY <1>1, LessLess
<1> HIDE DEF f
<1>5. (Keys(d) \ Keys(e)) \cup {s.k} = Keys(d) \ Keys(f)
    BY <1>1, <1>2, <1>3
<1>6. Cut(d, f)
    BY <1>1, <1>2, <1>4, <1>5 DEF Cut
<1>7. Range(f) = Range(e) \ {s}
    BY <1>2, <1>3 DEF Apart
<1>8. Len(f) < Len(e)
    <2>1. Cardinality(Range(e)) = Len(e) /\ Cardinality(Range(f)) = Len(f) /\ IsFiniteSet(Range(e))
        BY <1>1, <1>2, InjectiveLen DEF Dict
    <2>2. Cardinality(Range(e) \ {s}) = Cardinality(Range(e)) - 1
        BY <2>1, FS_RemoveElement
    <2>3. Len(e) \in Nat
        BY <1>1, DictFacts
    <2> QED BY <1>7, <2>1, <2>2, <2>3
<1> QED BY <1>6, <1>8 DEF f

\* The leaf evicted.
LEMMA OldestLeaf ==
    ASSUME NEW ix, GoodIndex(ix), Leaves(ix) # <<>>
    PROVE  /\ Head(Leaves(ix)) \in Tips(Range(ix.segs)) /\ Head(Leaves(ix)) = Leaves(ix)[1]
           /\ Head(Leaves(ix)) \in Range(ix.segs) /\ Leaves(ix) \in Seq(GoodSegs)
<1>1. PICK l : l = Leaves(ix)
    OBVIOUS
<1>2. /\ Dict(l) /\ Range(l) = Tips(Range(ix.segs)) /\ Range(l) \subseteq Range(ix.segs)
      /\ l # <<>>
    BY <1>1, LeafExists
<1>3. l \in Seq(GoodSegs)
    BY <1>2 DEF Dict
<1>4. Head(l) = l[1] /\ Len(l) # 0 /\ Len(l) \in Nat
    BY <1>2, <1>3, EmptySeq, LenProperties
<1>5. 1 \in 1 .. Len(l)
    BY <1>4
<1>6. l[1] \in Range(l)
    BY <1>2, <1>5, DictFacts
<1> QED BY <1>1, <1>2, <1>3, <1>4, <1>6

\* One round of eviction.
LEMMA RoundGood ==
    ASSUME NEW d, Dict(d), NEW ix, GoodIndex(ix), Cut(d, ix.segs)
    PROVE  LET y == DropOldestLeaf(ix)
           IN  /\ GoodIndex(y) /\ Cut(d, y.segs) /\ y.nexts \subseteq ix.nexts
               /\ Len(y.segs) <= Len(ix.segs) /\ (ix.bytes <= MaxBytes => y = ix)
               /\ ix.bytes > MaxBytes => Len(y.segs) < Len(ix.segs)
<1>1. /\ Dict(ix.segs) /\ ix.bytes = TotalSize(ix.segs) /\ ix.bytes \in Nat /\ MaxBytes \in Nat
      /\ Len(ix.segs) \in Nat
    BY GoodFacts, DictFacts, BoundsAssumption
<1>2. CASE ix.bytes > MaxBytes /\ Leaves(ix) # <<>>
    <2> DEFINE l == Leaves(ix)
               s == Head(l)
    <2>1. DropOldestLeaf(ix) = Drop(ix, s)
        BY <1>2 DEF DropOldestLeaf
    <2>2. s \in Range(ix.segs)
        BY <1>2, OldestLeaf
    <2> HIDE DEF l, s
    <2>3. GoodIndex(Drop(ix, s)) /\ Drop(ix, s).segs = Less(ix.segs, {s.k})
        BY <2>2, DropGood
    <2>4. Cut(d, Less(ix.segs, {s.k})) /\ Len(Less(ix.segs, {s.k})) < Len(ix.segs)
        BY <2>2, CutLess
    <2>5. Drop(ix, s).nexts \subseteq ix.nexts
        BY DEF Drop
    <2>6. Len(Less(ix.segs, {s.k})) \in Nat /\ ~(ix.bytes <= MaxBytes)
        <3>1. Dict(Less(ix.segs, {s.k}))
            BY <1>1, LessFacts
        <3> QED BY <1>1, <1>2, <3>1, DictFacts
    <2> QED BY <1>1, <2>1, <2>3, <2>4, <2>5, <2>6
<1>3. CASE ~(ix.bytes > MaxBytes /\ Leaves(ix) # <<>>)
    <2>1. DropOldestLeaf(ix) = ix
        BY <1>3 DEF DropOldestLeaf
    <2>2. ix.bytes <= MaxBytes
        <3> SUFFICES ASSUME ~(ix.bytes <= MaxBytes) PROVE FALSE
            OBVIOUS
        <3>1. ix.segs = <<>>
            BY <1>1, <1>3, LeafExists
        <3>2. TotalSize(<<>>) = 0
            BY <1>1, TotalType DEF Dict
        <3> QED BY <1>1, <3>1, <3>2
    <2> QED BY <1>1, <2>1, <2>2
<1> QED BY <1>2, <1>3

\* Eviction, round after round.
Rounds(f, ix) ==
    /\ f[0] = ix /\ Evict(ix) = f[Len(ix.segs)]
    /\ \A m \in 0 .. Len(ix.segs) : GoodIndex(f[m]) /\ Cut(ix.segs, f[m].segs)
    /\ \A m \in 1 .. Len(ix.segs) : f[m] = DropOldestLeaf(f[m - 1])

LEMMA EvictRounds ==
    ASSUME NEW ix, GoodIndex(ix), ~(ix.bytes <= MaxBytes)
    PROVE  \E f : Rounds(f, ix)
<1> DEFINE d == ix.segs
           R == Range(d)
           Indices == [segs : Seq(R), nexts : SUBSET ix.nexts, bytes : Int]
           Round == [x \in Indices |-> CHOOSE y \in {DropOldestLeaf(z) : z \in {x}} : TRUE]
           st == [s \in R |-> Round]
           V == {x \in Indices : GoodIndex(x) /\ Cut(d, x.segs)}
<1>1. /\ Dict(d) /\ d \in Seq(R) /\ ix.bytes \in Nat /\ Len(d) \in Nat /\ Cut(d, d)
    BY GoodFacts, DictFacts, SeqOfRange, CutSelf
<1>2. Evict(ix) = Fold(st, ix, d)
    BY DEF Evict
<1>3. ix \in V
    <2>1. ix = [segs |-> d, nexts |-> ix.nexts, bytes |-> ix.bytes]
        BY GoodFacts
    <2> QED BY <1>1, <2>1
<1>4. ASSUME NEW x \in V PROVE Round[x] = DropOldestLeaf(x) /\ Round[x] \in V
    <2>1. x \in Indices /\ GoodIndex(x) /\ Cut(d, x.segs)
        OBVIOUS
    <2>2. Round[x] = DropOldestLeaf(x)
        BY <2>1
    <2> DEFINE y == DropOldestLeaf(x)
    <2>3. GoodIndex(y) /\ Cut(d, y.segs) /\ y.nexts \subseteq x.nexts
        BY <1>1, <2>1, RoundGood
    <2> HIDE DEF y
    <2>4. y.segs \in Seq(R)
        <3>1. y.segs \in Seq(GoodSegs) /\ Range(y.segs) \subseteq R
            BY <2>3 DEF Cut, Dict
        <3>2. y.segs \in Seq(Range(y.segs))
            BY <3>1, SeqOfRange
        <3> QED BY <3>1, <3>2
    <2>5. y \in Indices
        <3>1. y = [segs |-> y.segs, nexts |-> y.nexts, bytes |-> y.bytes] /\ y.bytes \in Int
            <4>1. GoodIndex(y)
                BY <2>3
            <4> QED BY <4>1 DEF GoodIndex
        <3>2. y.nexts \in SUBSET ix.nexts
            BY <2>1, <2>3
        <3> QED BY <2>4, <3>1, <3>2
    <2> QED BY <2>2, <2>3, <2>5 DEF y
<1>5. Closed(st, R, V)
    <2>1. \A s \in R : st[s] = Round
        OBVIOUS
    <2> HIDE DEF st, Round, V, R
    <2> QED BY <1>4, <2>1 DEF Closed
<1>6. \A s \in R, x \in V : st[s][x] = DropOldestLeaf(x)
    <2>1. \A s \in R : st[s] = Round
        OBVIOUS
    <2> HIDE DEF st, Round, V, R
    <2> QED BY <1>4, <2>1
<1>7. \A x \in V : GoodIndex(x) /\ Cut(d, x.segs)
    OBVIOUS
<1>8. \A m \in 1 .. Len(d) : d[m] \in R /\ m - 1 \in 0 .. Len(d)
    BY <1>1, DictFacts
<1> HIDE DEF st, V, R, Round, Indices
<1>9. PICK f : Folding(f, V, st, ix, d)
    BY <1>1, <1>3, <1>5, FoldSteps
<1>10. \A m \in 0 .. Len(d) : f[m] \in V
    BY <1>9 DEF Folding
<1>11. ASSUME NEW m \in 1 .. Len(d) PROVE f[m] = DropOldestLeaf(f[m - 1])
    <2>1. f[m] = st[d[m]][f[m - 1]]
        BY <1>9 DEF Folding
    <2> QED BY <1>6, <1>8, <1>10, <2>1
<1>12. f[0] = ix /\ Evict(ix) = f[Len(d)]
    BY <1>2, <1>9 DEF Folding
<1> QED BY <1>7, <1>10, <1>11, <1>12 DEF Rounds

\* Eviction stops within MaxBytes, and its books are right.
LEMMA EvictGood ==
    ASSUME NEW ix, GoodIndex(ix)
    PROVE  /\ GoodIndex(Evict(ix)) /\ Cut(ix.segs, Evict(ix).segs)
           /\ Evict(ix).bytes <= MaxBytes
<1> DEFINE d == ix.segs
           n == Len(d)
<1>1. Dict(d) /\ n \in Nat /\ MaxBytes \in Nat /\ Cut(d, d)
    BY GoodFacts, DictFacts, BoundsAssumption, CutSelf
<1>2. CASE ix.bytes <= MaxBytes
    <2>1. Evict(ix) = ix
        BY <1>2 DEF Evict
    <2> QED BY <1>1, <1>2, <2>1
<1>3. CASE ~(ix.bytes <= MaxBytes)
    <2>1. PICK f : Rounds(f, ix)
        BY <1>3, EvictRounds
    <2>2. /\ f[0] = ix /\ Evict(ix) = f[n]
          /\ \A m \in 0 .. n : GoodIndex(f[m]) /\ Cut(d, f[m].segs)
          /\ \A m \in 1 .. n : f[m] = DropOldestLeaf(f[m - 1])
        BY <2>1 DEF Rounds
    <2> DEFINE T == {m \in Nat : f[m].bytes <= MaxBytes \/ Len(f[m].segs) <= n - m}
    <2>3. 0 \in T
        BY <1>1, <2>2
    <2>4. ASSUME NEW m \in 1 .. n, m - 1 \in T PROVE m \in T
        <3>0. m \in Nat /\ m - 1 \in 0 .. n /\ m \in 0 .. n
            BY <1>1
        <3>1. PICK x, y : x = f[m - 1] /\ y = f[m]
            OBVIOUS
        <3>2. GoodIndex(x) /\ Cut(d, x.segs) /\ GoodIndex(y) /\ y = DropOldestLeaf(x)
            BY <2>2, <3>0, <3>1
        <3>3. /\ Len(y.segs) <= Len(x.segs) /\ (x.bytes <= MaxBytes => y = x)
              /\ x.bytes > MaxBytes => Len(y.segs) < Len(x.segs)
            BY <1>1, <3>2, RoundGood
        <3>4. Len(x.segs) \in Nat /\ Len(y.segs) \in Nat /\ x.bytes \in Nat
            BY <3>2, GoodFacts, DictFacts
        <3>5. x.bytes <= MaxBytes \/ Len(x.segs) <= n - (m - 1)
            BY <2>4, <3>1
        <3> HIDE DEF n
        <3>6. y.bytes <= MaxBytes \/ Len(y.segs) <= n - m
            BY <1>1, <3>0, <3>3, <3>4, <3>5
        <3> QED BY <3>0, <3>1, <3>6
    <2>5. n \in T
        <3> HIDE DEF T, n
        <3>1. 0 .. n \subseteq T
            BY <1>1, <2>3, <2>4, BoundedInduction
        <3> QED BY <1>1, <3>1
    <2> DEFINE y == f[n]
    <2>6. GoodIndex(y) /\ Cut(d, y.segs)
        <3>1. n \in 0 .. n
            BY <1>1
        <3> QED BY <2>2, <3>1
    <2>7. y.bytes <= MaxBytes \/ Len(y.segs) <= n - n
        BY <2>5
    <2> HIDE DEF y, n, T
    <2>8. y.bytes <= MaxBytes
        <3>1. Dict(y.segs) /\ y.bytes = TotalSize(y.segs) /\ y.segs \in Seq(GoodSegs)
            BY <2>6, GoodFacts, DictFacts
        <3>2. n - n = 0 /\ Len(y.segs) \in Nat
            BY <1>1, <3>1, LenProperties
        <3>3. CASE Len(y.segs) = 0
            <4>1. y.segs = <<>>
                BY <3>1, <3>3, EmptySeq
            <4>2. TotalSize(<<>>) = 0
                BY <3>1, TotalType
            <4> QED BY <1>1, <3>1, <4>1, <4>2
        <3> QED BY <2>7, <3>2, <3>3
    <2> QED BY <2>2, <2>6, <2>8 DEF y
<1> QED BY <1>2, <1>3

-----------------------------------------------------------------------------
(* Chains.                                                                 *)

\* Segments of R, each the prefix of the next, up to `key`.
Linked(c, R, key) ==
    /\ c \in Seq(R) /\ Len(c) \in Nat \ {0} /\ c[Len(c)].k = key
    /\ \A i \in 1 .. Len(c) - 1 : c[i + 1].v.prev = c[i].k

ChainOf(c, R, key) == Linked(c, R, key) /\ c[1].v.prev = Root

\* A prefix put before a chain.
LEMMA LinkBefore ==
    ASSUME NEW R, NEW key, NEW c, Linked(c, R, key), NEW p \in R, p.k = c[1].v.prev
    PROVE  LET b == <<p>> \o c
           IN  Linked(b, R, key) /\ Len(b) = Len(c) + 1 /\ b[1] = p
<1> DEFINE b == <<p>> \o c
<1>1. /\ c \in Seq(R) /\ Len(c) \in Nat \ {0} /\ c[Len(c)].k = key
      /\ \A i \in 1 .. Len(c) - 1 : c[i + 1].v.prev = c[i].k
    BY DEF Linked
<1>2. <<p>> \in Seq(R) /\ Len(<<p>>) = 1 /\ <<p>>[1] = p
    OBVIOUS
<1>3. /\ b \in Seq(R) /\ Len(b) = Len(c) + 1 /\ b[1] = p
      /\ \A i \in 2 .. Len(c) + 1 : b[i] = c[i - 1]
    <2>1. /\ b \in Seq(R) /\ Len(b) = 1 + Len(c)
          /\ \A i \in 1 .. 1 + Len(c) : b[i] = IF i <= 1 THEN <<p>>[i] ELSE c[i - 1]
        BY <1>1, <1>2, ConcatProperties
    <2> HIDE DEF b
    <2>2. b[1] = p
        <3>1. 1 \in 1 .. 1 + Len(c)
            BY <1>1
        <3> QED BY <1>2, <2>1, <3>1
    <2>3. ASSUME NEW i \in 2 .. Len(c) + 1 PROVE b[i] = c[i - 1]
        <3>1. i \in 1 .. 1 + Len(c) /\ ~(i <= 1)
            BY <1>1
        <3> QED BY <2>1, <3>1
    <2> QED BY <1>1, <2>1, <2>2, <2>3
<1> HIDE DEF b
<1>4. b[Len(b)].k = key
    <2>1. Len(c) + 1 \in 2 .. Len(c) + 1 /\ (Len(c) + 1) - 1 = Len(c)
        BY <1>1
    <2> QED BY <1>1, <1>3, <2>1
<1>5. ASSUME NEW i \in 1 .. Len(b) - 1 PROVE b[i + 1].v.prev = b[i].k
    <2>1. i + 1 \in 2 .. Len(c) + 1 /\ (i + 1) - 1 = i /\ i \in Nat /\ i \in 1 .. Len(c)
        BY <1>1, <1>3
    <2>2. b[i + 1] = c[i]
        BY <1>3, <2>1
    <2>3. CASE i = 1
        BY <1>3, <2>2, <2>3
    <2>4. CASE i # 1
        <3>1. i \in 2 .. Len(c) + 1 /\ i - 1 \in 1 .. Len(c) - 1 /\ (i - 1) + 1 = i
            BY <1>1, <2>1, <2>4
        <3>2. b[i] = c[i - 1] /\ c[i].v.prev = c[i - 1].k
            BY <1>1, <1>3, <3>1
        <3> QED BY <2>2, <3>2
    <2> QED BY <2>3, <2>4
<1>6. Linked(b, R, key)
    BY <1>1, <1>3, <1>4, <1>5 DEF Linked
<1> QED BY <1>3, <1>6 DEF b

\* What _chain does: it follows the prefixes back while they are stored.
Walking(f, d, key) ==
    LET R == Range(d)
        At(k) == d[IndexOf(d, k)]
        last == f[Len(d)]
    IN  /\ f[0] = <<At(key)>> /\ \A m \in 0 .. Len(d) : Linked(f[m], R, key)
        /\ \A m \in 1 .. Len(d) :
              f[m] = IF f[m - 1][1].v.prev \in Keys(d) THEN <<At(f[m - 1][1].v.prev)>> \o f[m - 1]
                     ELSE f[m - 1]
        /\ Walk(d, key) = IF last[1].v.prev = Root /\ last[1].v.start = 0 THEN last ELSE <<>>

LEMMA WalkSteps ==
    ASSUME NEW d, Dict(d), NEW key \in Keys(d)
    PROVE  \E f : Walking(f, d, key)
<1> DEFINE R == Range(d)
           At(k) == d[IndexOf(d, k)]
           Back == [c \in Seq(R) |->
                      IF Head(c).v.prev \in Keys(d) THEN <<At(Head(c).v.prev)>> \o c ELSE c]
           st == [s \in R |-> Back]
           base == <<At(key)>>
           V == {c \in Seq(R) : Linked(c, R, key)}
           w == Fold(st, base, d)
<1>1. Walk(d, key) = IF w[1].v.prev = Root /\ w[1].v.start = 0 THEN w ELSE <<>>
    BY DEF Walk
<1>2. base \in V
    <2>1. At(key) \in R /\ At(key).k = key
        BY DictAt
    <2> HIDE DEF At
    <2>2. <<At(key)>> \in Seq(R) /\ Len(<<At(key)>>) = 1 /\ <<At(key)>>[1] = At(key)
        BY <2>1
    <2> QED BY <2>1, <2>2 DEF Linked
<1>3. ASSUME NEW c \in V
      PROVE  /\ Back[c] \in V
             /\ Back[c] = IF c[1].v.prev \in Keys(d) THEN <<At(c[1].v.prev)>> \o c ELSE c
    <2>1. c \in Seq(R) /\ Len(c) \in Nat \ {0} /\ Linked(c, R, key)
        BY DEF Linked
    <2>2. Head(c) = c[1]
        BY <2>1
    <2>3. CASE c[1].v.prev \in Keys(d)
        <3> DEFINE p == At(c[1].v.prev)
                   b == <<p>> \o c
        <3>1. p \in R /\ p.k = c[1].v.prev
            BY <2>3, DictAt
        <3>2. Back[c] = b
            BY <2>1, <2>2, <2>3
        <3> HIDE DEF p
        <3>3. Linked(b, R, key)
            BY <2>1, <3>1, LinkBefore
        <3>4. b \in Seq(R)
            <4> HIDE DEF b
            <4> QED BY <3>3 DEF Linked
        <3> QED BY <2>3, <3>2, <3>3, <3>4 DEF p
    <2>4. CASE c[1].v.prev \notin Keys(d)
        <3>1. Back[c] = c
            BY <2>1, <2>2, <2>4
        <3> HIDE DEF Back, V
        <3> QED BY <2>4, <3>1
    <2> QED BY <2>3, <2>4
<1>4. Closed(st, R, V) /\ d \in Seq(R) /\ \A i \in 1 .. Len(d) : st[d[i]] = Back
    <2>1. \A s \in R : st[s] = Back
        OBVIOUS
    <2>2. d \in Seq(R) /\ \A i \in 1 .. Len(d) : d[i] \in R
        BY DictFacts, SeqOfRange
    <2> HIDE DEF Back, V, R, st
    <2> QED BY <1>3, <2>1, <2>2 DEF Closed
<1>5. \A c \in V : Linked(c, R, key)
    OBVIOUS
<1>6. PICK f : Folding(f, V, st, base, d)
    <2> HIDE DEF st, V, R, base
    <2> QED BY <1>2, <1>4, FoldSteps
<1> HIDE DEF st, V, Back
<1>7. f[0] = base /\ w = f[Len(d)] /\ \A m \in 0 .. Len(d) : f[m] \in V /\ Linked(f[m], R, key)
    BY <1>5, <1>6 DEF Folding
<1>8. ASSUME NEW m \in 1 .. Len(d)
      PROVE  f[m] = IF f[m - 1][1].v.prev \in Keys(d) THEN <<At(f[m - 1][1].v.prev)>> \o f[m - 1]
                    ELSE f[m - 1]
    <2>1. m - 1 \in 0 .. Len(d)
        BY LenProperties
    <2>2. f[m] = Back[f[m - 1]]
        BY <1>4, <1>6 DEF Folding
    <2> QED BY <1>3, <1>7, <2>1, <2>2
<1> HIDE DEF w
<1>9. Walking(f, d, key)
    BY <1>1, <1>7, <1>8 DEF Walking
<1> QED BY <1>9

\* What _chain follows is a chain, from the start of the sequence.
LEMMA WalkIsChain ==
    ASSUME NEW d, Dict(d), NEW key \in Keys(d), Walk(d, key) # <<>>
    PROVE  ChainOf(Walk(d, key), Range(d), key)
<1>1. PICK f : Walking(f, d, key)
    BY WalkSteps
<1>2. Len(d) \in 0 .. Len(d)
    BY DictFacts
<1> QED BY <1>1, <1>2 DEF Walking, ChainOf

\* Its segments grow, so none comes twice.
LEMMA LinkedDict ==
    ASSUME NEW c, NEW R, NEW key, Linked(c, R, key), R \subseteq GoodSegs
    PROVE  /\ Dict(c) /\ Range(c) \subseteq R /\ c # <<>>
           /\ key \in TokenSeqs /\ \A x \in Range(c) : Len(x.k) <= Len(key)
<1>1. /\ c \in Seq(R) /\ Len(c) \in Nat \ {0} /\ c[Len(c)].k = key
      /\ \A i \in 1 .. Len(c) - 1 : c[i + 1].v.prev = c[i].k
    BY DEF Linked
<1>2. \A i \in 1 .. Len(c) : c[i] \in GoodSegs /\ c[i] \in R
    BY <1>1, ElementOfSeq
<1>3. \A i \in 1 .. Len(c) : Len(c[i].k) \in Nat /\ Len(c[i].v.prev) < Len(c[i].k)
    <2> SUFFICES ASSUME NEW i \in 1 .. Len(c)
                 PROVE  Len(c[i].k) \in Nat /\ Len(c[i].v.prev) < Len(c[i].k)
        OBVIOUS
    <2>1. /\ Len(c[i].k) \in 1 .. MaxLen /\ c[i].v.start \in 0 .. Len(c[i].k) - 1
          /\ Len(c[i].v.prev) = c[i].v.start
        BY <1>2, SegFacts
    <2> QED BY <2>1, BoundsAssumption
<1> DEFINE Longer(j) == \A i \in 1 .. j - 1 : Len(c[i].k) < Len(c[j].k)
           n == Len(c)
           T == {j \in Nat : j # 0 => Longer(j)}
<1>4. \A j \in 1 .. n : Longer(j)
    <2>1. 0 \in T
        OBVIOUS
    <2>2. ASSUME NEW j \in 1 .. n, j - 1 \in T PROVE j \in T
        <3>1. ASSUME NEW i \in 1 .. j - 1 PROVE Len(c[i].k) < Len(c[j].k)
            <4>1. /\ j - 1 \in 1 .. n /\ (j - 1) + 1 = j /\ j - 1 \in 1 .. Len(c) - 1
                  /\ i \in 1 .. n /\ n = Len(c) /\ j - 1 # 0
                BY <1>1
            <4>2. c[j].v.prev = c[j - 1].k
                BY <1>1, <4>1
            <4>3. Len(c[j - 1].k) < Len(c[j].k) /\ Len(c[i].k) \in Nat /\ Len(c[j].k) \in Nat
                  /\ Len(c[j - 1].k) \in Nat
                BY <1>3, <4>1, <4>2
            <4>4. Longer(j - 1)
                BY <2>2, <4>1
            <4>5. i = j - 1 \/ i \in 1 .. (j - 1) - 1
                BY <4>1
            <4> QED BY <4>3, <4>4, <4>5
        <3>2. j \in Nat
            OBVIOUS
        <3> QED BY <3>1, <3>2
    <2>3. n \in Nat
        BY <1>1
    <2>4. 0 .. n \subseteq T
        <3> HIDE DEF T, n
        <3> QED BY <2>1, <2>2, <2>3, BoundedInduction
    <2> QED BY <2>3, <2>4
<1>5. \A i, j \in 1 .. n : c[i].k = c[j].k => i = j
    <2> SUFFICES ASSUME NEW i \in 1 .. n, NEW j \in 1 .. n, c[i].k = c[j].k, i # j PROVE FALSE
        OBVIOUS
    <2>1. i \in 1 .. j - 1 \/ j \in 1 .. i - 1
        BY <1>1
    <2>2. Len(c[i].k) \in Nat
        BY <1>3
    <2> QED BY <1>4, <2>1, <2>2
<1>6. DOMAIN c = 1 .. n /\ c \in Seq(GoodSegs) /\ Range(c) \subseteq R
    <2>1. DOMAIN c = 1 .. n /\ Range(c) \subseteq R
        BY <1>1, LenProperties, RangeOfSeq
    <2>2. c \in Seq(GoodSegs)
        BY <1>1
    <2> QED BY <2>1, <2>2
<1>7. Dict(c)
    <2>1. IsInjective(c)
        BY <1>5, <1>6 DEF IsInjective
    <2>2. Apart(Range(c))
        BY <1>5, <1>6 DEF Apart, Range
    <2> QED BY <1>6, <2>1, <2>2 DEF Dict
<1>8. \A x \in Range(c) : Len(x.k) <= Len(key)
    <2> SUFFICES ASSUME NEW i \in 1 .. n PROVE Len(c[i].k) <= Len(key)
        BY <1>6 DEF Range
    <2>1. n \in 1 .. n /\ (i = n \/ i \in 1 .. n - 1)
        BY <1>1
    <2>2. Len(c[i].k) \in Nat /\ Len(c[n].k) \in Nat /\ c[n].k = key
        BY <1>1, <1>3, <2>1
    <2> QED BY <1>4, <2>1, <2>2
<1>9. key \in TokenSeqs /\ c # <<>>
    <2>1. n \in 1 .. Len(c)
        BY <1>1
    <2>2. c[n] \in GoodSegs
        BY <1>2, <2>1
    <2>3. Len(<<>>) = 0
        BY EmptySeq
    <2> QED BY <1>1, <2>2, <2>3, SegFacts
<1> QED BY <1>6, <1>7, <1>8, <1>9

LEMMA ChainDict ==
    ASSUME NEW c, NEW R, NEW key, ChainOf(c, R, key), R \subseteq GoodSegs
    PROVE  /\ Dict(c) /\ Range(c) \subseteq R /\ c # <<>>
           /\ key \in TokenSeqs /\ \A x \in Range(c) : Len(x.k) <= Len(key)
BY LinkedDict DEF ChainOf

\* A dictionary where every prefix is stored, and so every chain.
Rooted(d) == \A s \in Range(d) : s.v.prev \in Keys(d) \cup {Root}

LEMMA RootNoKey ==
    ASSUME NEW s \in GoodSegs PROVE s.k # Root
<1>1. Len(s.k) \in 1 .. MaxLen /\ Len(<<>>) = 0
    BY SegFacts
<1> QED BY <1>1 DEF Root

\* The prefixes grow shorter, so that _chain gets to the start.
LEMMA WalkWhole ==
    ASSUME NEW d, Dict(d), Rooted(d), NEW key \in Keys(d)
    PROVE  Walk(d, key) # <<>>
<1> DEFINE R == Range(d)
           n == Len(d)
<1>1. PICK f : Walking(f, d, key)
    BY WalkSteps
<1>2. /\ \A m \in 0 .. n : Linked(f[m], R, key)
      /\ \A m \in 1 .. n :
            f[m] = IF f[m - 1][1].v.prev \in Keys(d)
                   THEN <<d[IndexOf(d, f[m - 1][1].v.prev)]>> \o f[m - 1] ELSE f[m - 1]
    BY <1>1 DEF Walking
<1>3. n \in Nat /\ R \subseteq GoodSegs /\ Keys(d) = {x.k : x \in R}
    BY DictFacts
<1>4. \A m \in 0 .. n : f[m][1] \in R /\ Len(f[m]) \in Nat \ {0}
    <2> SUFFICES ASSUME NEW m \in 0 .. n PROVE f[m][1] \in R /\ Len(f[m]) \in Nat \ {0}
        OBVIOUS
    <2>1. f[m] \in Seq(R) /\ Len(f[m]) \in Nat \ {0}
        BY <1>2 DEF Linked
    <2>2. 1 \in 1 .. Len(f[m])
        BY <2>1
    <2> QED BY <2>1, <2>2, ElementOfSeq
<1> DEFINE T == {m \in Nat : f[m][1].v.prev = Root \/ Len(f[m]) = m + 1}
<1>5. 0 \in T
    <2>1. f[0] = <<d[IndexOf(d, key)]>>
        BY <1>1 DEF Walking
    <2>2. Len(f[0]) = 1
        BY <2>1
    <2> QED BY <2>2
<1>6. ASSUME NEW m \in 1 .. n, m - 1 \in T PROVE m \in T
    <2>1. m \in Nat /\ m - 1 \in 0 .. n /\ (m - 1) + 1 = m
        BY <1>3
    <2>2. PICK c : c = f[m - 1]
        OBVIOUS
    <2>3. Linked(c, R, key) /\ c[1] \in R
        BY <1>2, <1>4, <2>1, <2>2
    <2>4. CASE c[1].v.prev = Root
        <3>1. Root \notin Keys(d)
            BY <1>3, RootNoKey
        <3>2. f[m] = c
            BY <1>2, <2>2, <2>4, <3>1
        <3> QED BY <2>1, <2>4, <3>2
    <2>5. CASE c[1].v.prev # Root
        <3>1. c[1].v.prev \in Keys(d)
            BY <2>3, <2>5 DEF Rooted
        <3>2. PICK p : p = d[IndexOf(d, c[1].v.prev)]
            OBVIOUS
        <3>3. p \in R /\ p.k = c[1].v.prev
            BY <3>1, <3>2, DictAt
        <3>4. f[m] = <<p>> \o c
            BY <1>2, <2>2, <3>1, <3>2
        <3>5. Len(<<p>> \o c) = Len(c) + 1
            BY <2>3, <3>3, LinkBefore
        <3>6. Len(c) = m
            BY <1>6, <2>1, <2>2, <2>5
        <3> QED BY <2>1, <3>4, <3>5, <3>6
    <2> QED BY <2>4, <2>5
<1>7. n \in T
    <2> HIDE DEF T, n
    <2>1. 0 .. n \subseteq T
        BY <1>3, <1>5, <1>6, BoundedInduction
    <2> QED BY <1>3, <2>1
<1>8. PICK c : c = f[n]
    OBVIOUS
<1>9. Linked(c, R, key) /\ c[1] \in R /\ Len(c) \in Nat \ {0}
    <2>1. n \in 0 .. n
        BY <1>3
    <2> QED BY <1>2, <1>4, <1>8, <2>1
<1>10. Len(c) <= n
    <2>1. Dict(c) /\ Range(c) \subseteq R
        BY <1>3, <1>9, LinkedDict
    <2>2. /\ IsFiniteSet(R) /\ Cardinality(R) = n
          /\ IsFiniteSet(Range(c)) /\ Cardinality(Range(c)) = Len(c)
        BY <2>1, InjectiveLen DEF Dict
    <2> QED BY <2>1, <2>2, FS_Subset
<1>11. c[1].v.prev = Root
    BY <1>3, <1>7, <1>8, <1>9, <1>10
<1>12. c[1].v.start = 0
    <2>1. Len(c[1].v.prev) = c[1].v.start
        BY <1>3, <1>9, SegFacts
    <2> QED BY <1>11, <2>1 DEF Root
<1>13. Walk(d, key) = c
    BY <1>1, <1>8, <1>11, <1>12 DEF Walking
<1>14. c # <<>>
    BY <1>9
<1> QED BY <1>13, <1>14

\* Its payloads are the tokens of its last key.
LEMMA ChainTokens ==
    ASSUME NEW c, NEW R, NEW key, ChainOf(c, R, key), R \subseteq GoodSegs
    PROVE  Concat(c) = key
<1>1. /\ c \in Seq(R) /\ Len(c) \in Nat \ {0} /\ c[Len(c)].k = key /\ c[1].v.prev = Root
      /\ \A i \in 1 .. Len(c) - 1 : c[i + 1].v.prev = c[i].k
    BY DEF ChainOf, Linked
<1>2. Range(c) \subseteq GoodSegs /\ c \in Seq(Range(c)) /\ \A i \in 1 .. Len(c) : c[i] \in Range(c)
    <2>1. c \in Seq(Range(c)) /\ Range(c) \subseteq R
        BY <1>1, RangeOfSeq, SeqOfRange
    <2> QED BY <2>1, ElementOfSeq
<1> DEFINE V == Seq(Tokens)
           X == Range(c)
           st == [s \in X |-> [t \in V |-> t \o Payload(s)]]
           n == Len(c)
<1>3. Concat(c) = Fold(st, <<>>, c)
    BY DEF Concat
<1>4. Closed(st, X, V) /\ <<>> \in V
    <2> SUFFICES ASSUME NEW x \in X, NEW t \in V PROVE st[x][t] \in V
        BY EmptySeq DEF Closed
    <2>1. Payload(x) \in Seq(Tokens)
        BY <1>2, SegFacts
    <2>2. t \o Payload(x) \in Seq(Tokens)
        BY <2>1, ConcatProperties
    <2> QED BY <2>2
<1>5. \A x \in X, t \in V : st[x][t] = t \o Payload(x)
    OBVIOUS
<1> HIDE DEF st, X
<1>6. PICK f : Folding(f, V, st, <<>>, c)
    <2> HIDE DEF V
    <2> QED BY <1>2, <1>4, FoldSteps DEF X
<1> DEFINE T == {m \in Nat : m # 0 => f[m] = c[m].k}
<1>7. 0 \in T
    OBVIOUS
<1>8. ASSUME NEW m \in 1 .. n, m - 1 \in T PROVE m \in T
    <2>1. c[m] \in X /\ c[m] \in GoodSegs /\ n = Len(c) /\ m \in Nat
        BY <1>2 DEF X
    <2>2. f[m - 1] = c[m].v.prev
        <3>1. CASE m = 1
            <4>1. f[0] = <<>>
                BY <1>6 DEF Folding
            <4> QED BY <1>1, <3>1, <4>1 DEF Root
        <3>2. CASE m # 1
            <4>1. m - 1 # 0 /\ m - 1 \in 1 .. Len(c) - 1 /\ (m - 1) + 1 = m
                BY <1>1, <3>2
            <4>2. c[m].v.prev = c[m - 1].k
                BY <1>1, <4>1
            <4> QED BY <1>8, <4>1, <4>2
        <3> QED BY <3>1, <3>2
    <2>3. f[m] = st[c[m]][f[m - 1]]
        BY <1>6 DEF Folding
    <2>4. c[m].v.prev \in V /\ c[m].v.prev \o Payload(c[m]) = c[m].k
        BY <2>1, SegFacts
    <2>5. f[m] = c[m].k
        BY <1>5, <2>1, <2>2, <2>3, <2>4
    <2> QED BY <2>1, <2>5
<1>9. f[n] = c[n].k
    <2>1. n \in Nat \ {0}
        BY <1>1
    <2>2. 0 .. n \subseteq T
        <3> HIDE DEF T, n
        <3> QED BY <1>7, <1>8, <2>1, BoundedInduction
    <2>3. n \in T
        BY <2>1, <2>2
    <2> QED BY <2>1, <2>3
<1> QED BY <1>1, <1>3, <1>6, <1>9 DEF Folding

-----------------------------------------------------------------------------
(* What eviction keeps.                                                    *)

\* The segments up to one tip take no more than the tokens of its key: where
\* every tip is of key k, the dictionary is no larger than k.
LEMMA TipsBound ==
    ASSUME NEW d, Dict(d), NEW k \in TokenSeqs \cup {Root}, \A x \in Tips(Range(d)) : x.k = k
    PROVE  TotalSize(d) <= Len(k)
<1> DEFINE Bounded(e) == \A t \in TokenSeqs \cup {Root} :
                            (\A x \in Tips(Range(e)) : x.k = t) => TotalSize(e) <= Len(t)
           T == {n \in Nat : \A e : Dict(e) /\ Len(e) <= n => Bounded(e)}
<1>1. \A t \in TokenSeqs \cup {Root} : Len(t) \in Nat
    <2> SUFFICES ASSUME NEW t \in TokenSeqs \cup {Root} PROVE Len(t) \in Nat
        OBVIOUS
    <2>1. CASE t \in TokenSeqs
        BY <2>1, TokenSeqFacts, BoundsAssumption
    <2>2. CASE t = Root
        BY <2>2 DEF Root
    <2> QED BY <2>1, <2>2
<1>2. ASSUME NEW e, Dict(e), e = <<>> PROVE Bounded(e)
    <2>1. TotalSize(e) = 0
        BY <1>2, TotalType DEF Dict
    <2> QED BY <1>1, <2>1
<1>3. 0 \in T
    <2> SUFFICES ASSUME NEW e, Dict(e), Len(e) <= 0 PROVE Bounded(e)
        OBVIOUS
    <2>1. e \in Seq(GoodSegs) /\ Len(e) = 0
        BY DictFacts
    <2>2. e = <<>>
        BY <2>1, EmptySeq
    <2> HIDE DEF Bounded
    <2> QED BY <1>2, <2>2
<1>4. ASSUME NEW n \in T PROVE n + 1 \in T
    <2> SUFFICES ASSUME NEW e, Dict(e), Len(e) <= n + 1, e # <<>> PROVE Bounded(e)
        <3> HIDE DEF Bounded
        <3> QED BY <1>2
    <2> SUFFICES ASSUME NEW t \in TokenSeqs \cup {Root}, \A x \in Tips(Range(e)) : x.k = t
                 PROVE  TotalSize(e) <= Len(t)
        OBVIOUS
    <2>1. PICK s \in Tips(Range(e)) : TRUE
        BY TipExists
    <2>2. s \in Range(e) /\ s.k = t /\ s \in GoodSegs
        BY <2>1, DictFacts DEF Tips
    <2>3. PICK f : f = Less(e, {s.k})
        OBVIOUS
    <2>4. Dict(f) /\ Range(f) = {x \in Range(e) : x.k # s.k}
        <3>1. Dict(Less(e, {s.k})) /\ Range(Less(e, {s.k})) = {x \in Range(e) : x.k \notin {s.k}}
            BY LessFacts
        <3> QED BY <2>3, <3>1
    <2>5. Len(f) <= n
        <3>1. Len(f) < Len(e) /\ Len(f) \in Nat /\ Len(e) \in Nat
            BY <2>2, <2>3, <2>4, CutSelf, CutLess, DictFacts
        <3> QED BY <3>1
    <2>6. TotalSize(f) = TotalSize(e) - Size(s)
        BY <2>2, <2>3, TotalLess
    <2>7. \A x \in Tips(Range(f)) : x.k = s.v.prev
        <3> SUFFICES ASSUME NEW x \in Tips(Range(f)) PROVE x.k = s.v.prev
            OBVIOUS
        <3>1. x \in Range(e) /\ x.k # s.k /\ \A y \in Range(f) : y.v.prev # x.k
            BY <2>4 DEF Tips
        <3>2. x \notin Tips(Range(e))
            BY <2>2, <3>1
        <3>3. PICK y \in Range(e) : y.v.prev = x.k
            BY <3>1, <3>2 DEF Tips
        <3>4. y.k = s.k
            BY <2>4, <3>1, <3>3
        <3>5. y = s
            BY <2>2, <3>4 DEF Dict, Apart
        <3> QED BY <3>3, <3>5
    <2>8. s.v.prev \in TokenSeqs \cup {Root} /\ Len(s.v.prev) = s.v.start
        BY <2>2, SegFacts DEF Segments
    <2>9. TotalSize(f) <= Len(s.v.prev)
        BY <2>4, <2>5, <2>7, <2>8
    <2>10. Len(t) \in Nat /\ Len(s.v.prev) \in Nat /\ TotalSize(e) \in Nat /\ TotalSize(f) \in Nat
        BY <1>1, <2>4, <2>8, TotalType DEF Dict
    <2> QED BY <2>2, <2>6, <2>8, <2>9, <2>10 DEF Size
<1>5. T = Nat
    <2> HIDE DEF T
    <2>1. T \in SUBSET Nat
        BY DEF T
    <2> QED BY <1>3, <1>4, <2>1, Induction
<1>6. Len(d) \in T
    BY <1>5, DictFacts
<1>7. Bounded(d)
    <2>1. Len(d) <= Len(d)
        BY DictFacts
    <2> HIDE DEF Bounded
    <2> QED BY <1>6, <2>1
<1> QED BY <1>7

\* A dictionary whose last entry is left alone.
LEMMA LessAppend ==
    ASSUME NEW d \in Seq(GoodSegs), NEW s \in GoodSegs, Dict(Append(d, s)),
           NEW keys, s.k \notin keys
    PROVE  \E e \in Seq(GoodSegs) : /\ Less(Append(d, s), keys) = Append(e, s)
                                    /\ Range(e) \subseteq Range(d)
<1> DEFINE S == {x \in GoodSegs : x.k \notin keys}
           a == Append(d, s)
<1>1. Less(a, keys) = Only(a, S) /\ s \in S
    BY LessFacts
<1> HIDE DEF S
<1>2. Only(a, S) = Append(Only(d, S), s)
    BY <1>1, OnlyAppend
<1>3. Only(d, S) \in Seq(GoodSegs) /\ Range(Only(d, S)) \subseteq Range(d)
    BY OnlyProperties
<1> QED BY <1>1, <1>2, <1>3

\* What a new segment is in the index: the last, and extended by none.
Newest(ix, s) ==
    /\ Rooted(ix.segs) /\ s \in Tips(Range(ix.segs))
    /\ \E d \in Seq(GoodSegs) : ix.segs = Append(d, s)

\* A tip dropped.
LEMMA RootedLess ==
    ASSUME NEW d, Dict(d), Rooted(d), NEW x \in Tips(Range(d))
    PROVE  /\ Rooted(Less(d, {x.k}))
           /\ \A s \in Tips(Range(d)) : s.k # x.k => s \in Tips(Range(Less(d, {x.k})))
<1> DEFINE e == Less(d, {x.k})
<1>1. /\ Dict(e) /\ Range(e) = {y \in Range(d) : y.k \notin {x.k}} /\ Keys(e) = Keys(d) \ {x.k}
    BY LessFacts
<1> HIDE DEF e
<1>2. Rooted(e)
    BY <1>1 DEF Rooted, Tips
<1>3. ASSUME NEW s \in Tips(Range(d)), s.k # x.k PROVE s \in Tips(Range(e))
    BY <1>1, <1>3 DEF Tips
<1> QED BY <1>2, <1>3 DEF e

\* A round of eviction drops no prefix, nor the newest segment while its own
\* sequence fits the cap: if it were the only leaf, there would be nothing to
\* evict.
LEMMA RoundKeeps ==
    ASSUME NEW ix, GoodIndex(ix), NEW s \in GoodSegs, Newest(ix, s), Len(s.k) <= MaxBytes
    PROVE  Newest(DropOldestLeaf(ix), s)
<1>1. /\ Dict(ix.segs) /\ ix.bytes = TotalSize(ix.segs) /\ ix.bytes \in Nat /\ MaxBytes \in Nat
    BY GoodFacts, BoundsAssumption
<1>2. CASE ~(ix.bytes > MaxBytes /\ Leaves(ix) # <<>>)
    <2>1. DropOldestLeaf(ix) = ix
        BY <1>2 DEF DropOldestLeaf
    <2> QED BY <2>1
<1>3. CASE ix.bytes > MaxBytes /\ Leaves(ix) # <<>>
    <2>1. PICK x : x = Head(Leaves(ix))
        OBVIOUS
    <2>2. /\ DropOldestLeaf(ix) = Drop(ix, x) /\ x \in Tips(Range(ix.segs)) /\ x = Leaves(ix)[1]
          /\ x \in Range(ix.segs)
        BY <1>3, <2>1, OldestLeaf DEF DropOldestLeaf
    <2>3. PICK d \in Seq(GoodSegs) : ix.segs = Append(d, s)
        BY DEF Newest
    <2>4. s \in Range(ix.segs) /\ s \in Tips(Range(ix.segs)) /\ Rooted(ix.segs)
        BY DEF Newest, Tips
    <2>5. x # s
        <3> SUFFICES ASSUME x = s PROVE FALSE
            OBVIOUS
        <3> DEFINE starts == {link[1] : link \in ix.nexts}
        <3>1. s.k \notin starts
            <4>1. s \in Range(Leaves(ix)) /\ Leaves(ix) = Less(ix.segs, starts)
                BY <2>4, LeafExists DEF Leaves
            <4>2. Range(Less(ix.segs, starts)) = {y \in Range(ix.segs) : y.k \notin starts}
                BY <1>1, LessFacts
            <4> HIDE DEF starts
            <4> QED BY <4>1, <4>2
        <3>2. Leaves(ix) = Less(Append(d, s), starts)
            BY <2>3 DEF Leaves
        <3> HIDE DEF starts
        <3>3. PICK e \in Seq(GoodSegs) : Less(Append(d, s), starts) = Append(e, s)
            BY <1>1, <2>3, <3>1, LessAppend
        <3>4. Dict(Append(e, s)) /\ Range(Append(e, s)) = Tips(Range(ix.segs)) /\ Append(e, s)[1] = s
            BY <2>2, <3>2, <3>3, LeafExists
        <3>5. s \notin Range(e) /\ Range(Append(e, s)) = Range(e) \cup {s}
            <4>1. IsInjective(Append(e, s))
                BY <3>4 DEF Dict
            <4> QED BY <4>1, AppendRange
        <3>6. e = <<>>
            <4> SUFFICES ASSUME e # <<>> PROVE FALSE
                OBVIOUS
            <4>1. Len(e) \in Nat /\ Len(e) # 0 /\ DOMAIN e = 1 .. Len(e)
                BY EmptySeq, LenProperties
            <4>2. 1 \in 1 .. Len(e) /\ Append(e, s)[1] = e[1]
                BY <4>1, AppendProperties
            <4>3. e[1] \in Range(e)
                BY <4>1, <4>2 DEF Range
            <4> QED BY <3>4, <3>5, <4>2, <4>3
        <3>7. \A y \in Tips(Range(ix.segs)) : y.k = s.k
            BY <3>4, <3>5, <3>6, DictEmpty
        <3>8. s.k \in TokenSeqs \cup {Root} /\ Len(s.k) \in Nat
            BY SegFacts, BoundsAssumption
        <3>9. TotalSize(ix.segs) <= Len(s.k)
            BY <1>1, <3>7, <3>8, TipsBound
        <3> QED BY <1>1, <1>3, <3>8, <3>9
    <2>6. s.k # x.k
        BY <1>1, <2>2, <2>4, <2>5 DEF Dict, Apart
    <2>7. Drop(ix, x).segs = Less(ix.segs, {x.k})
        BY <2>2, DropGood
    <2>8. Rooted(Less(ix.segs, {x.k})) /\ s \in Tips(Range(Less(ix.segs, {x.k})))
        BY <1>1, <2>2, <2>4, <2>6, RootedLess
    <2>9. \E e \in Seq(GoodSegs) : Less(Append(d, s), {x.k}) = Append(e, s)
        <3>1. s.k \notin {x.k}
            BY <2>6
        <3> QED BY <1>1, <2>3, <3>1, LessAppend
    <2> QED BY <2>2, <2>3, <2>7, <2>8, <2>9 DEF Newest
<1> QED BY <1>2, <1>3

LEMMA EvictKeeps ==
    ASSUME NEW ix, GoodIndex(ix), NEW s \in GoodSegs, Newest(ix, s), Len(s.k) <= MaxBytes
    PROVE  Newest(Evict(ix), s)
<1>1. CASE ix.bytes <= MaxBytes
    <2>1. Evict(ix) = ix
        BY <1>1 DEF Evict
    <2> QED BY <2>1
<1>2. CASE ~(ix.bytes <= MaxBytes)
    <2> DEFINE n == Len(ix.segs)
    <2>1. PICK f : Rounds(f, ix)
        BY <1>2, EvictRounds
    <2>2. /\ f[0] = ix /\ Evict(ix) = f[n] /\ n \in Nat
          /\ \A m \in 0 .. n : GoodIndex(f[m])
          /\ \A m \in 1 .. n : f[m] = DropOldestLeaf(f[m - 1])
        BY <2>1, GoodFacts, DictFacts DEF Rounds
    <2> DEFINE T == {m \in Nat : Newest(f[m], s)}
    <2>3. 0 \in T
        BY <2>2
    <2>4. ASSUME NEW m \in 1 .. n, m - 1 \in T PROVE m \in T
        <3>1. m \in Nat /\ m - 1 \in 0 .. n
            BY <2>2
        <3>2. PICK x : x = f[m - 1]
            OBVIOUS
        <3>3. Newest(DropOldestLeaf(x), s)
            BY <2>2, <2>4, <3>1, <3>2, RoundKeeps
        <3> QED BY <2>2, <3>1, <3>2, <3>3
    <2>5. n \in T
        <3> HIDE DEF T, n
        <3>1. 0 .. n \subseteq T
            BY <2>2, <2>3, <2>4, BoundedInduction
        <3> QED BY <2>2, <3>1
    <2> QED BY <2>2, <2>5
<1> QED BY <1>1, <1>2

-----------------------------------------------------------------------------
(* What a fetch finds.                                                     *)

LEMMA MaxFacts ==
    ASSUME NEW m \in Nat, NEW S \in SUBSET (0 .. m), S # {}
    PROVE  Max(S) \in S /\ \A y \in S : y <= Max(S)
<1> DEFINE T == {m - x : x \in S}
<1>1. T \in SUBSET Nat /\ T # {}
    OBVIOUS
<1> HIDE DEF T
<1>2. PICK z \in T : \A y \in T : z <= y
    BY <1>1, LeastNatural
<1>3. PICK x \in S : z = m - x
    BY <1>2 DEF T
<1>4. ASSUME NEW y \in S PROVE x >= y
    <2>1. m - y \in T /\ x \in Nat /\ y \in Nat
        BY DEF T
    <2> QED BY <1>2, <1>3, <2>1
<1>5. Max(S) \in S /\ \A y \in S : Max(S) >= y
    BY <1>4 DEF Max
<1>6. \A y \in S : y \in Nat
    OBVIOUS
<1> QED BY <1>5, <1>6

\* The common prefix of two sequences.
LEMMA CommonFacts ==
    ASSUME NEW a \in Seq(Tokens), NEW b \in Seq(Tokens)
    PROVE  /\ Common(a, b) \in 0 .. Len(a) /\ Common(a, b) \in 0 .. Len(b)
           /\ Take(a, Common(a, b)) = Take(b, Common(a, b))
<1>1. PICK i \in Nat, j \in Nat : i = Len(a) /\ j = Len(b)
    BY LenProperties
<1> DEFINE m == Min({Len(a), Len(b)})
           S == {n \in 0 .. m : Take(a, n) = Take(b, n)}
<1>2. m \in Nat /\ m <= Len(a) /\ m <= Len(b)
    <2>1. \E x \in {i, j} : \A y \in {i, j} : x =< y
        OBVIOUS
    <2>2. Min({i, j}) \in {i, j} /\ \A y \in {i, j} : Min({i, j}) =< y
        BY <2>1 DEF Min
    <2> QED BY <1>1, <2>2
<1>3. Common(a, b) = Max(S)
    BY DEF Common
<1> HIDE DEF m
<1>4. 0 \in S /\ S \in SUBSET (0 .. m)
    <2>1. Take(a, 0) = Root /\ Take(b, 0) = Root
        BY <1>1, TakeFacts
    <2> QED BY <1>2, <2>1
<1>5. Max(S) \in S
    <2> HIDE DEF S
    <2> QED BY <1>2, <1>4, MaxFacts
<1> QED BY <1>1, <1>2, <1>3, <1>5

\* The longest prefix a stored chain covers, and that chain.
BestAt(t, n) ==
    /\ n \in 0 .. Len(t) - 1 /\ Best(t) = Take(t, n) /\ Len(Best(t)) = n
    /\ n = 0 => Best(t) = Root /\ ChainTo(Best(t)) = <<>>
    /\ n # 0 => ChainOf(ChainTo(Best(t)), Range(index.segs), Best(t))

LEMMA BestFacts ==
    ASSUME GoodIndex(index), NEW t \in TokenSeqs
    PROVE  \E n \in 0 .. Len(t) - 1 : BestAt(t, n)
<1>1. t \in Seq(Tokens) /\ Len(t) \in 1 .. MaxLen /\ MaxLen \in Nat /\ Dict(index.segs)
    BY TokenSeqFacts, GoodFacts, BoundsAssumption
<1> DEFINE S == WholeEnds(t) \cup {0}
           n == Max(S)
<1>2. S \in SUBSET (0 .. Len(t) - 1) /\ S # {} /\ Len(t) - 1 \in Nat
    BY <1>1 DEF WholeEnds
<1>3. n \in S /\ Best(t) = Take(t, n)
    <2>1. Best(t) = Take(t, Max(S))
        BY DEF Best
    <2> HIDE DEF S
    <2> QED BY <1>2, <2>1, MaxFacts
<1> HIDE DEF n
<1>4. n \in 0 .. Len(t) - 1 /\ n \in 0 .. Len(t) /\ n \in Nat
    <2>1. n \in 0 .. Len(t) - 1
        BY <1>2, <1>3
    <2> QED BY <1>1, <2>1
<1>5. Len(Best(t)) = n /\ (Take(t, n) = Root <=> n = 0)
    BY <1>1, <1>3, <1>4, TakeFacts
<1>6. n # 0 => ChainOf(ChainTo(Best(t)), Range(index.segs), Best(t))
    <2> SUFFICES ASSUME n # 0 PROVE ChainOf(ChainTo(Best(t)), Range(index.segs), Best(t))
        OBVIOUS
    <2>1. n \in WholeEnds(t)
        BY <1>3
    <2>2. Best(t) \in Keys(index.segs) /\ Walk(index.segs, Best(t)) # <<>>
        BY <1>3, <2>1 DEF WholeEnds, Stored
    <2>3. ChainTo(Best(t)) = Walk(index.segs, Best(t))
        BY <1>3, <1>5 DEF ChainTo
    <2>4. ChainOf(Walk(index.segs, Best(t)), Range(index.segs), Best(t))
        BY <1>1, <2>2, WalkIsChain
    <2> QED BY <2>3, <2>4
<1>7. n = 0 => Best(t) = Root /\ ChainTo(Best(t)) = <<>>
    BY <1>3, <1>5 DEF ChainTo
<1>8. BestAt(t, n)
    BY <1>3, <1>4, <1>5, <1>6, <1>7 DEF BestAt
<1> QED BY <1>4, <1>8

\* A segment cut into extends the chain, with tokens of the request.
LEMMA PartialFacts ==
    ASSUME GoodIndex(index), NEW t \in TokenSeqs, NEW n \in 0 .. Len(t) - 1, BestAt(t, n),
           NEW p \in Partials(t, Best(t))
    PROVE  /\ p.seg \in Range(index.segs) /\ Len(p.seg.k) > n
           /\ p.same \in Nat /\ n + p.same <= Len(t) - 1
           /\ Best(t) \o Take(Payload(p.seg), p.same) = Take(t, n + p.same)
<1> DEFINE b == Best(t)
           s == p.seg
           L == Len(t) - 1
           w == SubSeq(t, n + 1, L)
<1>1. /\ t \in Seq(Tokens) /\ Len(t) \in Nat /\ n \in Nat /\ L \in Nat /\ n <= L /\ L < Len(t)
      /\ b = Take(t, n) /\ Len(b) = n
    <2>1. t \in Seq(Tokens) /\ Len(t) \in 1 .. MaxLen /\ MaxLen \in Nat
        BY TokenSeqFacts, BoundsAssumption
    <2>2. b = Take(t, n) /\ Len(b) = n
        BY DEF BestAt
    <2> HIDE DEF b
    <2> QED BY <2>1, <2>2
<1>2. /\ s \in Range(index.segs) /\ <<b, s.k>> \in index.nexts
      /\ p.same = Common(Payload(s), SubSeq(t, Len(b) + 1, Len(t) - 1))
    <2>1. p \in Successors(t, b)
        BY DEF Partials
    <2> HIDE DEF b
    <2>2. PICK x \in Range(index.segs) :
             /\ <<b, x.k>> \in index.nexts
             /\ p = [seg |-> x, same |-> Common(Payload(x), SubSeq(t, Len(b) + 1, Len(t) - 1))]
        BY <2>1 DEF Successors
    <2>3. s = x
        BY <2>2
    <2>4. p.same = Common(Payload(x), SubSeq(t, Len(b) + 1, Len(t) - 1))
        BY <2>2
    <2> HIDE DEF s
    <2> QED BY <2>2, <2>3, <2>4
<1>3. Dict(index.segs) /\ index.nexts = Links(index.segs)
    BY GoodFacts
<1>4. s \in GoodSegs /\ s.v.prev = b
    <2>1. PICK x \in Range(index.segs) : x.v.prev = b /\ x.k = s.k
        BY <1>2, <1>3 DEF Links
    <2>2. x = s
        BY <1>2, <1>3, <2>1 DEF Dict, Apart
    <2> QED BY <1>2, <1>3, <2>1, <2>2, DictFacts
<1> HIDE DEF s
<1>5. /\ Payload(s) \in Seq(Tokens) /\ Len(s.k) > n
    <2>1. /\ Len(s.k) \in 1 .. MaxLen /\ s.v.start \in 0 .. Len(s.k) - 1
          /\ Len(s.v.prev) = s.v.start /\ Payload(s) \in Seq(Tokens)
        BY <1>4, SegFacts
    <2> QED BY <1>1, <1>4, <2>1, BoundsAssumption
<1>6. w \in Seq(Tokens) /\ Len(w) = L - n
    <2>1. \A i \in n + 1 .. L : t[i] \in Tokens
        <3> SUFFICES ASSUME NEW i \in n + 1 .. L PROVE t[i] \in Tokens
            OBVIOUS
        <3>1. i \in 1 .. Len(t)
            BY <1>1
        <3> QED BY <1>1, <3>1, ElementOfSeq
    <2>2. n + 1 \in Int /\ L \in Int
        BY <1>1
    <2> HIDE DEF L
    <2>3. w \in Seq(Tokens) /\ Len(w) = IF n + 1 <= L THEN L - (n + 1) + 1 ELSE 0
        BY <2>1, <2>2, SubSeqProperties
    <2> QED BY <1>1, <2>3
<1> HIDE DEF L
<1>7. p.same = Common(Payload(s), w)
    BY <1>1, <1>2 DEF s, L
<1>8. PICK m \in 0 .. Len(w) : m = p.same /\ Take(Payload(s), m) = Take(w, m)
    <2> HIDE DEF w
    <2> QED BY <1>5, <1>6, <1>7, CommonFacts
<1>9. m \in Nat /\ n + m <= L
    BY <1>1, <1>6, <1>8
<1>10. b \o Take(w, m) = Take(t, n + m)
    <2>1. CASE m = 0
        <3>1. Take(w, m) = <<>> /\ b \in Seq(Tokens)
            <4>1. 0 \in 0 .. Len(w) /\ n \in 0 .. Len(t)
                BY <1>1, <1>6
            <4> HIDE DEF w, b
            <4> QED BY <1>1, <1>6, <2>1, <4>1, TakeFacts DEF Root
        <3>2. b \o <<>> = b /\ n + m = n
            BY <1>1, <2>1, <3>1, ConcatEmptySeq
        <3> QED BY <1>1, <3>1, <3>2
    <2>2. CASE m # 0
        <3>1. /\ n + 1 \in 1 .. Len(t) /\ L \in 1 .. Len(t) /\ 1 \in 1 .. L - (n + 1) + 1
              /\ m \in 1 .. L - (n + 1) + 1
            BY <1>1, <1>9, <2>2
        <3>2. SubSeq(SubSeq(t, n + 1, L), 1, m) = SubSeq(t, (n + 1) + 1 - 1, (n + 1) + m - 1)
            BY <1>1, <3>1, SubSeqOfSubSeq
        <3>3. (n + 1) + 1 - 1 = n + 1 /\ (n + 1) + m - 1 = n + m
            BY <1>1, <1>9
        <3>4. Take(w, m) = SubSeq(t, n + 1, n + m)
            BY <3>2, <3>3 DEF Take
        <3>5. 1 \in 1 .. Len(t) + 1 /\ n \in 1 - 1 .. Len(t) /\ n + m \in n .. Len(t)
            BY <1>1, <1>9
        <3>6. SubSeq(t, 1, n) \o SubSeq(t, n + 1, n + m) = SubSeq(t, 1, n + m)
            BY <1>1, <3>5, ConcatAdjacentSubSeq
        <3> QED BY <1>1, <3>4, <3>6 DEF Take
    <2> QED BY <2>1, <2>2
<1> QED BY <1>2, <1>5, <1>8, <1>9, <1>10 DEF s, L

\* Segments restored: the index and the directory only move them to the end.
Moved(used) ==
    /\ index' = [index EXCEPT !.segs = Touched(index.segs, used)]
    /\ disk' = Touched(disk, used)

LEMMA MovedGood ==
    ASSUME GoodIndex(index), disk = index.segs,
           NEW used, Dict(used), Range(used) \subseteq Range(index.segs), Moved(used)
    PROVE  /\ GoodIndex(index') /\ disk' = (index.segs)' /\ Dict(disk')
           /\ Keys((index.segs)') = Keys(index.segs) /\ (index.bytes)' = index.bytes
           /\ Range((index.segs)') = Range(index.segs)
<1> DEFINE d == index.segs
           e == Touched(d, used)
<1>1. /\ Dict(d) /\ index = [segs |-> d, nexts |-> Links(d), bytes |-> TotalSize(d)]
    BY GoodFacts
<1>2. Dict(e) /\ Range(e) = Range(d) /\ Keys(e) = Keys(d) /\ TotalSize(e) = TotalSize(d)
    BY <1>1, TouchedFacts
<1>3. Links(e) = Links(d)
    BY <1>2 DEF Links
<1>4. index' = [segs |-> e, nexts |-> Links(e), bytes |-> TotalSize(e)]
    BY <1>1, <1>2, <1>3 DEF Moved
<1>5. disk' = e
    BY DEF Moved
<1>6. PICK f : f = e
    OBVIOUS
<1>7. /\ Dict(f) /\ Range(f) = Range(d) /\ Keys(f) = Keys(d) /\ TotalSize(f) = TotalSize(d)
      /\ disk' = f
      /\ index' = [segs |-> f, nexts |-> Links(f), bytes |-> TotalSize(f)]
    BY <1>2, <1>4, <1>5, <1>6
<1>8. GoodIndex(index')
    <2>1. GoodIndex([segs |-> f, nexts |-> Links(f), bytes |-> TotalSize(f)])
        BY <1>7, MakeIndex
    <2> QED BY <1>7, <2>1
<1>9. (index.segs)' = f /\ (index.bytes)' = TotalSize(f)
    BY <1>7
<1> QED BY <1>1, <1>7, <1>8, <1>9

\* A restore gives back exactly the first tokens of the request, and sets its
\* cut points there.
RestoredTo(t, n) ==
    /\ GoodIndex(index') /\ disk' = (index.segs)' /\ Dict(disk')
    /\ Keys((index.segs)') = Keys(index.segs) /\ (index.bytes)' = index.bytes
    /\ Range((index.segs)') = Range(index.segs)
    /\ cur' = [cut |-> n, prev |-> Take(t, n)]
    /\ \E m \in 0 .. Len(t) - 1 : restored' = Take(t, m)

LEMMA RestoreGood ==
    ASSUME GoodIndex(index), disk = index.segs, NEW t \in TokenSeqs,
           NEW n \in 0 .. Len(t) - 1, BestAt(t, n),
           NEW partial, partial = <<>> \/ \E p \in Partials(t, Best(t)) : partial = <<p>>,
           Restore(ChainTo(Best(t)), partial)
    PROVE  RestoredTo(t, n)
<1> DEFINE b == Best(t)
           c == ChainTo(b)
           R == Range(index.segs)
           ends == [i \in DOMAIN partial |-> partial[i].seg]
           used == c \o ends
           rest == [i \in DOMAIN partial |-> Take(Payload(partial[i].seg), partial[i].same)]
<1>1. /\ t \in Seq(Tokens) /\ Len(t) \in Nat /\ n \in 0 .. Len(t) /\ n \in Nat
      /\ b = Take(t, n) /\ b \in Seq(Tokens) /\ Len(b) = n
    <2>1. t \in Seq(Tokens) /\ Len(t) \in 1 .. MaxLen /\ MaxLen \in Nat
        BY TokenSeqFacts, BoundsAssumption
    <2>2. n \in 0 .. Len(t) /\ n \in Nat /\ Len(t) \in Nat
        BY <2>1
    <2>3. b = Take(t, n)
        BY DEF BestAt
    <2> HIDE DEF b
    <2> QED BY <2>1, <2>2, <2>3, TakeFacts
<1>2. Dict(index.segs) /\ R \subseteq GoodSegs
    BY GoodFacts, DictFacts
<1>3. /\ Dict(c) /\ Range(c) \subseteq R /\ Concat(c) = b /\ \A x \in Range(c) : Len(x.k) <= n
      /\ IF c = <<>> THEN n = 0 ELSE Last(c).k = b
    <2>1. CASE n = 0
        <3>1. c = <<>> /\ b = <<>>
            BY <2>1 DEF BestAt, Root
        <3>2. Concat(<<>>) = <<>>
            BY FoldEmpty DEF Concat
        <3> HIDE DEF c, b
        <3> QED BY <2>1, <3>1, <3>2, DictEmpty
    <2>2. CASE n # 0
        <3>1. ChainOf(c, R, b)
            BY <2>2 DEF BestAt
        <3> HIDE DEF c, b, R
        <3>2. /\ Dict(c) /\ Range(c) \subseteq R /\ c # <<>> /\ \A x \in Range(c) : Len(x.k) <= Len(b)
            BY <1>2, <3>1, ChainDict
        <3>3. Concat(c) = b
            BY <1>2, <3>1, ChainTokens
        <3>4. Last(c).k = b
            BY <3>1 DEF Last, ChainOf, Linked
        <3> QED BY <1>1, <3>2, <3>3, <3>4
    <2> QED BY <2>1, <2>2
<1>4. /\ restored' = Concat(c) \o (IF rest = <<>> THEN <<>> ELSE rest[1])
      /\ Moved(used)
      /\ cur' = IF c = <<>> THEN [cut |-> 0, prev |-> Root]
                ELSE [cut |-> Len(Last(c).k), prev |-> Last(c).k]
    BY DEF Restore, Moved
<1>5. cur' = [cut |-> n, prev |-> Take(t, n)]
    <2>1. CASE c = <<>>
        <3>1. n = 0 /\ Take(t, n) = Root
            BY <1>1, <1>3, <2>1, TakeFacts
        <3> QED BY <1>4, <2>1, <3>1
    <2>2. CASE c # <<>>
        <3> HIDE DEF c, b
        <3> QED BY <1>1, <1>3, <1>4, <2>2
    <2> QED BY <2>1, <2>2
<1> HIDE DEF c, b, R
<1>6. CASE partial = <<>>
    <2>1. ends = <<>> /\ rest = <<>>
        <3>1. DOMAIN partial = {}
            BY <1>6
        <3>2. ends = [i \in {} |-> partial[i].seg] /\ DOMAIN ends = {}
            BY <3>1
        <3>3. DOMAIN rest = {}
            BY <3>1
        <3> QED BY <3>2, <3>3
    <2>2. c \in Seq(GoodSegs)
        BY <1>3 DEF Dict
    <2>3. used = c
        BY <2>1, <2>2, ConcatEmptySeq
    <2>4. restored' = Take(t, n)
        BY <1>1, <1>3, <1>4, <2>1, ConcatEmptySeq
    <2>5. Moved(c)
        BY <1>4, <2>3
    <2>6. /\ GoodIndex(index') /\ disk' = (index.segs)' /\ Dict(disk')
          /\ Keys((index.segs)') = Keys(index.segs) /\ (index.bytes)' = index.bytes
          /\ Range((index.segs)') = Range(index.segs)
        BY <1>3, <2>5, MovedGood DEF R
    <2> QED BY <1>5, <2>4, <2>6 DEF RestoredTo
<1>7. CASE \E p \in Partials(t, Best(t)) : partial = <<p>>
    <2>1. PICK p \in Partials(t, Best(t)) : partial = <<p>>
        BY <1>7
    <2>2. /\ p.seg \in R /\ Len(p.seg.k) > n
          /\ p.same \in Nat /\ n + p.same <= Len(t) - 1
          /\ b \o Take(Payload(p.seg), p.same) = Take(t, n + p.same)
        BY PartialFacts DEF b, R
    <2>3. ends = <<p.seg>> /\ rest = <<Take(Payload(p.seg), p.same)>>
        <3>1. DOMAIN partial = {1} /\ partial[1] = p
            BY <2>1
        <3>2. ends = [i \in {1} |-> p.seg]
            BY <3>1
        <3>3. rest = [i \in {1} |-> Take(Payload(p.seg), p.same)]
            BY <3>1
        <3>4. \A x : [i \in {1} |-> x] = <<x>>
            OBVIOUS
        <3> QED BY <3>2, <3>3, <3>4
    <2>4. Dict(used) /\ Range(used) \subseteq R
        <3>1. p.seg \in GoodSegs /\ p.seg.k \notin Keys(c) /\ c \in Seq(GoodSegs)
            <4>1. p.seg \in GoodSegs
                BY <1>2, <2>2 DEF R
            <4>2. Keys(c) = {x.k : x \in Range(c)} /\ c \in Seq(GoodSegs)
                BY <1>3, DictFacts
            <4>3. Len(p.seg.k) \in Nat
                <5>1. Len(p.seg.k) \in 1 .. MaxLen
                    BY <4>1, SegFacts
                <5> QED BY <5>1, BoundsAssumption
            <4>4. ASSUME NEW x \in Range(c) PROVE x.k # p.seg.k
                <5>1. Len(x.k) <= n /\ Len(p.seg.k) > n
                    BY <1>3, <2>2
                <5> QED BY <1>1, <4>3, <5>1
            <4> QED BY <4>1, <4>2, <4>4
        <3>2. used = Append(c, p.seg)
            <4>1. c \o <<p.seg>> = Append(c, p.seg)
                BY <3>1, AppendIsConcat
            <4> QED BY <2>3, <4>1
        <3>3. Dict(Append(c, p.seg)) /\ Range(Append(c, p.seg)) = Range(c) \cup {p.seg}
            BY <1>3, <3>1, DictAppend
        <3> QED BY <1>3, <2>2, <3>2, <3>3
    <2>5. restored' = Take(t, n + p.same) /\ n + p.same \in 0 .. Len(t) - 1
        <3>1. <<Take(Payload(p.seg), p.same)>> # <<>>
            OBVIOUS
        <3>2. restored' = b \o Take(Payload(p.seg), p.same)
            BY <1>3, <1>4, <2>3, <3>1
        <3> QED BY <1>1, <2>2, <3>2
    <2> HIDE DEF used
    <2>6. /\ GoodIndex(index') /\ disk' = (index.segs)' /\ Dict(disk')
          /\ Keys((index.segs)') = Keys(index.segs) /\ (index.bytes)' = index.bytes
          /\ Range((index.segs)') = Range(index.segs)
        BY <1>4, <2>4, MovedGood DEF R
    <2> QED BY <1>5, <2>5, <2>6 DEF RestoredTo
<1> QED BY <1>6, <1>7

\* What _open reads back.
LEMMA OpenedGood ==
    ASSUME NEW files, Dict(files)
    PROVE  GoodIndex(Opened(files)) /\ Opened(files).segs = Whole(files) /\ Dict(Whole(files))
<1> DEFINE S == {s \in Range(files) : Walk(files, s.k) # <<>>}
           w == Whole(files)
<1>1. w = Only(files, S)
    BY DEF Whole
<1> HIDE DEF S, w
<1>2. w \in Seq(GoodSegs) /\ Range(w) = Range(files) \cap S /\ IsInjective(w)
    BY <1>1, OnlyProperties DEF Dict
<1>3. Dict(w)
    BY <1>2 DEF Dict, Apart
<1>4. Opened(files) = [segs |-> w, nexts |-> Links(w), bytes |-> TotalSize(w)]
    BY DEF Opened, w
<1>5. Opened(files).segs = w
    BY <1>4
<1> QED BY <1>3, <1>4, <1>5, MakeIndex DEF w

-----------------------------------------------------------------------------
(* The inductive invariant.                                                *)

\* The segments saved and not in the index yet.
Waiting == (IF wpc = "placed" THEN hand \o q ELSE q) \o saving

Typed ==
    /\ dir \in BOOLEAN /\ wpc \in {"get", "placed", "done"} /\ rpc \in {"ready", "flush", "room"}
    /\ q \in Seq(GoodSegs) /\ hand \in Seq(GoodSegs) /\ saving \in Seq(GoodSegs)
    /\ req \in TokenSeqs \cup {<<>>}
    /\ IF wpc = "get" THEN hand = <<>> ELSE \E s \in GoodSegs : hand = <<s>>
    /\ IF rpc = "room" THEN \E s \in GoodSegs : saving = <<s>> ELSE saving = <<>>
    /\ rpc = "flush" => req # <<>>
    /\ ~dir => rpc = "ready" /\ req = <<>> /\ q = <<>> /\ wpc = "get"

IndexRight == GoodIndex(index) /\ Dict(disk) /\ FilesIndexed
PendingRight == pending = TotalSize(q \o hand)

\* No segment is saved twice: what waits is not indexed, nor waits twice, for
\* each save of a request is of more tokens than those before.
WaitingNew == Dict(Waiting) /\ Keys(Waiting) \cap Keys(index.segs) = {}
WaitingShort ==
    rpc # "flush" /\ req # <<>> =>
        \A x \in Range(Waiting) : /\ Len(x.k) < Len(req)
                                  /\ cur # NoCur => Len(x.k) <= cur.cut

\* The cut points are the request's.
CurRight ==
    cur # NoCur =>
        /\ req # <<>> /\ rpc # "flush"
        /\ cur.cut \in 0 .. Len(req) - 1 /\ cur = [cut |-> cur.cut, prev |-> Take(req, cur.cut)]

Restored == IF req = <<>> THEN restored = <<>>
            ELSE \E n \in 0 .. Len(req) - 1 : restored = Take(req, n)

KInv == /\ Typed /\ IndexRight /\ PendingRight /\ WaitingNew /\ WaitingShort
        /\ CurRight /\ Restored

\* What a new segment waiting needs: to be longer than all that wait.
LEMMA WaitingMore ==
    ASSUME NEW w, Dict(w), NEW s \in GoodSegs, \A x \in Range(w) : Len(x.k) < Len(s.k)
    PROVE  /\ Dict(w \o <<s>>) /\ Range(w \o <<s>>) = Range(w) \cup {s}
           /\ Keys(w \o <<s>>) = Keys(w) \cup {s.k}
<1>1. w \in Seq(GoodSegs) /\ Keys(w) = {x.k : x \in Range(w)}
    BY DictFacts
<1>2. Len(s.k) \in Nat
    <2>1. Len(s.k) \in 1 .. MaxLen
        BY SegFacts
    <2> QED BY <2>1, BoundsAssumption
<1>3. s.k \notin Keys(w)
    BY <1>1, <1>2
<1>4. PICK u : u = w \o <<s>>
    OBVIOUS
<1>5. u = Append(w, s)
    BY <1>1, <1>4, AppendIsConcat
<1>6. /\ Dict(Append(w, s)) /\ Range(Append(w, s)) = Range(w) \cup {s}
      /\ Keys(Append(w, s)) = Keys(w) \cup {s.k}
    BY <1>3, DictAppend
<1>7. Dict(u) /\ Range(u) = Range(w) \cup {s} /\ Keys(u) = Keys(w) \cup {s.k}
    BY <1>5, <1>6
<1> QED BY <1>4, <1>7

\* One segment fewer.
LEMMA WaitingFewer ==
    ASSUME NEW s \in GoodSegs, NEW w \in Seq(GoodSegs), Dict(<<s>> \o w)
    PROVE  /\ Dict(w) /\ Range(w) \subseteq Range(<<s>> \o w) /\ s.k \notin Keys(w)
           /\ Keys(<<s>> \o w) = Keys(w) \cup {s.k}
<1> DEFINE d == <<s>> \o w
           n == Len(w)
<1>1. <<s>> \in Seq(GoodSegs) /\ Len(<<s>>) = 1 /\ n \in Nat /\ DOMAIN w = 1 .. n /\ <<s>>[1] = s
    BY LenProperties
<1>2. /\ d \in Seq(GoodSegs) /\ Len(d) = 1 + n
      /\ \A i \in 1 .. 1 + n : d[i] = IF i <= 1 THEN <<s>>[i] ELSE w[i - 1]
    BY <1>1, ConcatProperties
<1>3. IsInjective(d) /\ Apart(Range(d)) /\ Range(d) \subseteq GoodSegs
    BY DictFacts DEF Dict
<1> HIDE DEF d
<1>4. d[1] = s /\ \A i \in 1 .. n : d[i + 1] = w[i]
    <2>1. d[1] = s
        <3>1. 1 \in 1 .. 1 + n
            BY <1>1
        <3> QED BY <1>1, <1>2, <3>1
    <2>2. ASSUME NEW i \in 1 .. n PROVE d[i + 1] = w[i]
        <3>1. i + 1 \in 1 .. 1 + n /\ ~(i + 1 <= 1) /\ (i + 1) - 1 = i
            BY <1>1
        <3> QED BY <1>2, <3>1
    <2> QED BY <2>1, <2>2
<1>5. DOMAIN d = 1 .. 1 + n
    BY <1>2, LenProperties
<1>6. \A i, j \in 1 .. 1 + n : d[i].k = d[j].k => i = j
    <2>1. \A i \in 1 .. 1 + n : d[i] \in Range(d)
        BY <1>5 DEF Range
    <2> QED BY <1>3, <1>5, <2>1 DEF IsInjective, Apart
<1>7. \A i, j \in 1 .. n : w[i].k = w[j].k => i = j
    <2> SUFFICES ASSUME NEW i \in 1 .. n, NEW j \in 1 .. n, w[i].k = w[j].k PROVE i = j
        OBVIOUS
    <2>1. i + 1 \in 1 .. 1 + n /\ j + 1 \in 1 .. 1 + n
        BY <1>1
    <2>2. i + 1 = j + 1
        BY <1>4, <1>6, <2>1
    <2> QED BY <1>1, <2>2
<1>8. Dict(w)
    <2>1. IsInjective(w)
        BY <1>1, <1>7 DEF IsInjective
    <2>2. Apart(Range(w))
        BY <1>1, <1>7 DEF Apart, Range
    <2> QED BY <2>1, <2>2 DEF Dict
<1>9. s.k \notin Keys(w)
    <2> SUFFICES ASSUME NEW i \in 1 .. n, w[i].k = s.k PROVE FALSE
        BY <1>1 DEF Keys
    <2>1. i + 1 \in 1 .. 1 + n /\ 1 \in 1 .. 1 + n /\ i + 1 # 1
        BY <1>1
    <2> QED BY <1>4, <1>6, <2>1
<1>10. Range(d) = {s} \cup Range(w)
    <2>1. Range(d) = Range(<<s>>) \cup Range(w)
        BY <1>1, RangeConcatenation, ZenonT(40) DEF d
    <2>2. Range(<<s>>) = {s}
        BY DEF Range
    <2> QED BY <2>1, <2>2
<1>11. Keys(d) = {x.k : x \in Range(d)} /\ Keys(w) = {x.k : x \in Range(w)}
    BY <1>8, DictFacts DEF d
<1> QED BY <1>8, <1>9, <1>10, <1>11 DEF d

LEMMA InvInit == Init => KInv
<1> SUFFICES ASSUME Init PROVE KInv
    OBVIOUS
<1> USE DEF Init
<1>1. /\ GoodIndex(EmptyIndex) /\ Dict(<<>>) /\ Keys(<<>>) = {} /\ <<>> \in Seq(GoodSegs)
      /\ <<>> \o <<>> = <<>> /\ TotalSize(<<>>) = 0
    <2>1. <<>> \in Seq(GoodSegs)
        BY EmptySeq
    <2> QED BY <2>1, EmptyGood, DictEmpty, ConcatEmptySeq, TotalType
<1>2. Typed
    BY <1>1 DEF Typed
<1>3. IndexRight
    BY <1>1 DEF IndexRight, FilesIndexed
<1>4. PendingRight
    BY <1>1 DEF PendingRight
<1>5. Waiting = <<>>
    BY <1>1 DEF Waiting
<1>6. WaitingNew /\ WaitingShort
    BY <1>1, <1>5 DEF WaitingNew, WaitingShort
<1>7. CurRight /\ Restored
    BY DEF CurRight, Restored
<1> QED BY <1>2, <1>3, <1>4, <1>6, <1>7 DEF KInv

\* Where the writer is not heard of: what waits, the books and the files are
\* as before.
LEMMA InvFetch ==
    ASSUME KInv, NEW t \in TokenSeqs, Fetch(t) PROVE KInv'
<1> USE DEF KInv
<1>1. /\ rpc = "ready" /\ rpc' = "flush" /\ req' = t /\ dir' = TRUE /\ cur' = NoCur
      /\ restored' = <<>> /\ q' = q /\ hand' = hand /\ wpc' = wpc /\ pending' = pending
      /\ saving' = saving
    BY DEF Fetch, writer
<1>2. t \in Seq(Tokens) /\ Len(t) \in 1 .. MaxLen /\ t # <<>>
    <2>1. t \in Seq(Tokens) /\ Len(t) \in 1 .. MaxLen /\ Len(<<>>) = 0
        BY TokenSeqFacts, EmptySeq
    <2> QED BY <2>1
<1>3. Typed'
    BY <1>1, <1>2 DEF Typed
<1>4. PendingRight'
    BY <1>1 DEF PendingRight
<1>5. Waiting' = Waiting
    BY <1>1 DEF Waiting
<1>6. IndexRight' /\ WaitingNew'
    <2>1. CASE dir /\ UNCHANGED <<index, disk, tmp>>
        <3>1. IndexRight'
            BY <1>1, <2>1 DEF IndexRight, FilesIndexed
        <3>2. WaitingNew'
            BY <1>5, <2>1 DEF WaitingNew
        <3> QED BY <3>1, <3>2
    <2>2. CASE ~dir /\ index' = Opened(disk) /\ disk' = Whole(disk) /\ tmp' = {}
        <3>1. Dict(disk) /\ q = <<>> /\ wpc = "get" /\ saving = <<>> /\ <<>> \o <<>> = <<>>
            <4>1. <<>> \o <<>> = <<>>
                BY EmptySeq, ConcatEmptySeq
            <4> QED BY <2>2, <4>1 DEF Typed, IndexRight
        <3>2. GoodIndex(Opened(disk)) /\ Opened(disk).segs = Whole(disk) /\ Dict(Whole(disk))
            BY <3>1, OpenedGood
        <3>3. PICK o, w : o = Opened(disk) /\ w = Whole(disk)
            OBVIOUS
        <3>4. index' = o /\ disk' = w /\ GoodIndex(o) /\ o.segs = w /\ Dict(w) /\ w \in Seq(GoodSegs)
            BY <2>2, <3>2, <3>3 DEF Dict
        <3>5. w \o <<>> = w
            BY <3>4, ConcatEmptySeq
        <3>6. IndexRight'
            BY <1>1, <3>1, <3>4, <3>5 DEF IndexRight, FilesIndexed
        <3>7. Waiting' = <<>>
            BY <1>5, <3>1 DEF Waiting
        <3>8. WaitingNew'
            BY <3>7, DictEmpty DEF WaitingNew
        <3> QED BY <3>6, <3>8
    <2> QED BY <2>1, <2>2 DEF Fetch
<1>7. WaitingShort' /\ CurRight'
    BY <1>1 DEF WaitingShort, CurRight
<1>8. Restored'
    <2>1. 0 \in 0 .. Len(t) - 1 /\ 0 \in 0 .. Len(t)
        BY <1>2, BoundsAssumption
    <2>2. Take(t, 0) = <<>>
        BY <1>2, <2>1, TakeFacts DEF Root
    <2> QED BY <1>1, <1>2, <2>1, <2>2 DEF Restored
<1> QED BY <1>3, <1>4, <1>6, <1>7, <1>8

\* Nothing waits once pending is down to 0.
LEMMA Flushed ==
    ASSUME KInv, pending = 0, rpc = "flush"
    PROVE  q = <<>> /\ hand = <<>> /\ wpc = "get" /\ saving = <<>> /\ Waiting = <<>> /\ disk = index.segs
<1>1. /\ q \in Seq(GoodSegs) /\ hand \in Seq(GoodSegs) /\ saving = <<>> /\ dir
      /\ IF wpc = "get" THEN hand = <<>> ELSE \E s \in GoodSegs : hand = <<s>>
    BY DEF KInv, Typed
<1>2. q \o hand \in Seq(GoodSegs) /\ TotalSize(q \o hand) = 0
    BY <1>1, ConcatProperties DEF KInv, PendingRight
<1>3. q \o hand = <<>>
    BY <1>2, TotalType
<1>4. q = <<>> /\ hand = <<>>
    <2>1. Len(q \o hand) = Len(q) + Len(hand) /\ Len(q) \in Nat /\ Len(hand) \in Nat
        BY <1>1, ConcatProperties, LenProperties
    <2>2. Len(<<>>) = 0
        OBVIOUS
    <2>3. Len(q) = 0 /\ Len(hand) = 0
        BY <1>3, <2>1, <2>2
    <2> QED BY <1>1, <2>3, EmptySeq
<1>5. wpc = "get"
    BY <1>1, <1>4
<1>6. Waiting = <<>> /\ disk = index.segs
    <2>1. <<>> \o <<>> = <<>>
        BY EmptySeq, ConcatEmptySeq
    <2>2. disk = index.segs \o <<>> /\ index.segs \in Seq(GoodSegs)
        BY <1>1, <1>5 DEF KInv, IndexRight, FilesIndexed, GoodIndex, Dict
    <2> QED BY <1>1, <1>4, <1>5, <2>1, <2>2, ConcatEmptySeq DEF Waiting
<1> QED BY <1>1, <1>4, <1>5, <1>6

\* The request's caches are restored, from the longest stored prefix unless a
\* read fails.
LEMMA Returned ==
    ASSUME KInv, FetchReturn
    PROVE  \E n \in 0 .. Len(req) - 1 : RestoredTo(req, n) /\ (~Faults => BestAt(req, n))
<1> USE DEF KInv
<1>1. /\ rpc = "flush" /\ pending = 0
    BY DEF FetchReturn
<1>2. disk = index.segs
    BY <1>1, Flushed
<1>3. req \in TokenSeqs /\ GoodIndex(index)
    BY <1>1 DEF Typed, IndexRight
<1>4. req \in Seq(Tokens) /\ Len(req) \in Nat \ {0}
    <2>1. req \in Seq(Tokens) /\ Len(req) \in 1 .. MaxLen
        BY <1>3, TokenSeqFacts
    <2> QED BY <2>1, BoundsAssumption
<1>5. PICK n \in 0 .. Len(req) - 1 : BestAt(req, n)
    BY <1>3, BestFacts
<1>6. \/ \E p \in Partials(req, Best(req)) : Restore(ChainTo(Best(req)), <<p>>)
      \/ Restore(ChainTo(Best(req)), <<>>)
      \/ Miss /\ (ChainTo(Best(req)) = <<>> \/ Faults)
    BY DEF FetchReturn
<1>7. CASE \E p \in Partials(req, Best(req)) : Restore(ChainTo(Best(req)), <<p>>)
    <2>1. PICK p \in Partials(req, Best(req)) : Restore(ChainTo(Best(req)), <<p>>)
        BY <1>7
    <2>2. PICK partial : partial = <<p>>
        OBVIOUS
    <2>3. Restore(ChainTo(Best(req)), partial)
        BY <2>1, <2>2
    <2>4. partial = <<>> \/ \E x \in Partials(req, Best(req)) : partial = <<x>>
        BY <2>2
    <2>5. RestoredTo(req, n)
        BY <1>2, <1>3, <1>5, <2>3, <2>4, RestoreGood
    <2> QED BY <1>5, <2>5
<1>8. CASE Restore(ChainTo(Best(req)), <<>>)
    <2>1. RestoredTo(req, n)
        BY <1>2, <1>3, <1>5, <1>8, RestoreGood
    <2> QED BY <1>5, <2>1
<1>9. CASE Miss /\ (ChainTo(Best(req)) = <<>> \/ Faults)
    <2>1. 0 \in 0 .. Len(req) - 1 /\ 0 \in 0 .. Len(req)
        BY <1>4
    <2>2. Take(req, 0) = <<>>
        BY <1>4, <2>1, TakeFacts DEF Root
    <2>3. index' = index /\ disk' = disk /\ cur' = [cut |-> 0, prev |-> Root] /\ restored' = <<>>
        BY <1>9 DEF Miss
    <2>4. GoodIndex(index') /\ disk' = (index.segs)' /\ Dict(disk')
        BY <1>2, <1>3, <2>3 DEF IndexRight
    <2>5. RestoredTo(req, 0)
        BY <2>1, <2>2, <2>3, <2>4 DEF RestoredTo, Root
    <2>6. ~Faults => n = 0
        <3> SUFFICES ASSUME ChainTo(Best(req)) = <<>>, n # 0 PROVE FALSE
            BY <1>9
        <3>1. Len(<<>>) \in Nat \ {0}
            BY <1>5 DEF BestAt, ChainOf, Linked
        <3> QED BY <3>1
    <2> QED BY <1>5, <2>1, <2>5, <2>6
<1> QED BY <1>6, <1>7, <1>8, <1>9

\* The request's caches are restored, or not: the index keeps its segments.
LEMMA InvFetchReturn ==
    ASSUME KInv, FetchReturn PROVE KInv' /\ (index.bytes)' = index.bytes
<1> USE DEF KInv
<1>1. /\ rpc = "flush" /\ pending = 0 /\ rpc' = "ready" /\ dir' = dir /\ q' = q /\ hand' = hand
      /\ wpc' = wpc /\ pending' = pending /\ req' = req /\ saving' = saving
    BY DEF FetchReturn, writer
<1>2. q = <<>> /\ hand = <<>> /\ wpc = "get" /\ saving = <<>> /\ Waiting = <<>> /\ disk = index.segs
    BY <1>1, Flushed
<1>3. req \in TokenSeqs /\ req # <<>> /\ dir
    BY <1>1 DEF Typed
<1>4. PICK n \in 0 .. Len(req) - 1 : RestoredTo(req, n)
    BY Returned
<1>5. /\ GoodIndex(index') /\ disk' = (index.segs)' /\ Dict(disk')
      /\ Keys((index.segs)') = Keys(index.segs) /\ (index.bytes)' = index.bytes
      /\ Range((index.segs)') = Range(index.segs)
      /\ cur' = [cut |-> n, prev |-> Take(req, n)]
      /\ \E m \in 0 .. Len(req) - 1 : restored' = Take(req, m)
    BY <1>4 DEF RestoredTo
<1>6. Typed'
    BY <1>1 DEF Typed
<1>7. IndexRight'
    <2>1. disk' \o <<>> = disk'
        BY <1>5, ConcatEmptySeq DEF Dict
    <2> QED BY <1>1, <1>2, <1>5, <2>1 DEF IndexRight, FilesIndexed
<1>8. PendingRight'
    BY <1>1 DEF PendingRight
<1>9. Waiting' = <<>>
    BY <1>1, <1>2 DEF Waiting
<1>10. WaitingNew' /\ WaitingShort'
    BY <1>9, DictEmpty DEF WaitingNew, WaitingShort
<1>11. CurRight'
    <2>1. (cur.cut)' = n
        BY <1>5
    <2> QED BY <1>1, <1>3, <1>5, <2>1 DEF CurRight
<1>12. Restored'
    BY <1>1, <1>3, <1>5 DEF Restored
<1> QED BY <1>5, <1>6, <1>7, <1>8, <1>10, <1>11, <1>12

\* A save: nothing when the key is stored, else s waits for room.
Saved(s) ==
    \/ UNCHANGED <<rpc, saving>>
    \/ rpc' = "room" /\ saving' = <<s>> /\ s.k \notin Keys(index.segs)

LEMMA SaveIsSaved ==
    ASSUME NEW t, NEW n, NEW cut, NEW prev, Save(t, n, cut, prev)
    PROVE  Saved(Seg(Take(t, n), prev, cut))
<1>1. Seg(Take(t, n), prev, cut).k = Take(t, n)
    BY DEF Seg
<1> QED BY <1>1 DEF Save, Saved, Stored

LEMMA SavedWaits ==
    ASSUME KInv, rpc = "ready", UNCHANGED <<q, writer>>, NEW s, saving' = <<s>>
    PROVE  Waiting' = Waiting \o <<s>>
<1>1. q' = q /\ hand' = hand /\ wpc' = wpc /\ saving = <<>>
    BY DEF writer, KInv, Typed
<1>2. PICK w : w = IF wpc = "placed" THEN hand \o q ELSE q
    OBVIOUS
<1>3. w \in Seq(GoodSegs)
    BY <1>2, ConcatProperties DEF KInv, Typed
<1>4. Waiting = w
    BY <1>1, <1>2, <1>3, ConcatEmptySeq DEF Waiting
<1>5. Waiting' = w \o <<s>>
    BY <1>1, <1>2 DEF Waiting
<1> QED BY <1>4, <1>5

LEMMA SavedGood ==
    ASSUME KInv, rpc = "ready", dir, NEW s \in GoodSegs,
           \A x \in Range(Waiting) : Len(x.k) < Len(s.k),
           Saved(s), UNCHANGED <<dir, index, disk, tmp, q, writer, pending>>,
           req' \in TokenSeqs \cup {<<>>}
    PROVE  /\ Typed' /\ IndexRight' /\ PendingRight' /\ WaitingNew'
           /\ Range(Waiting') \subseteq Range(Waiting) \cup {s} /\ rpc' # "flush"
<1> USE DEF KInv
<1>1. /\ dir' = dir /\ index' = index /\ disk' = disk /\ q' = q /\ hand' = hand
      /\ wpc' = wpc /\ pending' = pending
    BY DEF writer
<1>2. saving = <<>> /\ Dict(Waiting) /\ Keys(Waiting) \cap Keys(index.segs) = {}
    BY DEF Typed, WaitingNew
<1>3. \/ rpc' = rpc /\ saving' = saving
      \/ rpc' = "room" /\ saving' = <<s>> /\ s.k \notin Keys(index.segs)
    BY DEF Saved
<1>4. Typed' /\ rpc' # "flush"
    <2>1. CASE rpc' = rpc /\ saving' = saving
        BY <1>1, <2>1 DEF Typed
    <2>2. CASE rpc' = "room" /\ saving' = <<s>>
        <3>1. <<s>> \in Seq(GoodSegs)
            OBVIOUS
        <3>2. PICK v : v = <<s>> /\ v \in Seq(GoodSegs)
            BY <3>1
        <3>3. saving' = v /\ saving' \in Seq(GoodSegs) /\ \E x \in GoodSegs : saving' = <<x>>
            BY <2>2, <3>2
        <3> QED BY <1>1, <2>2, <3>3 DEF Typed
    <2> QED BY <1>3, <2>1, <2>2
<1>5. IndexRight' /\ PendingRight'
    BY <1>1 DEF IndexRight, FilesIndexed, PendingRight
<1>6. WaitingNew' /\ Range(Waiting') \subseteq Range(Waiting) \cup {s}
    <2>1. CASE rpc' = rpc /\ saving' = saving
        <3>1. Waiting' = Waiting
            BY <1>1, <2>1 DEF Waiting
        <3> QED BY <1>1, <1>2, <3>1 DEF WaitingNew
    <2>2. CASE rpc' = "room" /\ saving' = <<s>> /\ s.k \notin Keys(index.segs)
        <3>1. PICK w : w = Waiting
            OBVIOUS
        <3>2. Waiting' = w \o <<s>>
            BY <2>2, <3>1, SavedWaits
        <3>3. /\ Dict(w \o <<s>>) /\ Range(w \o <<s>>) = Range(w) \cup {s}
              /\ Keys(w \o <<s>>) = Keys(w) \cup {s.k}
            BY <1>2, <3>1, WaitingMore
        <3> QED BY <1>1, <1>2, <2>2, <3>1, <3>2, <3>3 DEF WaitingNew
    <2> QED BY <1>3, <2>1, <2>2
<1> QED BY <1>4, <1>5, <1>6

\* Prefill is reported beyond the last cut.
LEMMA ProgressFacts ==
    ASSUME KInv, req # <<>>, cur # NoCur, NEW n \in Progress
    PROVE  /\ req \in Seq(Tokens) /\ Len(req) \in 1 .. MaxLen /\ cur.cut \in 0 .. n - 1
           /\ n \in 1 .. Len(req) - 1 /\ cur.prev = Take(req, cur.cut)
<1>1. req \in Seq(Tokens) /\ Len(req) \in 1 .. MaxLen /\ MaxLen \in Nat
    <2>1. req \in TokenSeqs
        BY DEF KInv, Typed
    <2> QED BY <2>1, TokenSeqFacts, BoundsAssumption
<1>2. /\ cur.cut \in 0 .. Len(req) - 1 /\ cur = [cut |-> cur.cut, prev |-> Take(req, cur.cut)]
    BY DEF KInv, CurRight
<1>3. PICK k \in 0 .. Len(req) - 1 : restored = Take(req, k)
    BY DEF KInv, Restored
<1>4. Len(restored) = k
    <2>1. k \in 0 .. Len(req)
        BY <1>1
    <2> QED BY <1>1, <1>3, <2>1, TakeFacts
<1> DEFINE S == {cur.cut, Len(restored)}
           m == Max(S)
<1>5. m \in S /\ \A y \in S : y <= m
    <2>1. S \in SUBSET (0 .. Len(req)) /\ S # {} /\ Len(req) \in Nat
        BY <1>1, <1>2, <1>4
    <2> HIDE DEF S
    <2> QED BY <2>1, MaxFacts
<1>6. n \in m + 1 .. Len(req) - 1
    BY DEF Progress
<1> HIDE DEF m
<1>7. m \in Nat /\ cur.cut <= m
    BY <1>1, <1>2, <1>4, <1>5
<1>8. n \in 1 .. Len(req) - 1 /\ cur.cut \in 0 .. n - 1
    BY <1>1, <1>2, <1>6, <1>7
<1>9. cur.prev = Take(req, cur.cut)
    BY <1>2
<1> QED BY <1>1, <1>8, <1>9

LEMMA InvSaveProgress ==
    ASSUME KInv, SaveProgress PROVE KInv'
<1> USE DEF KInv
<1>1. PICK n \in Progress : Save(req, n, cur.cut, cur.prev) /\ cur' = [cut |-> n, prev |-> Take(req, n)]
    BY DEF SaveProgress
<1>2. /\ rpc = "ready" /\ req # <<>> /\ cur # NoCur /\ restored' = <<>> /\ req' = req
      /\ UNCHANGED <<dir, index, disk, tmp, q, writer, pending>>
    BY DEF SaveProgress
<1>3. /\ req \in Seq(Tokens) /\ Len(req) \in 1 .. MaxLen /\ cur.cut \in 0 .. n - 1
      /\ n \in 1 .. Len(req) - 1 /\ cur.prev = Take(req, cur.cut) /\ MaxLen \in Nat
    BY <1>2, ProgressFacts, BoundsAssumption
<1>4. PICK c \in 0 .. n - 1 : c = cur.cut
    BY <1>3
<1>5. PICK s : s = Seg(Take(req, n), Take(req, c), c)
    OBVIOUS
<1>6. s \in GoodSegs /\ Len(s.k) = n
    <2>1. n \in 1 .. Len(req) /\ n <= MaxLen /\ n \in 0 .. Len(req)
        BY <1>3
    <2>2. s \in GoodSegs /\ s.k = Take(req, n)
        BY <1>3, <1>5, <2>1, NewSeg
    <2> QED BY <1>3, <2>1, <2>2, TakeFacts
<1>7. Saved(s)
    BY <1>1, <1>3, <1>4, <1>5, SaveIsSaved
<1>8. \A x \in Range(Waiting) : Len(x.k) <= c /\ Len(x.k) \in Nat
    <2> SUFFICES ASSUME NEW x \in Range(Waiting) PROVE Len(x.k) <= c /\ Len(x.k) \in Nat
        OBVIOUS
    <2>1. Len(x.k) <= c
        BY <1>2, <1>4 DEF WaitingShort
    <2>2. x \in GoodSegs
        BY DictFacts DEF WaitingNew
    <2>3. Len(x.k) \in 1 .. MaxLen
        BY <2>2, SegFacts
    <2> QED BY <1>3, <2>1, <2>3
<1>9. dir /\ req' \in TokenSeqs \cup {<<>>}
    BY <1>2 DEF Typed
<1>10. \A x \in Range(Waiting) : Len(x.k) < Len(s.k)
    BY <1>3, <1>6, <1>8
<1>11. /\ Typed' /\ IndexRight' /\ PendingRight' /\ WaitingNew'
       /\ Range(Waiting') \subseteq Range(Waiting) \cup {s} /\ rpc' # "flush"
    BY <1>2, <1>6, <1>7, <1>9, <1>10, SavedGood
<1>12. (cur.cut)' = n
    BY <1>1
<1>13. WaitingShort'
    <2>1. \A x \in Range(Waiting) \cup {s} : Len(x.k) <= n /\ Len(x.k) < Len(req)
        BY <1>3, <1>6, <1>8
    <2> QED BY <1>2, <1>11, <1>12, <2>1 DEF WaitingShort
<1>14. CurRight'
    <2>1. n \in 0 .. Len(req) - 1
        BY <1>3
    <2> QED BY <1>1, <1>2, <1>11, <1>12, <2>1 DEF CurRight
<1>15. Restored'
    <2>1. 0 \in 0 .. Len(req) - 1 /\ 0 \in 0 .. Len(req)
        BY <1>3
    <2>2. Take(req, 0) = <<>>
        BY <1>3, <2>1, TakeFacts DEF Root
    <2> QED BY <1>2, <2>1, <2>2 DEF Restored
<1> QED BY <1>11, <1>13, <1>14, <1>15

\* A save that raised: the request has no cut points any more.
LEMMA InvSaveRaises ==
    ASSUME KInv, SaveRaises PROVE KInv'
<1> USE DEF KInv
<1>1. /\ rpc = "ready" /\ req # <<>> /\ cur' = NoCur /\ restored' = <<>> /\ dir' = dir
      /\ index' = index /\ disk' = disk /\ q' = q /\ hand' = hand /\ wpc' = wpc
      /\ pending' = pending /\ rpc' = rpc /\ req' = req /\ saving' = saving
    BY DEF SaveRaises, writer
<1>2. Waiting' = Waiting
    BY <1>1 DEF Waiting
<1>3. Typed' /\ IndexRight' /\ PendingRight'
    BY <1>1 DEF Typed, IndexRight, FilesIndexed, PendingRight
<1>4. WaitingNew' /\ WaitingShort' /\ CurRight'
    BY <1>1, <1>2 DEF WaitingNew, WaitingShort, CurRight
<1>5. Restored'
    <2>1. req \in Seq(Tokens) /\ Len(req) \in 1 .. MaxLen
        BY <1>1, TokenSeqFacts DEF Typed
    <2>2. 0 \in 0 .. Len(req) - 1 /\ 0 \in 0 .. Len(req)
        BY <2>1, BoundsAssumption
    <2>3. Take(req, 0) = <<>>
        BY <2>1, <2>2, TakeFacts DEF Root
    <2> QED BY <1>1, <2>2, <2>3 DEF Restored
<1> QED BY <1>3, <1>4, <1>5

\* The finished sequence is longer than what was saved of its prompt.
LEMMA InvInsert ==
    ASSUME KInv, Insert PROVE KInv'
<1> USE DEF KInv
<1>1. /\ rpc = "ready" /\ req # <<>> /\ cur' = NoCur /\ req' = <<>> /\ restored' = <<>>
      /\ UNCHANGED <<dir, index, disk, tmp, q, writer, pending>>
    BY DEF Insert
<1>2. PICK t \in TokenSeqs :
         /\ IsPrefix(req, t)
         /\ \/ cur # NoCur /\ Save(t, Len(t), cur.cut, cur.prev)
            \/ cur = NoCur /\ Save(t, Len(t), 0, Root)
    BY DEF Insert
<1>3. /\ t \in Seq(Tokens) /\ Len(t) \in 1 .. MaxLen /\ req \in Seq(Tokens)
      /\ Len(req) \in 1 .. MaxLen /\ MaxLen \in Nat
    <2>1. req \in TokenSeqs
        BY <1>1 DEF Typed
    <2> QED BY <2>1, TokenSeqFacts, BoundsAssumption
<1>4. Len(req) <= Len(t) /\ Take(t, Len(req)) = req
    <2>1. Len(req) <= Len(t) /\ SubSeq(req, 1, Len(req)) = SubSeq(t, 1, Len(req))
        BY <1>2 DEF IsPrefix
    <2>2. SubSeq(req, 1, Len(req)) = req
        BY <1>3, SubSeqFull
    <2> QED BY <2>1, <2>2 DEF Take
<1>5. \E c \in 0 .. Len(t) - 1 : Save(t, Len(t), c, Take(t, c))
    <2>1. CASE cur # NoCur /\ Save(t, Len(t), cur.cut, cur.prev)
        <3>1. cur.cut \in 0 .. Len(req) - 1 /\ cur = [cut |-> cur.cut, prev |-> Take(req, cur.cut)]
            BY <2>1 DEF CurRight
        <3>2. PICK c \in 0 .. Len(req) - 1 : c = cur.cut
            BY <3>1
        <3>3. cur.prev = Take(req, c)
            BY <3>1, <3>2
        <3>4. Len(req) \in 0 .. Len(t) /\ c \in 0 .. Len(req) /\ c \in 0 .. Len(t) - 1
            BY <1>3, <1>4
        <3>5. Take(Take(t, Len(req)), c) = Take(t, c)
            BY <1>3, <3>4, TakeFacts
        <3> QED BY <1>4, <2>1, <3>2, <3>3, <3>4, <3>5
    <2>2. CASE cur = NoCur /\ Save(t, Len(t), 0, Root)
        <3>1. 0 \in 0 .. Len(t) - 1 /\ 0 \in 0 .. Len(t)
            BY <1>3
        <3>2. Take(t, 0) = Root
            BY <1>3, <3>1, TakeFacts
        <3> QED BY <2>2, <3>1, <3>2
    <2> QED BY <1>2, <2>1, <2>2
<1>6. PICK c \in 0 .. Len(t) - 1 : Save(t, Len(t), c, Take(t, c))
    BY <1>5
<1>7. PICK s : s = Seg(Take(t, Len(t)), Take(t, c), c)
    OBVIOUS
<1>8. s \in GoodSegs /\ Len(s.k) = Len(t)
    <2>1. Len(t) \in 1 .. Len(t) /\ Len(t) <= MaxLen /\ Len(t) \in 0 .. Len(t)
        BY <1>3
    <2>2. s \in GoodSegs /\ s.k = Take(t, Len(t))
        BY <1>3, <1>7, <2>1, NewSeg
    <2> QED BY <1>3, <2>1, <2>2, TakeFacts
<1>9. Saved(s)
    BY <1>6, <1>7, SaveIsSaved
<1>10. \A x \in Range(Waiting) : Len(x.k) < Len(s.k)
    <2> SUFFICES ASSUME NEW x \in Range(Waiting) PROVE Len(x.k) < Len(t)
        BY <1>8
    <2>1. Len(x.k) < Len(req)
        BY <1>1 DEF WaitingShort
    <2>2. x \in GoodSegs
        BY DictFacts DEF WaitingNew
    <2>3. Len(x.k) \in 1 .. MaxLen
        BY <2>2, SegFacts
    <2> QED BY <1>3, <1>4, <2>1, <2>3
<1>11. dir /\ req' \in TokenSeqs \cup {<<>>}
    BY <1>1 DEF Typed
<1>12. Typed' /\ IndexRight' /\ PendingRight' /\ WaitingNew'
    BY <1>1, <1>8, <1>9, <1>10, <1>11, SavedGood
<1>13. WaitingShort' /\ CurRight' /\ Restored'
    BY <1>1 DEF WaitingShort, CurRight, Restored
<1> QED BY <1>12, <1>13

\* From here on what waits only moves: from _save to the queue, and from the
\* queue to the writer.
LEMMA EnqueueMoves ==
    ASSUME KInv, Enqueue PROVE Waiting' = Waiting
<1>1. /\ rpc = "room" /\ q' = q \o saving /\ saving' = <<>> /\ hand' = hand /\ wpc' = wpc
    BY DEF Enqueue, writer
<1>2. PICK s \in GoodSegs : saving = <<s>>
    BY <1>1 DEF KInv, Typed
<1>3. q \in Seq(GoodSegs) /\ hand \in Seq(GoodSegs) /\ <<s>> \in Seq(GoodSegs)
    BY <1>2 DEF KInv, Typed
<1>4. q' = q \o <<s>>
    BY <1>1, <1>2
<1>5. CASE wpc = "placed"
    <2>1. Waiting = (hand \o q) \o <<s>> /\ Waiting' = (hand \o (q \o <<s>>)) \o <<>>
        BY <1>1, <1>2, <1>4, <1>5 DEF Waiting
    <2>2. /\ (hand \o q) \o <<s>> = hand \o (q \o <<s>>)
          /\ hand \o (q \o <<s>>) \in Seq(GoodSegs)
        BY <1>3, ConcatAssociative, ConcatProperties
    <2> QED BY <2>1, <2>2, ConcatEmptySeq
<1>6. CASE wpc # "placed"
    <2>1. Waiting = q \o <<s>> /\ Waiting' = (q \o <<s>>) \o <<>>
        BY <1>1, <1>2, <1>4, <1>6 DEF Waiting
    <2>2. q \o <<s>> \in Seq(GoodSegs)
        BY <1>3, ConcatProperties
    <2> QED BY <2>1, <2>2, ConcatEmptySeq
<1> QED BY <1>5, <1>6

LEMMA InvEnqueue ==
    ASSUME KInv, Enqueue PROVE KInv'
<1> USE DEF KInv
<1>1. /\ rpc = "room" /\ pending' = pending + Size(saving[1]) /\ q' = q \o saving /\ rpc' = "ready"
      /\ saving' = <<>> /\ dir' = dir /\ index' = index /\ disk' = disk /\ hand' = hand
      /\ wpc' = wpc /\ req' = req /\ cur' = cur /\ restored' = restored
    BY DEF Enqueue, writer
<1>2. PICK s \in GoodSegs : saving = <<s>>
    BY <1>1 DEF Typed
<1>3. q \in Seq(GoodSegs) /\ hand \in Seq(GoodSegs) /\ dir /\ <<s>> \in Seq(GoodSegs)
    BY <1>1, <1>2 DEF Typed
<1>4. q' = q \o <<s>> /\ pending' = pending + Size(s) /\ q' \in Seq(GoodSegs)
    <2>1. q \o <<s>> \in Seq(GoodSegs)
        BY <1>3, ConcatProperties
    <2>2. saving[1] = s
        BY <1>2
    <2> QED BY <1>1, <1>2, <2>1, <2>2
<1>5. Typed'
    <2>1. <<>> \in Seq(GoodSegs)
        BY EmptySeq
    <2> QED BY <1>1, <1>3, <1>4, <2>1 DEF Typed
<1>6. IndexRight'
    BY <1>1 DEF IndexRight, FilesIndexed
<1>7. PendingRight'
    <2>1. /\ TotalSize(q \o hand) = TotalSize(q) + TotalSize(hand)
          /\ TotalSize(q \o <<s>>) = TotalSize(q) + Size(s)
        <3>1. TotalSize(q \o <<s>>) = TotalSize(q) + TotalSize(<<s>>)
            BY <1>3, TotalConcat
        <3> QED BY <1>3, <3>1, TotalConcat, TotalOne
    <2>2. PICK r : r = q \o <<s>> /\ r \in Seq(GoodSegs)
        BY <1>4
    <2>3. TotalSize(r \o hand) = TotalSize(r) + TotalSize(hand)
        BY <1>3, <2>2, TotalConcat
    <2>4. PICK a \in Nat, b \in Nat, z \in Nat : a = TotalSize(q) /\ b = TotalSize(hand) /\ z = Size(s)
        BY <1>3, TotalType, SegFacts
    <2>5. TotalSize(r \o hand) = (a + z) + b /\ pending = a + b
        BY <2>1, <2>2, <2>3, <2>4 DEF PendingRight
    <2>6. (a + z) + b = (a + b) + z
        OBVIOUS
    <2>7. q' = r /\ hand' = hand
        BY <1>1, <1>4, <2>2
    <2> QED BY <1>4, <2>4, <2>5, <2>6, <2>7 DEF PendingRight
<1>8. Waiting' = Waiting
    BY EnqueueMoves
<1>9. WaitingNew' /\ WaitingShort'
    BY <1>1, <1>8 DEF WaitingNew, WaitingShort
<1>10. CurRight' /\ Restored'
    BY <1>1 DEF CurRight, Restored
<1> QED BY <1>5, <1>6, <1>7, <1>9, <1>10

\* The segment the writer takes, and what it leaves queued.
LEMMA QueueSplit ==
    ASSUME KInv, wpc = "get", q # <<>>
    PROVE  /\ q \in Seq(GoodSegs) /\ hand = <<>> /\ dir
           /\ \E s \in GoodSegs, r \in Seq(GoodSegs) : s = Head(q) /\ r = Tail(q) /\ q = <<s>> \o r
<1> USE DEF KInv
<1>1. q \in Seq(GoodSegs) /\ hand = <<>> /\ dir
    BY DEF Typed
<1>2. PICK s \in GoodSegs, r \in Seq(GoodSegs) : s = Head(q) /\ r = Tail(q)
    BY <1>1, HeadTailProperties
<1>3. q = <<s>> \o r
    <2>1. /\ Len(q) \in Nat \ {0} /\ Len(r) = Len(q) - 1 /\ s = q[1]
          /\ \A i \in 1 .. Len(r) : r[i] = q[i + 1]
        <3>1. Len(q) \in Nat \ {0}
            BY <1>1, EmptySeq
        <3>2. Len(Tail(q)) = Len(q) - 1 /\ \A i \in 1 .. Len(Tail(q)) : Tail(q)[i] = q[i + 1]
            BY <1>1, HeadTailProperties
        <3>3. Head(q) = q[1]
            OBVIOUS
        <3> QED BY <1>2, <3>1, <3>2, <3>3
    <2> DEFINE d == <<s>> \o r
    <2>2. /\ d \in Seq(GoodSegs) /\ Len(d) = 1 + Len(r)
          /\ \A i \in 1 .. 1 + Len(r) : d[i] = IF i <= 1 THEN <<s>>[i] ELSE r[i - 1]
        <3>1. <<s>> \in Seq(GoodSegs) /\ Len(<<s>>) = 1
            OBVIOUS
        <3> QED BY <3>1, ConcatProperties
    <2> HIDE DEF d
    <2>3. Len(d) = Len(q)
        BY <2>1, <2>2
    <2>4. ASSUME NEW i \in 1 .. Len(d) PROVE d[i] = q[i]
        <3>1. CASE i = 1
            <4>1. 1 \in 1 .. 1 + Len(r) /\ <<s>>[1] = s
                BY <2>1
            <4> QED BY <2>1, <2>2, <3>1, <4>1
        <3>2. CASE i # 1
            <4>1. i \in 1 .. 1 + Len(r) /\ ~(i <= 1) /\ i - 1 \in 1 .. Len(r) /\ (i - 1) + 1 = i
                BY <2>1, <2>3, <3>2
            <4> QED BY <2>1, <2>2, <4>1
        <3> QED BY <3>1, <3>2
    <2>5. d = q
        BY <1>1, <2>2, <2>3, <2>4, SeqEqual
    <2> QED BY <2>5 DEF d
<1> QED BY <1>1, <1>2, <1>3

\* The writer takes the segment at the head of the queue: its bytes are still
\* pending.
LEMMA TakenFacts ==
    ASSUME KInv, wpc = "get", q # <<>>, hand' = <<Head(q)>>, q' = Tail(q)
    PROVE  \E s \in GoodSegs, r \in Seq(GoodSegs) :
              /\ q = <<s>> \o r /\ Head(q) = s /\ hand' = <<s>> /\ q' = r /\ dir
              /\ TotalSize(r \o <<s>>) = TotalSize(q \o hand)
<1>1. q \in Seq(GoodSegs) /\ hand = <<>> /\ dir
    BY QueueSplit
<1>2. PICK s \in GoodSegs, r \in Seq(GoodSegs) : s = Head(q) /\ r = Tail(q) /\ q = <<s>> \o r
    BY QueueSplit
<1>3. q = <<s>> \o r
    BY <1>2
<1>4. TotalSize(r \o <<s>>) = TotalSize(q \o hand)
    <2>1. <<s>> \in Seq(GoodSegs)
        OBVIOUS
    <2>2. TotalSize(r \o <<s>>) = TotalSize(r) + Size(s) /\ TotalSize(<<s>> \o r) = Size(s) + TotalSize(r)
        BY <2>1, TotalConcat, TotalOne
    <2>3. TotalSize(r) \in Nat /\ Size(s) \in Nat
        BY TotalType, SegFacts
    <2>4. q \o hand = q
        BY <1>1, ConcatEmptySeq
    <2>5. PICK a \in Nat, b \in Nat : a = TotalSize(r) /\ b = Size(s)
        BY <2>3
    <2>6. a + b = b + a
        OBVIOUS
    <2>7. TotalSize(q \o hand) = b + a
        BY <1>3, <2>2, <2>4, <2>5
    <2> QED BY <2>2, <2>5, <2>6, <2>7
<1> QED BY <1>1, <1>2, <1>3, <1>4

LEMMA InvWriterPlace ==
    ASSUME KInv, WriterPlace PROVE KInv'
<1> USE DEF KInv
<1>1. /\ wpc = "get" /\ q # <<>> /\ hand' = <<Head(q)>> /\ q' = Tail(q) /\ wpc' = "placed"
      /\ disk' = Renewed(disk, Head(q)) /\ dir' = dir /\ index' = index /\ pending' = pending
      /\ rpc' = rpc /\ req' = req /\ saving' = saving /\ cur' = cur /\ restored' = restored
    BY DEF WriterPlace, server
<1>2. PICK s \in GoodSegs, r \in Seq(GoodSegs) :
         /\ q = <<s>> \o r /\ Head(q) = s /\ hand' = <<s>> /\ q' = r /\ dir
         /\ TotalSize(r \o <<s>>) = TotalSize(q \o hand)
    BY <1>1, TakenFacts
<1>3. <<s>> \in Seq(GoodSegs) /\ saving \in Seq(GoodSegs)
    BY DEF Typed
<1>4. Typed'
    BY <1>1, <1>2, <1>3 DEF Typed
<1>5. PendingRight'
    BY <1>1, <1>2 DEF PendingRight
<1>6. Waiting' = Waiting
    BY <1>1, <1>2 DEF Waiting
<1>7. s.k \notin Keys(index.segs)
    <2>1. Waiting = <<s>> \o (r \o saving) /\ r \o saving \in Seq(GoodSegs)
        <3>1. Waiting = (<<s>> \o r) \o saving
            BY <1>1, <1>2 DEF Waiting
        <3> QED BY <1>3, <3>1, ConcatAssociative, ConcatProperties
    <2>2. PICK w \in Seq(GoodSegs) : w = r \o saving
        BY <2>1
    <2>3. Keys(<<s>> \o w) = Keys(w) \cup {s.k}
        BY <2>1, <2>2, WaitingFewer DEF WaitingNew
    <2> QED BY <2>1, <2>2, <2>3 DEF WaitingNew
<1>8. IndexRight'
    <2>1. disk = index.segs /\ Dict(disk)
        <3>1. disk = index.segs \o <<>> /\ Dict(index.segs) /\ Dict(disk)
            BY <1>1, <1>2, GoodFacts DEF IndexRight, FilesIndexed
        <3> QED BY <3>1, ConcatEmptySeq DEF Dict
    <2>2. disk' = Append(disk, s)
        <3>1. Less(disk, {s.k}) = disk
            <4>1. Keys(disk) \cap {s.k} = {}
                BY <1>7, <2>1
            <4> QED BY <2>1, <4>1, LessLess
        <3> QED BY <1>1, <1>2, <3>1 DEF Renewed
    <2>3. PICK e : e = Append(disk, s)
        OBVIOUS
    <2>4. Dict(e) /\ e = index.segs \o <<s>>
        <3>1. Dict(Append(disk, s))
            BY <1>7, <2>1, DictAppend
        <3>2. Append(disk, s) = disk \o <<s>>
            BY <2>1, AppendIsConcat DEF Dict
        <3> QED BY <2>1, <2>3, <3>1, <3>2
    <2> QED BY <1>1, <1>2, <2>2, <2>3, <2>4 DEF IndexRight, FilesIndexed
<1>9. WaitingNew' /\ WaitingShort'
    BY <1>1, <1>6 DEF WaitingNew, WaitingShort
<1>10. CurRight' /\ Restored'
    BY <1>1 DEF CurRight, Restored
<1> QED BY <1>4, <1>5, <1>8, <1>9, <1>10

\* What failed is not waited for any more.
LEMMA InvWriterFails ==
    ASSUME KInv, WriterFails PROVE KInv'
<1> USE DEF KInv
<1>1. /\ wpc = "get" /\ q # <<>> /\ hand' = <<Head(q)>> /\ q' = Tail(q) /\ wpc' = "done"
      /\ disk' = disk /\ dir' = dir /\ index' = index /\ pending' = pending
      /\ rpc' = rpc /\ req' = req /\ saving' = saving /\ cur' = cur /\ restored' = restored
    BY DEF WriterFails, server
<1>2. PICK s \in GoodSegs, r \in Seq(GoodSegs) :
         /\ q = <<s>> \o r /\ Head(q) = s /\ hand' = <<s>> /\ q' = r /\ dir
         /\ TotalSize(r \o <<s>>) = TotalSize(q \o hand)
    BY <1>1, TakenFacts
<1>3. <<s>> \in Seq(GoodSegs) /\ saving \in Seq(GoodSegs)
    BY DEF Typed
<1>4. Typed'
    BY <1>1, <1>2, <1>3 DEF Typed
<1>5. PendingRight'
    BY <1>1, <1>2 DEF PendingRight
<1>6. IndexRight'
    BY <1>1 DEF IndexRight, FilesIndexed
<1>7. /\ Dict(Waiting') /\ Range(Waiting') \subseteq Range(Waiting)
      /\ Keys(Waiting') \subseteq Keys(Waiting)
    <2>1. Waiting = <<s>> \o (r \o saving) /\ r \o saving \in Seq(GoodSegs)
        <3>1. Waiting = (<<s>> \o r) \o saving
            BY <1>1, <1>2 DEF Waiting
        <3> QED BY <1>3, <3>1, ConcatAssociative, ConcatProperties
    <2>2. PICK w \in Seq(GoodSegs) : w = r \o saving
        BY <2>1
    <2>3. /\ Dict(w) /\ Range(w) \subseteq Range(<<s>> \o w)
          /\ Keys(<<s>> \o w) = Keys(w) \cup {s.k}
        BY <2>1, <2>2, WaitingFewer DEF WaitingNew
    <2>4. Waiting' = w
        BY <1>1, <1>2, <2>2 DEF Waiting
    <2> QED BY <2>1, <2>2, <2>3, <2>4
<1>8. WaitingNew' /\ WaitingShort'
    BY <1>1, <1>7 DEF WaitingNew, WaitingShort
<1>9. CurRight' /\ Restored'
    BY <1>1 DEF CurRight, Restored
<1> QED BY <1>4, <1>5, <1>6, <1>8, <1>9

\* What waits when the writer indexes the first of it, and where that goes.
Adding(s, w) ==
    /\ hand = <<s>> /\ Waiting = <<s>> \o w /\ Waiting' = w
    /\ Dict(w) /\ Range(w) \subseteq Range(Waiting) /\ s \in Range(Waiting)
    /\ s.k \notin Keys(w) /\ s.k \notin Keys(index.segs) /\ Keys(w) \cap Keys(index.segs) = {}

LEMMA AddTakes ==
    ASSUME KInv, WriterAdd
    PROVE  \E s \in GoodSegs, w \in Seq(GoodSegs) : Adding(s, w)
<1>1. wpc = "placed" /\ wpc' = "done" /\ q' = q /\ hand' = hand /\ saving' = saving
    BY DEF WriterAdd, server
<1>2. PICK s \in GoodSegs : hand = <<s>>
    BY <1>1 DEF KInv, Typed
<1>3. q \in Seq(GoodSegs) /\ saving \in Seq(GoodSegs) /\ <<s>> \in Seq(GoodSegs)
    BY <1>2 DEF KInv, Typed
<1>4. PICK w \in Seq(GoodSegs) : w = q \o saving
    BY <1>3, ConcatProperties
<1>5. Waiting = <<s>> \o w
    <2>1. Waiting = (<<s>> \o q) \o saving
        BY <1>1, <1>2 DEF Waiting
    <2> QED BY <1>3, <1>4, <2>1, ConcatAssociative
<1>6. Waiting' = w
    BY <1>1, <1>4 DEF Waiting
<1>7. Dict(Waiting) /\ Keys(Waiting) \cap Keys(index.segs) = {}
    BY DEF KInv, WaitingNew
<1>8. /\ Dict(w) /\ Range(w) \subseteq Range(Waiting) /\ s.k \notin Keys(w)
      /\ Keys(Waiting) = Keys(w) \cup {s.k}
    BY <1>5, <1>7, WaitingFewer
<1>9. s \in Range(Waiting)
    <2>1. <<s>> \in Seq(GoodSegs) /\ Len(<<s>>) = 1 /\ <<s>>[1] = s /\ Len(w) \in Nat
        BY <1>3, LenProperties
    <2>2. Waiting \in Seq(GoodSegs) /\ Len(Waiting) = 1 + Len(w) /\ Waiting[1] = s
        BY <1>5, <2>1, ConcatProperties
    <2>3. 1 \in DOMAIN Waiting
        BY <2>1, <2>2, LenProperties
    <2> QED BY <2>2, <2>3 DEF Range
<1>10. Adding(s, w)
    BY <1>2, <1>5, <1>6, <1>7, <1>8, <1>9 DEF Adding
<1> QED BY <1>10

\* Add and evict: the files of what eviction dropped go with it.
LEMMA InvWriterAdd ==
    ASSUME KInv, WriterAdd PROVE KInv' /\ (index.bytes)' <= MaxBytes
<1> USE DEF KInv
<1>1. /\ wpc = "placed" /\ index' = Evict(Add(index, hand[1])) /\ wpc' = "done"
      /\ disk' = Less(disk, Keys(disk) \ Keys(index'.segs)) /\ dir' = dir /\ q' = q /\ hand' = hand
      /\ pending' = pending /\ rpc' = rpc /\ req' = req /\ saving' = saving /\ cur' = cur
      /\ restored' = restored
    BY DEF WriterAdd, server
<1>2. PICK s \in GoodSegs, w \in Seq(GoodSegs) : Adding(s, w)
    BY AddTakes
<1>3. q \in Seq(GoodSegs) /\ saving \in Seq(GoodSegs) /\ dir /\ <<s>> \in Seq(GoodSegs)
    BY <1>1, <1>2 DEF Typed, Adding
<1>4. /\ hand = <<s>> /\ Waiting' = w /\ Dict(w) /\ Range(w) \subseteq Range(Waiting)
      /\ s.k \notin Keys(w)
    BY <1>2 DEF Adding
<1>5. s.k \notin Keys(index.segs) /\ Keys(w) \cap Keys(index.segs) = {}
    BY <1>2 DEF Adding
<1>6. PICK ix : ix = index
    OBVIOUS
<1>7. GoodIndex(ix) /\ Dict(ix.segs) /\ s.k \notin Keys(ix.segs) /\ disk = ix.segs \o <<s>>
    BY <1>1, <1>3, <1>4, <1>5, <1>6, GoodFacts DEF IndexRight, FilesIndexed
<1>8. PICK a : a = Add(ix, s)
    OBVIOUS
<1>9. /\ GoodIndex(a) /\ a.segs = disk /\ Keys(a.segs) = Keys(ix.segs) \cup {s.k}
    <2>1. GoodIndex(a) /\ a.segs = Append(ix.segs, s)
        BY <1>7, <1>8, AddGood
    <2>2. Append(ix.segs, s) = ix.segs \o <<s>>
        BY <1>7, AppendIsConcat DEF Dict
    <2>3. Keys(Append(ix.segs, s)) = Keys(ix.segs) \cup {s.k}
        BY <1>7, DictAppend
    <2> QED BY <1>7, <2>1, <2>2, <2>3
<1>10. PICK e : e = Evict(a)
    OBVIOUS
<1>11. GoodIndex(e) /\ Cut(a.segs, e.segs) /\ e.bytes <= MaxBytes
    BY <1>9, <1>10, EvictGood
<1>12. index' = e
    <2>1. hand[1] = s
        BY <1>4
    <2> QED BY <1>1, <1>6, <1>8, <1>10, <2>1
<1>13. disk' = e.segs /\ Dict(e.segs) /\ Keys(e.segs) \subseteq Keys(ix.segs) \cup {s.k}
    <2>1. disk' = Less(disk, Keys(disk) \ Keys(e.segs))
        BY <1>1, <1>12
    <2> QED BY <1>9, <1>11, <2>1 DEF Cut
<1>14. Typed'
    BY <1>1, <1>3, <1>4 DEF Typed
<1>15. IndexRight'
    <2>1. e.segs \o <<>> = e.segs
        BY <1>13, ConcatEmptySeq DEF Dict
    <2> QED BY <1>1, <1>11, <1>12, <1>13, <2>1 DEF IndexRight, FilesIndexed
<1>16. PendingRight'
    BY <1>1 DEF PendingRight
<1>17. WaitingNew'
    <2>1. (index.segs)' = e.segs
        BY <1>12
    <2>2. Keys(w) \cap Keys(e.segs) = {}
        BY <1>4, <1>5, <1>6, <1>13
    <2> QED BY <1>4, <2>1, <2>2 DEF WaitingNew
<1>18. WaitingShort'
    BY <1>1, <1>4 DEF WaitingShort
<1>19. CurRight' /\ Restored'
    BY <1>1 DEF CurRight, Restored
<1> QED BY <1>11, <1>12, <1>14, <1>15, <1>16, <1>17, <1>18, <1>19

LEMMA InvWriterDone ==
    ASSUME KInv, WriterDone PROVE KInv'
<1> USE DEF KInv
<1>1. /\ wpc = "done" /\ pending' = pending - Size(hand[1]) /\ hand' = <<>> /\ wpc' = "get"
      /\ dir' = dir /\ index' = index /\ disk' = disk /\ q' = q /\ rpc' = rpc /\ req' = req
      /\ saving' = saving /\ cur' = cur /\ restored' = restored
    BY DEF WriterDone, server
<1>2. PICK s \in GoodSegs : hand = <<s>>
    BY <1>1 DEF Typed
<1>3. q \in Seq(GoodSegs) /\ <<>> \in Seq(GoodSegs) /\ dir /\ <<s>> \in Seq(GoodSegs)
    BY <1>1, <1>2, EmptySeq DEF Typed
<1>4. Typed'
    BY <1>1, <1>3 DEF Typed
<1>5. IndexRight'
    BY <1>1 DEF IndexRight, FilesIndexed
<1>6. PendingRight'
    <2>1. TotalSize(q \o <<s>>) = TotalSize(q) + Size(s)
        BY <1>3, TotalConcat, TotalOne
    <2>2. TotalSize(q) \in Nat /\ Size(s) \in Nat
        BY <1>3, TotalType, SegFacts
    <2>3. q \o <<>> = q /\ hand[1] = s
        BY <1>2, <1>3, ConcatEmptySeq
    <2>4. pending' = TotalSize(q)
        BY <1>1, <1>2, <2>1, <2>2, <2>3 DEF PendingRight
    <2> QED BY <1>1, <2>3, <2>4 DEF PendingRight
<1>7. Waiting' = Waiting
    BY <1>1 DEF Waiting
<1>8. WaitingNew' /\ WaitingShort'
    BY <1>1, <1>7 DEF WaitingNew, WaitingShort
<1>9. CurRight' /\ Restored'
    BY <1>1 DEF CurRight, Restored
<1> QED BY <1>4, <1>5, <1>6, <1>8, <1>9

\* Only files survive a crash.
LEMMA InvCrash ==
    ASSUME KInv, Crash PROVE KInv' /\ (index.bytes)' = 0
<1> USE DEF KInv
<1>1. /\ dir' = FALSE /\ index' = EmptyIndex /\ q' = <<>> /\ hand' = <<>> /\ wpc' = "get"
      /\ pending' = 0 /\ rpc' = "ready" /\ req' = <<>> /\ saving' = <<>> /\ cur' = NoCur
      /\ restored' = <<>>
    BY DEF Crash
<1>2. /\ GoodIndex(EmptyIndex) /\ Dict(<<>>) /\ Keys(<<>>) = {} /\ <<>> \in Seq(GoodSegs)
      /\ <<>> \o <<>> = <<>> /\ TotalSize(<<>>) = 0
    <2>1. <<>> \in Seq(GoodSegs)
        BY EmptySeq
    <2> QED BY <2>1, EmptyGood, DictEmpty, ConcatEmptySeq, TotalType
<1>3. Dict(disk')
    <2>1. Dict(disk)
        BY DEF IndexRight
    <2>2. disk' = disk \/ \E k \in Keys(disk) : disk' = Less(disk, {k})
        BY DEF Crash
    <2>3. CASE \E k \in Keys(disk) : disk' = Less(disk, {k})
        <3>1. PICK k \in Keys(disk) : disk' = Less(disk, {k})
            BY <2>3
        <3>2. Dict(Less(disk, {k}))
            BY <2>1, LessFacts
        <3> QED BY <3>1, <3>2
    <2> QED BY <2>1, <2>2, <2>3
<1>4. Typed'
    BY <1>1, <1>2 DEF Typed
<1>5. IndexRight'
    BY <1>1, <1>2, <1>3 DEF IndexRight, FilesIndexed
<1>6. PendingRight'
    BY <1>1, <1>2 DEF PendingRight
<1>7. Waiting' = <<>>
    BY <1>1, <1>2 DEF Waiting
<1>8. WaitingNew' /\ WaitingShort'
    BY <1>1, <1>2, <1>7 DEF WaitingNew, WaitingShort
<1>9. CurRight' /\ Restored'
    BY <1>1 DEF CurRight, Restored
<1>10. (index.bytes)' = 0
    BY <1>1 DEF EmptyIndex
<1> QED BY <1>4, <1>5, <1>6, <1>8, <1>9, <1>10

LEMMA InvStutter ==
    ASSUME KInv, UNCHANGED vars PROVE KInv'
BY DEF vars, KInv, Typed, IndexRight, FilesIndexed, PendingRight, Waiting, WaitingNew, WaitingShort,
       CurRight, Restored

\* Where a temporary file may be: beside no file of the same segment.
TmpRight == tmp \subseteq TokenSeqs /\ TmpUnstored

\* What the writer is about to write is not stored.
LEMMA HeadUnstored ==
    ASSUME KInv, wpc = "get", q # <<>>
    PROVE  Head(q) \in GoodSegs /\ Head(q).k \in TokenSeqs /\ Head(q).k \notin Keys(disk)
<1> USE DEF KInv
<1>1. q \in Seq(GoodSegs) /\ saving \in Seq(GoodSegs) /\ dir
    BY DEF Typed
<1>2. PICK s \in GoodSegs, r \in Seq(GoodSegs) : s = Head(q) /\ q = <<s>> \o r
    BY QueueSplit
<1>3. s.k \notin Keys(index.segs)
    <2>1. Waiting = <<s>> \o (r \o saving) /\ r \o saving \in Seq(GoodSegs)
        <3>1. Waiting = (<<s>> \o r) \o saving /\ <<s>> \in Seq(GoodSegs)
            BY <1>2 DEF Waiting
        <3> QED BY <1>1, <3>1, ConcatAssociative, ConcatProperties
    <2>2. PICK w \in Seq(GoodSegs) : w = r \o saving
        BY <2>1
    <2>3. Keys(<<s>> \o w) = Keys(w) \cup {s.k}
        BY <2>1, <2>2, WaitingFewer DEF WaitingNew
    <2> QED BY <2>1, <2>2, <2>3 DEF WaitingNew
<1>4. disk = index.segs
    <2>1. disk = index.segs \o <<>> /\ Dict(index.segs)
        BY <1>1, GoodFacts DEF IndexRight, FilesIndexed
    <2> QED BY <2>1, ConcatEmptySeq DEF Dict
<1> QED BY <1>2, <1>3, <1>4, SegFacts

\* Only a write that fails or is cut short leaves a temporary file, of what is
\* not stored; and what is stored next is what was moved into place.
LEMMA TmpKept ==
    ASSUME KInv, TmpRight, [Next]_vars PROVE TmpRight'
<1>1. Dict(disk) /\ tmp \subseteq TokenSeqs /\ tmp \cap Keys(disk) = {}
    BY DEF KInv, IndexRight, TmpRight, TmpUnstored
<1>2. CASE UNCHANGED <<disk, tmp>>
    BY <1>1, <1>2 DEF TmpRight, TmpUnstored
<1>3. ASSUME NEW t \in TokenSeqs, Fetch(t) PROVE TmpRight'
    <2>1. CASE tmp' = {}
        BY <2>1 DEF TmpRight, TmpUnstored
    <2> QED BY <1>2, <1>3, <2>1 DEF Fetch
<1>4. CASE SaveProgress \/ SaveRaises \/ Insert \/ Enqueue \/ WriterDone \/ UNCHANGED vars
    BY <1>2, <1>4 DEF SaveProgress, SaveRaises, Insert, Enqueue, WriterDone, vars
<1>5. CASE FetchReturn
    <2>1. tmp' = tmp /\ rpc = "flush" /\ pending = 0
        BY <1>5 DEF FetchReturn
    <2>2. disk = index.segs
        BY <2>1, Flushed
    <2>3. disk' = (index.segs)' /\ Keys((index.segs)') = Keys(index.segs)
        BY <1>5, Returned DEF RestoredTo
    <2> QED BY <1>1, <2>1, <2>2, <2>3 DEF TmpRight, TmpUnstored
<1>6. CASE WriterPlace
    <2>1. /\ wpc = "get" /\ q # <<>> /\ tmp' = tmp \ {Head(q).k}
          /\ disk' = Append(Less(disk, {Head(q).k}), Head(q))
        BY <1>6 DEF WriterPlace, Renewed
    <2>2. PICK s \in GoodSegs : s = Head(q)
        BY <2>1, HeadUnstored
    <2>3. PICK d : d = Less(disk, {s.k})
        OBVIOUS
    <2>4. Dict(d) /\ Keys(d) = Keys(disk) \ {s.k}
        BY <1>1, <2>3, LessFacts
    <2>5. Keys(Append(d, s)) = Keys(d) \cup {s.k}
        BY <2>4, DictAppend
    <2> QED BY <1>1, <2>1, <2>2, <2>3, <2>4, <2>5 DEF TmpRight, TmpUnstored
<1>7. CASE WriterFails
    <2>1. wpc = "get" /\ q # <<>> /\ disk' = disk /\ LeavesTmp(Head(q).k)
        BY <1>7 DEF WriterFails
    <2>2. Head(q).k \in TokenSeqs /\ Head(q).k \notin Keys(disk)
        BY <2>1, HeadUnstored
    <2> QED BY <1>1, <2>1, <2>2 DEF TmpRight, TmpUnstored, LeavesTmp
<1>8. CASE WriterAdd
    <2>1. tmp' = tmp /\ disk' = Less(disk, Keys(disk) \ Keys(index'.segs))
        BY <1>8 DEF WriterAdd
    <2>2. PICK gone : gone = Keys(disk) \ Keys(index'.segs)
        OBVIOUS
    <2>3. Keys(Less(disk, gone)) = Keys(disk) \ gone
        BY <1>1, LessFacts
    <2>4. disk' = Less(disk, gone)
        BY <2>1, <2>2
    <2>5. Keys(disk)' \subseteq Keys(disk)
        BY <2>3, <2>4
    <2> QED BY <1>1, <2>1, <2>5 DEF TmpRight, TmpUnstored
<1>9. CASE Crash
    <2>1. Keys(disk)' \subseteq Keys(disk)
        <3>1. disk' = disk \/ \E k \in Keys(disk) : disk' = Less(disk, {k})
            BY <1>9 DEF Crash
        <3>2. \A k : Keys(Less(disk, {k})) = Keys(disk) \ {k}
            <4> SUFFICES ASSUME NEW k PROVE Keys(Less(disk, {k})) = Keys(disk) \ {k}
                OBVIOUS
            <4> QED BY <1>1, LessFacts
        <3>3. CASE disk' = disk
            BY <3>3
        <3>4. CASE \E k \in Keys(disk) : disk' = Less(disk, {k})
            BY <3>2, <3>4
        <3> QED BY <3>1, <3>3, <3>4
    <2>2. CASE wpc = "get" /\ q # <<>> /\ LeavesTmp(Head(q).k)
        <3>1. Head(q).k \in TokenSeqs /\ Head(q).k \notin Keys(disk)
            BY <2>2, HeadUnstored
        <3> QED BY <1>1, <2>1, <2>2, <3>1 DEF TmpRight, TmpUnstored, LeavesTmp
    <2>3. CASE tmp' = tmp
        BY <1>1, <2>1, <2>3 DEF TmpRight, TmpUnstored
    <2> QED BY <1>9, <2>2, <2>3 DEF Crash
<1> QED BY <1>3, <1>4, <1>5, <1>6, <1>7, <1>8, <1>9 DEF Next, Server, Writer

-----------------------------------------------------------------------------
(* Where reads, writes and saves succeed and every sequence fits the cap.  *)

\* The segments of w each extend the one before, the first an entry of B, or
\* start a sequence.
Hangs(w, B) ==
    \A i \in 1 .. Len(w) : w[i].v.prev \in {Root} \cup (IF i = 1 THEN B ELSE {w[i - 1].k})

\* What may extend w: its last segment, or an entry of B when w is empty.
EndOf(w, B) == IF w = <<>> THEN {Root} \cup B ELSE {w[Len(w)].k}

\* No chain stored covers more of the request than its last cut.
Fresher == cur # NoCur => \A n \in cur.cut + 1 .. Len(req) - 1 : ~Stored(Take(req, n))

\* What is stored, what a restart finds, what waits and what the request will
\* save next form chains: eviction never drops the segment they hang on.
CInv ==
    /\ Rooted(index.segs) /\ (~dir => Rooted(disk))
    /\ Hangs(Waiting, Keys(index.segs))
    /\ cur # NoCur => cur.prev \in EndOf(Waiting, Keys(index.segs))
    /\ Fresher

LEMMA HangsMore ==
    ASSUME NEW X, NEW w \in Seq(X), NEW s \in X, NEW B, Hangs(w, B),
           s.v.prev \in EndOf(w, B) \cup {Root}
    PROVE  Hangs(w \o <<s>>, B) /\ s.k \in EndOf(w \o <<s>>, B)
<1>1. PICK u : u = w \o <<s>>
    OBVIOUS
<1>2. u = Append(w, s) /\ Len(w) \in Nat
    BY <1>1, AppendIsConcat, LenProperties
<1>3. Len(u) = Len(w) + 1 /\ u[Len(w) + 1] = s /\ \A i \in 1 .. Len(w) : u[i] = w[i]
    BY <1>2, AppendProperties
<1>4. ASSUME NEW i \in 1 .. Len(u)
      PROVE  u[i].v.prev \in {Root} \cup (IF i = 1 THEN B ELSE {u[i - 1].k})
    <2>1. CASE i \in 1 .. Len(w)
        <3>1. w[i].v.prev \in {Root} \cup (IF i = 1 THEN B ELSE {w[i - 1].k})
            BY <2>1 DEF Hangs
        <3>2. u[i] = w[i] /\ (i # 1 => u[i - 1] = w[i - 1])
            BY <1>2, <1>3, <2>1
        <3> QED BY <3>1, <3>2
    <2>2. CASE i \notin 1 .. Len(w)
        <3>1. i = Len(w) + 1 /\ u[i] = s
            BY <1>2, <1>3, <2>2
        <3>2. CASE w = <<>>
            BY <3>1, <3>2 DEF EndOf
        <3>3. CASE w # <<>>
            <4>1. Len(w) # 0 /\ i - 1 = Len(w) /\ i # 1
                BY <1>2, <3>1, <3>3, EmptySeq
            <4>2. u[i - 1] = w[Len(w)]
                BY <1>2, <1>3, <4>1
            <4> QED BY <3>1, <3>3, <4>1, <4>2 DEF EndOf
        <3> QED BY <3>2, <3>3
    <2> QED BY <2>1, <2>2
<1>5. u # <<>> /\ u[Len(u)].k = s.k
    BY <1>2, <1>3
<1> QED BY <1>1, <1>4, <1>5 DEF Hangs, EndOf

LEMMA HangsFewer ==
    ASSUME NEW X, NEW w \in Seq(X), NEW s \in X, NEW B, Hangs(<<s>> \o w, B), NEW C, s.k \in C
    PROVE  /\ s.v.prev \in {Root} \cup B /\ Hangs(w, C)
           /\ EndOf(<<s>> \o w, B) \subseteq EndOf(w, C)
<1>1. PICK u : u = <<s>> \o w
    OBVIOUS
<1>2. <<s>> \in Seq(X) /\ Len(<<s>>) = 1 /\ <<s>>[1] = s /\ Len(w) \in Nat
    BY LenProperties
<1>3. /\ Len(u) = 1 + Len(w)
      /\ \A i \in 1 .. 1 + Len(w) : u[i] = IF i <= 1 THEN <<s>>[i] ELSE w[i - 1]
    BY <1>1, <1>2, ConcatProperties
<1>4. u[1] = s /\ 1 \in 1 .. Len(u)
    BY <1>2, <1>3
<1>5. \A i \in 1 .. Len(w) : u[i + 1] = w[i] /\ i + 1 \in 1 .. Len(u) /\ i + 1 # 1
    <2> SUFFICES ASSUME NEW i \in 1 .. Len(w)
                 PROVE  u[i + 1] = w[i] /\ i + 1 \in 1 .. Len(u) /\ i + 1 # 1
        OBVIOUS
    <2>1. i + 1 \in 1 .. 1 + Len(w) /\ ~(i + 1 <= 1) /\ (i + 1) - 1 = i
        BY <1>2
    <2> QED BY <1>3, <2>1
<1>6. \A i \in 1 .. Len(u) : u[i].v.prev \in {Root} \cup (IF i = 1 THEN B ELSE {u[i - 1].k})
    BY <1>1 DEF Hangs
<1>7. s.v.prev \in {Root} \cup B
    BY <1>4, <1>6
<1>8. ASSUME NEW i \in 1 .. Len(w)
      PROVE  w[i].v.prev \in {Root} \cup (IF i = 1 THEN C ELSE {w[i - 1].k})
    <2>1. u[i + 1].v.prev \in {Root} \cup {u[i].k} /\ u[i + 1] = w[i]
        <3>1. (i + 1) - 1 = i
            BY <1>2
        <3> QED BY <1>5, <1>6, <3>1
    <2>2. CASE i = 1
        BY <1>4, <2>1, <2>2
    <2>3. CASE i # 1
        <3>1. i - 1 \in 1 .. Len(w) /\ (i - 1) + 1 = i
            BY <1>2, <2>3
        <3>2. u[i] = w[i - 1]
            BY <1>5, <3>1
        <3> QED BY <2>1, <2>3, <3>2
    <2> QED BY <2>2, <2>3
<1>9. EndOf(u, B) \subseteq EndOf(w, C)
    <2>1. u # <<>>
        BY <1>2, <1>3
    <2>2. CASE w = <<>>
        <3>1. u[Len(u)] = s
            BY <1>3, <1>4, <2>2
        <3> QED BY <2>1, <2>2, <3>1 DEF EndOf
    <2>3. CASE w # <<>>
        <3>1. Len(w) # 0
            BY <2>3, EmptySeq
        <3>2. Len(w) \in 1 .. Len(w) /\ Len(w) + 1 = Len(u)
            BY <1>2, <1>3, <3>1
        <3>3. u[Len(u)] = w[Len(w)]
            BY <1>5, <3>2
        <3> QED BY <2>1, <2>3, <3>3 DEF EndOf
    <2> QED BY <2>2, <2>3
<1> QED BY <1>1, <1>7, <1>8, <1>9 DEF Hangs

\* Nothing hangs on the empty sequence's segments.
LEMMA HangsNone ==
    ASSUME NEW B PROVE Hangs(<<>>, B) /\ EndOf(<<>>, B) = {Root} \cup B
BY EmptySeq DEF Hangs, EndOf

\* A segment added to the dictionary it hangs on.
LEMMA RootedAppend ==
    ASSUME NEW d, Dict(d), Rooted(d), NEW s \in GoodSegs, s.k \notin Keys(d),
           s.v.prev \in {Root} \cup Keys(d)
    PROVE  Rooted(Append(d, s)) /\ s \in Tips(Range(Append(d, s)))
<1>1. /\ Range(Append(d, s)) = Range(d) \cup {s} /\ Keys(Append(d, s)) = Keys(d) \cup {s.k}
    BY DictAppend
<1>2. Rooted(Append(d, s))
    BY <1>1 DEF Rooted
<1>3. \A y \in Range(d) \cup {s} : y.v.prev # s.k
    BY RootNoKey DEF Rooted
<1> QED BY <1>1, <1>2, <1>3 DEF Tips

LEMMA CalmInit == Init => CInv
<1> SUFFICES ASSUME Init PROVE CInv
    OBVIOUS
<1>1. index.segs = <<>> /\ disk = <<>> /\ cur = NoCur
    BY DEF Init, EmptyIndex
<1>2. Rooted(<<>>)
    BY DictEmpty DEF Rooted
<1>3. Waiting = <<>>
    <2>1. <<>> \o <<>> = <<>>
        BY EmptySeq, ConcatEmptySeq
    <2> QED BY <2>1 DEF Init, Waiting
<1> QED BY <1>1, <1>2, <1>3, HangsNone DEF CInv, Fresher

\* Every file of a rooted directory is kept at its opening.
LEMMA CalmFetch ==
    ASSUME KInv, CInv, NEW t \in TokenSeqs, Fetch(t) PROVE CInv'
<1>1. /\ dir' = TRUE /\ cur' = NoCur /\ q' = q /\ hand' = hand /\ wpc' = wpc /\ saving' = saving
    BY DEF Fetch, writer
<1>2. Waiting' = Waiting
    BY <1>1 DEF Waiting
<1>3. CASE dir /\ UNCHANGED <<index, disk, tmp>>
    BY <1>1, <1>2, <1>3 DEF CInv, Fresher
<1>4. CASE ~dir /\ index' = Opened(disk) /\ disk' = Whole(disk) /\ tmp' = {}
    <2>1. Dict(disk) /\ Rooted(disk) /\ disk \in Seq(GoodSegs)
        BY <1>4 DEF KInv, IndexRight, CInv, Dict
    <2>2. Whole(disk) = disk
        <3> DEFINE S == {s \in Range(disk) : Walk(disk, s.k) # <<>>}
        <3>1. \A s \in Range(disk) : s.k \in Keys(disk)
            BY <2>1, DictFacts
        <3>2. Range(disk) \subseteq S
            BY <2>1, <3>1, WalkWhole
        <3>3. Whole(disk) = Only(disk, S)
            BY DEF Whole
        <3> HIDE DEF S
        <3> QED BY <2>1, <3>2, <3>3, OnlyAll
    <2>3. Opened(disk).segs = disk
        BY <2>1, <2>2, OpenedGood
    <2>4. (index.segs)' = disk
        BY <1>4, <2>3
    <2>5. Waiting = <<>>
        <3>1. q = <<>> /\ wpc = "get" /\ saving = <<>> /\ <<>> \o <<>> = <<>>
            BY <1>4, EmptySeq, ConcatEmptySeq DEF KInv, Typed
        <3> QED BY <3>1 DEF Waiting
    <2> QED BY <1>1, <1>2, <2>1, <2>4, <2>5, HangsNone DEF CInv, Fresher
<1> QED BY <1>3, <1>4 DEF Fetch

\* No chain stored is longer than the one chosen.
LEMMA BestLongest ==
    ASSUME GoodIndex(index), Rooted(index.segs), NEW t \in TokenSeqs,
           NEW n \in 0 .. Len(t) - 1, BestAt(t, n), NEW m \in n + 1 .. Len(t) - 1
    PROVE  ~Stored(Take(t, m))
<1> SUFFICES ASSUME Stored(Take(t, m)) PROVE FALSE
    OBVIOUS
<1>1. t \in Seq(Tokens) /\ Len(t) \in 1 .. MaxLen /\ MaxLen \in Nat /\ Dict(index.segs)
    BY TokenSeqFacts, GoodFacts, BoundsAssumption
<1> DEFINE S == WholeEnds(t) \cup {0}
<1>2. S \in SUBSET (0 .. Len(t) - 1) /\ S # {} /\ Len(t) - 1 \in Nat
    BY <1>1 DEF WholeEnds
<1>3. m \in S
    <2>1. Walk(index.segs, Take(t, m)) # <<>>
        BY <1>1, WalkWhole DEF Stored
    <2>2. m \in 1 .. Len(t) - 1
        BY <1>1
    <2> QED BY <2>1, <2>2 DEF WholeEnds
<1>4. PICK x : x = Max(S)
    OBVIOUS
<1> HIDE DEF S
<1>5. x \in 0 .. Len(t) - 1 /\ m <= x
    BY <1>2, <1>3, <1>4, MaxFacts
<1>6. Len(Take(t, x)) = x
    <2>1. x \in 0 .. Len(t)
        BY <1>1, <1>5
    <2> QED BY <1>1, <2>1, TakeFacts
<1>7. Take(t, x) = Best(t) /\ Len(Best(t)) = n
    BY <1>4 DEF Best, BestAt, S
<1> QED BY <1>1, <1>5, <1>6, <1>7

\* The request's cut is at the end of a stored chain, the longest there is.
LEMMA CalmFetchReturn ==
    ASSUME ~Faults, KInv, CInv, FetchReturn PROVE CInv'
<1>1. /\ rpc = "flush" /\ pending = 0 /\ dir' = dir /\ q' = q /\ hand' = hand
      /\ wpc' = wpc /\ req' = req /\ saving' = saving
    BY DEF FetchReturn, writer
<1>2. Waiting = <<>> /\ Waiting' = <<>>
    BY <1>1, Flushed DEF Waiting
<1>3. req \in TokenSeqs /\ dir /\ GoodIndex(index)
    BY <1>1 DEF KInv, Typed, IndexRight
<1>4. PICK n \in 0 .. Len(req) - 1 : RestoredTo(req, n) /\ BestAt(req, n)
    BY Returned
<1>5. /\ Keys((index.segs)') = Keys(index.segs) /\ Range((index.segs)') = Range(index.segs)
      /\ cur' = [cut |-> n, prev |-> Take(req, n)]
    BY <1>4 DEF RestoredTo
<1>6. Rooted((index.segs)')
    BY <1>5 DEF CInv, Rooted
<1>7. (cur.prev)' \in {Root} \cup Keys(index.segs)
    <2>1. (cur.prev)' = Best(req)
        BY <1>4, <1>5 DEF BestAt
    <2>2. CASE n = 0
        BY <1>4, <2>1, <2>2 DEF BestAt
    <2>3. CASE n # 0
        <3>1. PICK c : ChainOf(c, Range(index.segs), Best(req))
            BY <1>4, <2>3 DEF BestAt
        <3>2. c \in Seq(Range(index.segs)) /\ Len(c) \in Nat \ {0} /\ c[Len(c)].k = Best(req)
            BY <3>1 DEF ChainOf, Linked
        <3>3. c[Len(c)] \in Range(index.segs)
            <4>1. Len(c) \in 1 .. Len(c)
                BY <3>2
            <4> QED BY <3>2, <4>1, ElementOfSeq
        <3>4. Keys(index.segs) = {x.k : x \in Range(index.segs)}
            BY <1>3, GoodFacts, DictFacts
        <3> QED BY <2>1, <3>2, <3>3, <3>4
    <2> QED BY <2>2, <2>3
<1>8. Fresher'
    <2>1. \A m \in n + 1 .. Len(req) - 1 : ~Stored(Take(req, m))
        BY <1>3, <1>4, BestLongest DEF CInv
    <2>2. \A k : Stored(k)' <=> Stored(k)
        BY <1>5 DEF Stored
    <2>3. (cur.cut)' = n
        BY <1>5
    <2> QED BY <1>1, <2>1, <2>2, <2>3 DEF Fresher
<1> QED BY <1>1, <1>2, <1>3, <1>5, <1>6, <1>7, <1>8, HangsNone DEF CInv

\* Progress is saved right behind what the request last cut.
LEMMA CalmSaveProgress ==
    ASSUME KInv, CInv, SaveProgress PROVE CInv'
<1>1. PICK n \in Progress : Save(req, n, cur.cut, cur.prev) /\ cur' = [cut |-> n, prev |-> Take(req, n)]
    BY DEF SaveProgress
<1>2. /\ rpc = "ready" /\ req # <<>> /\ cur # NoCur /\ req' = req
      /\ UNCHANGED <<dir, index, disk, tmp, q, writer, pending>>
    BY DEF SaveProgress
<1>3. cur.cut \in 0 .. n - 1 /\ n \in 1 .. Len(req) - 1 /\ Len(req) \in Nat
    <2>1. Len(req) \in 1 .. MaxLen
        BY <1>2, ProgressFacts
    <2> QED BY <1>2, <2>1, ProgressFacts, BoundsAssumption
<1>4. ~Stored(Take(req, n))
    <2>1. n \in cur.cut + 1 .. Len(req) - 1
        BY <1>3
    <2> QED BY <1>2, <2>1 DEF CInv, Fresher
<1>5. PICK s : s = Seg(Take(req, n), cur.prev, cur.cut)
    OBVIOUS
<1>6. saving' = <<s>> /\ s.k = Take(req, n) /\ s.v.prev = cur.prev
    BY <1>1, <1>4, <1>5 DEF Save, Seg
<1>7. PICK w, B : w = Waiting /\ B = Keys(index.segs)
    OBVIOUS
<1>8. Waiting' = w \o <<s>>
    BY <1>2, <1>6, <1>7, SavedWaits
<1>9. Hangs(w \o <<s>>, B) /\ s.k \in EndOf(w \o <<s>>, B)
    <2> DEFINE X == GoodSegs \cup {s}
    <2>1. w \in Seq(X) /\ s \in X
        <3>1. w \in Seq(GoodSegs)
            BY <1>7 DEF KInv, WaitingNew, Dict
        <3> QED BY <3>1
    <2>2. Hangs(w, B) /\ s.v.prev \in EndOf(w, B) \cup {Root}
        BY <1>2, <1>6, <1>7 DEF CInv
    <2> HIDE DEF X
    <2> QED BY <2>1, <2>2, HangsMore
<1>10. index' = index /\ disk' = disk /\ dir' = dir /\ (cur.prev)' = s.k /\ (cur.cut)' = n
    BY <1>1, <1>2, <1>6
<1>11. Fresher'
    <2>1. \A m \in n + 1 .. Len(req) - 1 : ~Stored(Take(req, m))
        <3> SUFFICES ASSUME NEW m \in n + 1 .. Len(req) - 1 PROVE ~Stored(Take(req, m))
            OBVIOUS
        <3>1. m \in cur.cut + 1 .. Len(req) - 1
            BY <1>3
        <3> QED BY <1>2, <3>1 DEF CInv, Fresher
    <2> QED BY <1>2, <1>10, <2>1 DEF Fresher, Stored
<1> QED BY <1>7, <1>8, <1>9, <1>10, <1>11 DEF CInv

LEMMA CalmInsert ==
    ASSUME KInv, CInv, Insert PROVE CInv'
<1>1. /\ rpc = "ready" /\ req # <<>> /\ cur' = NoCur
      /\ UNCHANGED <<dir, index, disk, tmp, q, writer, pending>>
    BY DEF Insert
<1>2. PICK t \in TokenSeqs :
         \/ cur # NoCur /\ Save(t, Len(t), cur.cut, cur.prev)
         \/ cur = NoCur /\ Save(t, Len(t), 0, Root)
    BY DEF Insert
<1>3. PICK w, B : w = Waiting /\ B = Keys(index.segs)
    OBVIOUS
<1>4. PICK c, prev : Save(t, Len(t), c, prev) /\ prev \in EndOf(w, B) \cup {Root}
    BY <1>2, <1>3 DEF CInv
<1>5. Hangs(Waiting', B)
    <2>1. CASE saving' = saving
        <3>1. Waiting' = Waiting
            BY <1>1, <2>1 DEF Waiting, writer
        <3> QED BY <1>3, <3>1 DEF CInv
    <2>2. CASE saving' # saving
        <3>1. PICK s : s = Seg(Take(t, Len(t)), prev, c)
            OBVIOUS
        <3>2. saving' = <<s>> /\ s.v.prev = prev
            BY <1>4, <2>2, <3>1 DEF Save, Seg
        <3>3. Waiting' = w \o <<s>>
            BY <1>1, <1>3, <3>2, SavedWaits
        <3> DEFINE X == GoodSegs \cup {s}
        <3>4. w \in Seq(X) /\ s \in X
            <4>1. w \in Seq(GoodSegs)
                BY <1>3 DEF KInv, WaitingNew, Dict
            <4> QED BY <4>1
        <3>5. Hangs(w, B) /\ s.v.prev \in EndOf(w, B) \cup {Root}
            BY <1>3, <1>4, <3>2 DEF CInv
        <3> HIDE DEF X
        <3> QED BY <3>3, <3>4, <3>5, HangsMore
    <2> QED BY <2>1, <2>2
<1> QED BY <1>1, <1>3, <1>5 DEF CInv, Fresher

\* While nothing but the place of what waits changes.
LEMMA CalmMoves ==
    ASSUME CInv, Waiting' = Waiting, UNCHANGED <<dir, index, cur, req>>, dir \/ disk' = disk
    PROVE  CInv'
BY DEF CInv, Fresher, Stored

LEMMA CalmWriterPlace ==
    ASSUME KInv, CInv, WriterPlace PROVE CInv'
<1>1. /\ wpc = "get" /\ q # <<>> /\ hand' = <<Head(q)>> /\ q' = Tail(q) /\ wpc' = "placed"
      /\ saving' = saving /\ UNCHANGED <<dir, index, cur, req>>
    BY DEF WriterPlace, server
<1>2. PICK s \in GoodSegs, r \in Seq(GoodSegs) : q = <<s>> \o r /\ hand' = <<s>> /\ q' = r /\ dir
    BY <1>1, TakenFacts
<1>3. Waiting' = Waiting
    BY <1>1, <1>2 DEF Waiting
<1> QED BY <1>1, <1>2, <1>3, CalmMoves

\* The segment added hangs on the index, and stays for the next to hang on.
LEMMA CalmWriterAdd ==
    ASSUME MaxLen <= MaxBytes, KInv, CInv, WriterAdd PROVE CInv'
<1>1. PICK s \in GoodSegs, w \in Seq(GoodSegs) : Adding(s, w)
    BY AddTakes
<1>2. PICK ix, a, e : ix = index /\ a = Add(ix, s) /\ e = Evict(a)
    OBVIOUS
<1>3. index' = e /\ UNCHANGED <<dir, req, cur>> /\ dir
    <2>1. hand[1] = s
        BY <1>1 DEF Adding
    <2>2. wpc = "placed" /\ index' = Evict(Add(index, hand[1])) /\ UNCHANGED <<dir, req, cur>>
        BY DEF WriterAdd, server
    <2> QED BY <1>2, <2>1, <2>2 DEF KInv, Typed
<1>4. GoodIndex(ix) /\ Dict(ix.segs) /\ ix.segs \in Seq(GoodSegs) /\ s.k \notin Keys(ix.segs)
    BY <1>1, <1>2, GoodFacts DEF KInv, IndexRight, Adding, Dict
<1>5. GoodIndex(a) /\ a.segs = Append(ix.segs, s) /\ Keys(a.segs) = Keys(ix.segs) \cup {s.k}
    <2>1. GoodIndex(a) /\ a.segs = Append(ix.segs, s)
        BY <1>2, <1>4, AddGood
    <2>2. Keys(Append(ix.segs, s)) = Keys(ix.segs) \cup {s.k}
        BY <1>4, DictAppend
    <2> QED BY <2>1, <2>2
<1>6. PICK B : B = Keys(ix.segs)
    OBVIOUS
<1>7. Waiting = <<s>> \o w /\ Waiting' = w /\ Hangs(<<s>> \o w, B)
    BY <1>1, <1>2, <1>6 DEF Adding, CInv
<1>8. Newest(a, s)
    <2>1. s.v.prev \in {Root} \cup B
        BY <1>7, HangsFewer
    <2>2. Rooted(ix.segs)
        BY <1>2 DEF CInv
    <2>3. Rooted(Append(ix.segs, s)) /\ s \in Tips(Range(Append(ix.segs, s)))
        BY <1>4, <1>6, <2>1, <2>2, RootedAppend
    <2> QED BY <1>4, <1>5, <2>3 DEF Newest
<1>9. Newest(e, s) /\ GoodIndex(e) /\ Keys(e.segs) \subseteq B \cup {s.k}
    <2>1. Len(s.k) <= MaxBytes
        <3>1. Len(s.k) \in 1 .. MaxLen
            BY SegFacts
        <3> QED BY <3>1, BoundsAssumption
    <2>2. Newest(e, s)
        BY <1>2, <1>5, <1>8, <2>1, EvictKeeps
    <2> QED BY <1>2, <1>5, <1>6, <2>2, EvictGood DEF Cut
<1>10. PICK C : C = Keys(e.segs)
    OBVIOUS
<1>11. s.k \in C /\ Rooted(e.segs)
    <2>1. s \in Range(e.segs)
        BY <1>9 DEF Newest, Tips
    <2>2. Dict(e.segs)
        BY <1>9, GoodFacts
    <2>3. s.k \in Keys(e.segs)
        BY <2>1, <2>2, DictFacts
    <2> QED BY <1>9, <1>10, <2>3 DEF Newest
<1>12. Hangs(w, C) /\ EndOf(<<s>> \o w, B) \subseteq EndOf(w, C)
    BY <1>7, <1>11, HangsFewer
<1>13. Fresher'
    <2> SUFFICES ASSUME cur # NoCur, NEW n \in cur.cut + 1 .. Len(req) - 1
                 PROVE  Take(req, n) \notin Keys(e.segs)
        BY <1>3 DEF Fresher, Stored
    <2>1. Take(req, n) \notin B
        BY <1>2, <1>6 DEF CInv, Fresher, Stored
    <2>2. /\ req # <<>> /\ rpc # "flush" /\ cur.cut \in 0 .. Len(req) - 1
        BY DEF KInv, CurRight
    <2>3. req \in Seq(Tokens) /\ Len(req) \in Nat
        <3>1. req \in TokenSeqs
            BY <2>2 DEF KInv, Typed
        <3> QED BY <3>1, TokenSeqFacts, BoundsAssumption
    <2>4. Len(s.k) <= cur.cut /\ Len(s.k) \in Nat
        <3>1. Len(s.k) \in 1 .. MaxLen
            BY SegFacts
        <3> QED BY <1>1, <2>2, <3>1, BoundsAssumption DEF Adding, KInv, WaitingShort
    <2>5. Len(Take(req, n)) = n
        <3>1. n \in 0 .. Len(req)
            BY <2>2, <2>3
        <3> QED BY <2>3, <3>1, TakeFacts
    <2>6. Take(req, n) # s.k
        BY <2>2, <2>3, <2>4, <2>5
    <2> QED BY <1>9, <2>1, <2>6
<1>14. cur # NoCur => cur.prev \in EndOf(w, C)
    BY <1>2, <1>6, <1>7, <1>12 DEF CInv
<1> QED BY <1>3, <1>7, <1>10, <1>11, <1>12, <1>13, <1>14 DEF CInv

\* The files a crash leaves are the index's, and perhaps one that hangs on it.
LEMMA CalmCrash ==
    ASSUME ~Faults, KInv, CInv, Crash PROVE CInv'
<1>1. /\ dir /\ disk' = disk /\ index' = EmptyIndex /\ cur' = NoCur /\ q' = <<>> /\ hand' = <<>>
      /\ wpc' = "get" /\ saving' = <<>>
    BY DEF Crash
<1>2. Waiting' = <<>>
    <2>1. <<>> \o <<>> = <<>>
        BY EmptySeq, ConcatEmptySeq
    <2> QED BY <1>1, <2>1 DEF Waiting
<1>3. Rooted(disk)
    <2>1. /\ Dict(index.segs) /\ index.segs \in Seq(GoodSegs) /\ Rooted(index.segs)
          /\ disk = index.segs \o (IF wpc = "placed" THEN hand ELSE <<>>)
        BY <1>1, GoodFacts DEF KInv, IndexRight, FilesIndexed, CInv, Dict
    <2>2. CASE wpc # "placed"
        BY <2>1, <2>2, ConcatEmptySeq
    <2>3. CASE wpc = "placed"
        <3>1. PICK s \in GoodSegs : hand = <<s>>
            BY <2>3 DEF KInv, Typed
        <3>2. q \in Seq(GoodSegs) /\ saving \in Seq(GoodSegs) /\ <<s>> \in Seq(GoodSegs)
            BY <3>1 DEF KInv, Typed
        <3>3. PICK w \in Seq(GoodSegs) : w = q \o saving
            BY <3>2, ConcatProperties
        <3>4. Waiting = <<s>> \o w
            <4>1. Waiting = (<<s>> \o q) \o saving
                BY <2>3, <3>1 DEF Waiting
            <4> QED BY <3>2, <3>3, <4>1, ConcatAssociative
        <3>5. s.v.prev \in {Root} \cup Keys(index.segs)
            <4>1. s.k \in {s.k} /\ Hangs(<<s>> \o w, Keys(index.segs))
                BY <3>4 DEF CInv
            <4> QED BY <4>1, HangsFewer
        <3>6. s.k \notin Keys(index.segs)
            <4>1. Dict(<<s>> \o w) /\ Keys(<<s>> \o w) \cap Keys(index.segs) = {}
                BY <3>4 DEF KInv, WaitingNew
            <4>2. s.k \in Keys(<<s>> \o w)
                BY <4>1, WaitingFewer
            <4> QED BY <4>1, <4>2
        <3>7. disk = Append(index.segs, s)
            BY <2>1, <2>3, <3>1, AppendIsConcat
        <3> QED BY <2>1, <3>5, <3>6, <3>7, RootedAppend
    <2> QED BY <2>2, <2>3
<1>4. Rooted(<<>>) /\ (index.segs)' = <<>>
    BY <1>1, DictEmpty DEF Rooted, EmptyIndex
<1> QED BY <1>1, <1>2, <1>3, <1>4, HangsNone DEF CInv, Fresher

-----------------------------------------------------------------------------
(* The theorems.                                                           *)

\* In every state the index, what waits and the request's cut points are as
\* the code means them to be: no segment is ever queued that is indexed or
\* queued already.
THEOREM AlwaysInOrder == Spec => []KInv
<1>1. Init => KInv
    BY InvInit
<1>2. KInv /\ [Next]_vars => KInv'
    <2> SUFFICES ASSUME KInv, [Next]_vars PROVE KInv'
        OBVIOUS
    <2>1. ASSUME NEW t \in TokenSeqs, Fetch(t) PROVE KInv'
        BY <2>1, InvFetch
    <2>2. CASE SaveProgress
        BY <2>2, InvSaveProgress
    <2>3. CASE SaveRaises
        BY <2>3, InvSaveRaises
    <2>4. CASE Insert
        BY <2>4, InvInsert
    <2>5. CASE FetchReturn
        BY <2>5, InvFetchReturn
    <2>6. CASE Enqueue
        BY <2>6, InvEnqueue
    <2>7. CASE WriterPlace
        BY <2>7, InvWriterPlace
    <2>8. CASE WriterFails
        BY <2>8, InvWriterFails
    <2>9. CASE WriterAdd
        BY <2>9, InvWriterAdd
    <2>10. CASE WriterDone
        BY <2>10, InvWriterDone
    <2>11. CASE Crash
        BY <2>11, InvCrash
    <2>12. CASE UNCHANGED vars
        BY <2>12, InvStutter
    <2> QED BY <2>1, <2>2, <2>3, <2>4, <2>5, <2>6, <2>7, <2>8, <2>9, <2>10, <2>11, <2>12
               DEF Next, Server, Writer
<1> QED BY <1>1, <1>2, PTL DEF Spec

\* A temporary file is never beside the file of the same segment.
LEMMA TmpAlwaysRight == Spec => []TmpRight
<1>1. Init => TmpRight
    BY DEF Init, TmpRight, TmpUnstored
<1>2. KInv /\ TmpRight /\ [Next]_vars => TmpRight'
    BY TmpKept
<1>3. Spec => []KInv
    BY AlwaysInOrder
<1> QED BY <1>1, <1>2, <1>3, PTL DEF Spec

\* The successor sets, the byte count and the pending bytes, each kept step by
\* step, always equal what they stand for (_add, _drop and _pending).
THEOREM BooksAlwaysKept == Spec => []BooksKept
<1>1. KInv /\ TmpRight => BooksKept
    <2> SUFFICES ASSUME KInv, TmpRight PROVE BooksKept
        OBVIOUS
    <2>1. /\ q \in Seq(GoodSegs) /\ hand \in Seq(GoodSegs) /\ saving \in Seq(GoodSegs)
          /\ Dict(disk) /\ GoodIndex(index)
        BY DEF KInv, Typed, IndexRight
    <2>2. index.nexts = Links(index.segs) /\ index.bytes = TotalSize(index.segs) /\ index.bytes \in Nat
          /\ Dict(index.segs)
        BY <2>1, GoodFacts
    <2>3. pending = TotalSize(q \o hand) /\ pending \in Nat
        <3>1. q \o hand \in Seq(GoodSegs)
            BY <2>1, ConcatProperties
        <3> QED BY <3>1, TotalType DEF KInv, PendingRight
    <2>4. ASSUME NEW s \in Range(index.segs) \cup Range(disk) \cup Range(q) \cup Range(hand)
                           \cup Range(saving)
          PROVE  s \in Segments /\ Size(s) > 0
        <3>1. s \in GoodSegs
            <4>1. Range(index.segs) \subseteq GoodSegs /\ Range(disk) \subseteq GoodSegs
                BY <2>1, <2>2, DictFacts
            <4>2. /\ Range(q) \subseteq GoodSegs /\ Range(hand) \subseteq GoodSegs
                  /\ Range(saving) \subseteq GoodSegs
                BY <2>1, RangeOfSeq
            <4> QED BY <4>1, <4>2
        <3>2. s \in Segments /\ Size(s) \in Nat \ {0}
            BY <3>1, SegFacts
        <3> QED BY <3>2
    <2>5. cur.cut \in -1 .. MaxLen
        <3>1. CASE cur = NoCur
            BY <3>1, BoundsAssumption DEF NoCur
        <3>2. CASE cur # NoCur
            <4>1. req \in TokenSeqs /\ cur.cut \in 0 .. Len(req) - 1
                BY <3>2 DEF KInv, CurRight, Typed
            <4>2. Len(req) \in 1 .. MaxLen
                BY <4>1, TokenSeqFacts
            <4> QED BY <4>1, <4>2, BoundsAssumption
        <3> QED BY <3>1, <3>2
    <2>6. TypeOK
        <3>1. /\ dir \in BOOLEAN /\ wpc \in {"get", "placed", "done"}
              /\ rpc \in {"ready", "flush", "room"}
            BY DEF KInv, Typed
        <3>2. tmp \subseteq TokenSeqs
            BY DEF TmpRight
        <3> QED BY <2>2, <2>3, <2>4, <2>5, <3>1, <3>2 DEF TypeOK
    <2> QED BY <2>2, <2>3, <2>6 DEF BooksKept, BooksAgree
<1>2. Spec => []KInv
    BY AlwaysInOrder
<1> QED BY <1>1, <1>2, TmpAlwaysRight, PTL

\* While the process is bound to its directory, its segment files are the
\* indexed segments and no other, but for one about to be indexed; and no
\* temporary file is that of a stored segment, though writes fail, are tried
\* again and are cut by crashes (_writer, _drop and _open).
THEOREM DiskAlwaysAgrees == Spec => []DiskAgrees
<1>1. KInv /\ TmpRight => DiskAgrees
    BY DEF KInv, IndexRight, TmpRight, DiskAgrees
<1>2. Spec => []KInv
    BY AlwaysInOrder
<1> QED BY <1>1, <1>2, TmpAlwaysRight, PTL

\* What a fetch returns to a request was computed from the request's own first
\* tokens, and leaves at least one to compute (_restore, _partial).
THEOREM RestoresAlwaysExact == Spec => []RestoreExact
<1>1. KInv => RestoreExact
    <2> SUFFICES ASSUME KInv, req # <<>> PROVE IsPrefix(restored, req) /\ Len(restored) < Len(req)
        BY DEF RestoreExact
    <2>1. req \in Seq(Tokens) /\ Len(req) \in 1 .. MaxLen /\ MaxLen \in Nat
        BY TokenSeqFacts, BoundsAssumption DEF KInv, Typed
    <2>2. PICK n \in 0 .. Len(req) - 1 : restored = Take(req, n)
        BY DEF KInv, Restored
    <2>3. n \in 0 .. Len(req) /\ n \in 0 .. n /\ n \in Nat
        BY <2>1
    <2>4. Len(restored) = n /\ Take(restored, n) = Take(req, n)
        BY <2>1, <2>2, <2>3, TakeFacts
    <2> QED BY <2>1, <2>2, <2>3, <2>4 DEF IsPrefix, Take
<1>2. Spec => []KInv
    BY AlwaysInOrder
<1> QED BY <1>1, <1>2, PTL

\* Stored bytes never grow past max_bytes: a step leaves the index at most as
\* large as it was or as the cap, though a restart may find more on disk.
THEOREM GrowthAlwaysBounded == Spec => GrowthBounded
<1>1. KInv /\ [Next]_vars => [dir => index'.bytes <= Max({index.bytes, MaxBytes})]_vars
    <2> SUFFICES ASSUME KInv, Next, dir PROVE index'.bytes <= Max({index.bytes, MaxBytes})
        BY DEF vars
    <2>1. PICK a \in Nat, b \in Nat : a = index.bytes /\ b = MaxBytes
        BY GoodFacts, BoundsAssumption DEF KInv, IndexRight
    <2>2. Max({a, b}) \in Nat /\ a <= Max({a, b}) /\ b <= Max({a, b})
        <3> DEFINE S == {a, b}
        <3>1. S \in SUBSET (0 .. a + b) /\ S # {} /\ a + b \in Nat
            OBVIOUS
        <3>2. \A y \in S : y <= Max(S)
            <4> HIDE DEF S
            <4> QED BY <3>1, MaxFacts
        <3>3. Max(S) \in S
            <4> HIDE DEF S
            <4> QED BY <3>1, MaxFacts
        <3> QED BY <3>2, <3>3
    <2>3. index'.bytes = a \/ index'.bytes <= b \/ index'.bytes = 0
        <3>1. CASE index' = index
            BY <2>1, <3>1
        <3>2. CASE FetchReturn
            BY <2>1, <3>2, InvFetchReturn
        <3>3. CASE WriterAdd
            BY <2>1, <3>3, InvWriterAdd
        <3>4. CASE Crash
            BY <3>4, InvCrash
        <3>5. index' = index \/ FetchReturn \/ WriterAdd \/ Crash
            BY DEF Next, Server, Writer, Fetch, SaveProgress, SaveRaises, Insert, Enqueue,
                   WriterPlace, WriterFails, WriterDone
        <3> QED BY <3>1, <3>2, <3>3, <3>4, <3>5
    <2>4. index'.bytes \in Nat
        <3>1. KInv'
            BY InvFetch, InvSaveProgress, InvSaveRaises, InvInsert, InvFetchReturn, InvEnqueue,
               InvWriterPlace, InvWriterFails, InvWriterAdd, InvWriterDone, InvCrash
               DEF Next, Server, Writer
        <3>2. GoodIndex(index')
            BY <3>1 DEF KInv, IndexRight
        <3> QED BY <3>2, GoodFacts
    <2>5. index'.bytes <= Max({a, b})
        BY <2>2, <2>3, <2>4
    <2> QED BY <2>1, <2>5
<1>2. Spec => []KInv
    BY AlwaysInOrder
<1>3. Spec => [][Next]_vars
    BY PTL DEF Spec
<1> QED BY <1>1, <1>2, <1>3, PTL DEF GrowthBounded

\* While I/O succeeds and every sequence fits the cap, no stored chain ever
\* loses its prefix, through evictions, crashes and restarts (_evict's
\* docstring: leaves only).
THEOREM ChainsAlwaysWhole ==
    ASSUME ~Faults, MaxLen <= MaxBytes
    PROVE  Spec => []ChainsWhole
<1>1. Init => KInv /\ CInv
    BY InvInit, CalmInit
<1>2. KInv /\ KInv' /\ CInv /\ [Next]_vars => CInv'
    <2> SUFFICES ASSUME KInv, CInv, [Next]_vars PROVE CInv'
        OBVIOUS
    <2>1. ASSUME NEW t \in TokenSeqs, Fetch(t) PROVE CInv'
        BY <2>1, CalmFetch
    <2>2. CASE SaveProgress
        BY <2>2, CalmSaveProgress
    <2>3. CASE Insert
        BY <2>3, CalmInsert
    <2>4. CASE FetchReturn
        BY <2>4, CalmFetchReturn
    <2>5. CASE Enqueue
        <3>1. Waiting' = Waiting /\ UNCHANGED <<dir, index, disk, cur, req>>
            BY <2>5, EnqueueMoves DEF Enqueue
        <3> QED BY <3>1, CalmMoves
    <2>6. CASE WriterPlace
        BY <2>6, CalmWriterPlace
    <2>7. CASE WriterAdd
        BY <2>7, CalmWriterAdd
    <2>8. CASE WriterDone
        <3>1. Waiting' = Waiting /\ UNCHANGED <<dir, index, disk, cur, req>>
            BY <2>8 DEF WriterDone, Waiting, server
        <3> QED BY <3>1, CalmMoves
    <2>9. CASE Crash
        BY <2>9, CalmCrash
    <2>10. CASE UNCHANGED vars
        <3>1. Waiting' = Waiting /\ UNCHANGED <<dir, index, disk, cur, req>>
            BY <2>10 DEF vars, Waiting
        <3> QED BY <3>1, CalmMoves
    <2>11. ~SaveRaises /\ ~WriterFails
        BY DEF SaveRaises, WriterFails
    <2> QED BY <2>1, <2>2, <2>3, <2>4, <2>5, <2>6, <2>7, <2>8, <2>9, <2>10, <2>11
               DEF Next, Server, Writer
<1>3. KInv /\ CInv => ChainsWhole
    <2> SUFFICES ASSUME KInv, CInv, NEW s \in Range(index.segs) PROVE Walk(index.segs, s.k) # <<>>
        BY DEF ChainsWhole
    <2>1. Dict(index.segs) /\ Rooted(index.segs)
        BY GoodFacts DEF KInv, IndexRight, CInv
    <2>2. s.k \in Keys(index.segs)
        BY <2>1, DictFacts
    <2> QED BY <2>1, <2>2, WalkWhole
<1>4. Spec => []KInv
    BY AlwaysInOrder
<1> QED BY <1>1, <1>2, <1>3, <1>4, PTL DEF Spec
=============================================================================
