------------------------- MODULE PipelineStepProofs -------------------------
(***************************************************************************)
(* The pipelined decoder's step keeps its rows in reach, its caches in     *)
(* step and its pools as plain decoding would: the properties of           *)
(* PipelineStep, for any number of layers, streams, experts and slots.     *)
(***************************************************************************)
EXTENDS PipelineStep, SeqFoldsProofs, FiniteSetTheorems

Orders == {o \in Seq(Experts) : IsInjective(o)}
Pools == {o \in Orders : Len(o) <= NSlots}

-----------------------------------------------------------------------------
(* The pool's operators.                                                   *)

\* They are LruOrder's, for the experts and slots of a layer.
LEMMA OrdersAre ==
    Orders = LruOrders(Experts) /\ Pools = LruPools(Experts, NSlots) /\ NSlots \in Nat \ {0}
BY PipelineAssumption DEF Orders, Pools, LruOrders, LruPools

LEMMA AllHitEmpty ==
    ASSUME NEW o
    PROVE  AllHit(o, <<>>) = o
BY LruHitsEmpty DEF AllHit

LEMMA AdoptedEmpty ==
    ASSUME NEW o
    PROVE  Adopted(o, <<>>) = o
BY OrdersAre, LruTakesEmpty DEF Adopted

LEMMA AllHitAppend ==
    ASSUME NEW o \in Orders, NEW es \in Seq(Experts), NEW e \in Experts
    PROVE  AllHit(o, es) \in Orders
BY OrdersAre, LruHitsAppend DEF AllHit

LEMMA AdoptedAppend ==
    ASSUME NEW o \in Pools, NEW es \in Seq(Experts), NEW e \in Experts
    PROVE  Adopted(o, es) \in Pools
BY OrdersAre, LruTakesAppend DEF Adopted

\* The experts hit come last, in the order of their last hits, and the others
\* keep their order before them.
LEMMA AllHitSplit ==
    ASSUME NEW o \in Orders, NEW es \in Seq(Experts)
    PROVE  /\ <<>> \in Orders /\ AllHit(<<>>, es) \in Orders
           /\ Range(AllHit(<<>>, es)) = Range(es)
           /\ IsInjective(es) => AllHit(<<>>, es) = es
           /\ AllHit(o, es) = Only(o, Experts \ Range(es)) \o AllHit(<<>>, es)
BY OrdersAre, LruHitsSplit DEF AllHit

\* Adopting experts one by one leaves the last NSlots of the pool's experts
\* and theirs, in the order of their last use.
LEMMA AdoptedLast ==
    ASSUME NEW o \in Pools, NEW es \in Seq(Experts)
    PROVE  Adopted(o, es) = LastOf(AllHit(o, es), NSlots)
BY OrdersAre, LruTakesLast DEF AllHit, Adopted

\* Hits on residents change a pool's order and nothing else.
LEMMA AllHitResident ==
    ASSUME NEW o \in Pools, NEW es \in Seq(Experts), Range(es) \subseteq Range(o)
    PROVE  AllHit(o, es) \in Pools /\ Range(AllHit(o, es)) = Range(o)
BY OrdersAre, LruHitsResident DEF AllHit

\* Hits on some experts, then on others: all of them come last.
LEMMA AllHitTwice ==
    ASSUME NEW o \in Orders, NEW a \in Seq(Experts), NEW b \in Seq(Experts),
           IsInjective(a), IsInjective(b), Range(a) \cap Range(b) = {}
    PROVE  AllHit(AllHit(o, a), b) = Only(o, Experts \ Range(a \o b)) \o (a \o b)
BY OrdersAre, LruHitsTwice DEF AllHit

\* The experts used in a step, one sequence.
LEMMA FlatType ==
    ASSUME NEW uses \in Seq(Routings), NEW U,
           \A j \in 1 .. Len(uses) : Range(uses[j]) \subseteq U
    PROVE  Flat(uses) \in Seq(Experts) /\ Range(Flat(uses)) \subseteq U
<1> DEFINE X == {r \in Routings : Range(r) \subseteq U}
           V == {s \in Seq(Experts) : Range(s) \subseteq U}
           step == [u \in Seq(Experts) |-> [s \in Seq(Experts) |-> s \o u]]
<1>1. \A r \in Routings : r \in Seq(Experts)
    <2>1. TopK \in Nat
        BY PipelineAssumption
    <2> QED BY <2>1, SeqDef DEF Routings
<1>2. uses \in Seq(X)
    <2>1. Len(uses) \in Nat /\ uses \in [1 .. Len(uses) -> Routings]
        BY LenProperties
    <2>2. uses \in [1 .. Len(uses) -> X]
        BY <2>1
    <2> HIDE DEF X
    <2> QED BY <2>1, <2>2, SeqDef
<1>3. <<>> \in V
    <2>1. Range(<<>>) = {} /\ <<>> \in Seq(Experts)
        BY EmptySeq DEF Range
    <2> QED BY <2>1
<1>4. Closed(step, X, V)
    <2> SUFFICES ASSUME NEW r \in X, NEW s \in V PROVE step[r][s] \in V
        BY DEF Closed
    <2>1. r \in Seq(Experts) /\ s \in Seq(Experts) /\ Range(r) \subseteq U /\ Range(s) \subseteq U
        BY <1>1
    <2>2. s \o r \in Seq(Experts) /\ Range(s \o r) = Range(s) \cup Range(r)
        BY <2>1, ConcatProperties, RangeConcatenation
    <2> QED BY <2>1, <2>2
<1>5. Fold(step, <<>>, uses) \in V
    <2> HIDE DEF step, X, V
    <2> QED BY <1>2, <1>3, <1>4, FoldType
<1> QED BY <1>5 DEF Flat

\* The experts kept of those used, the distinct ones that were used last.
LEMMA LastDistinctType ==
    ASSUME NEW f \in Seq(Experts)
    PROVE  LET keep == LastDistinct(f, NSlots)
           IN  /\ keep \in Seq(Experts) /\ IsInjective(keep) /\ Range(keep) \subseteq Range(f)
               /\ \E p \in Seq(Experts) : /\ AllHit(<<>>, f) = p \o keep
                                          /\ p = <<>> \/ Len(keep) = NSlots
<1> DEFINE keep == LastDistinct(f, NSlots)
           d == AllHit(<<>>, f)
<1>1. <<>> \in Orders /\ NSlots \in Nat
    BY PipelineAssumption, EmptySeq DEF Orders, IsInjective
<1>2. d \in Seq(Experts) /\ IsInjective(d) /\ Range(d) = Range(f)
    BY <1>1, AllHitSplit DEF Orders
<1>3. keep = LastOf(d, NSlots)
    BY DEF LastDistinct
<1> HIDE DEF keep, d
<1>4. PICK p \in Seq(Experts) : d = p \o keep /\ (p = <<>> \/ Len(keep) = NSlots)
    <2>1. \E p \in Seq(Experts) : /\ d = p \o LastOf(d, NSlots)
                                  /\ p = <<>> \/ Len(LastOf(d, NSlots)) = NSlots
        BY <1>1, <1>2, LastOfSplit
    <2> QED BY <1>3, <2>1
<1>5. keep \in Seq(Experts)
    BY <1>1, <1>2, <1>3, LastOfSplit
<1>6. IsInjective(keep) /\ Range(d) = Range(p) \cup Range(keep)
    BY <1>2, <1>4, <1>5, InjectiveConcat, RangeConcatenation
<1> QED BY <1>2, <1>4, <1>5, <1>6 DEF keep, d

\* A settled pool keeps within its slots.
LEMMA SettledType ==
    ASSUME NEW o \in Pools, NEW uses \in Seq(Routings), NEW got
    PROVE  Settled(o, uses, got) \in Pools
<1> DEFINE f == Flat(uses)
           keep == LastDistinct(f, NSlots)
           F == got \ Range(o)
           resident == Only(keep, Range(o))
           fresh == Only(keep, F)
<1>1. f \in Seq(Experts)
    <2>1. \A j \in 1 .. Len(uses) : Range(uses[j]) \subseteq Range(uses[j]) \cup UNION {Range(uses[i]) : i \in 1 .. Len(uses)}
        OBVIOUS
    <2>2. \A j \in 1 .. Len(uses) : Range(uses[j]) \subseteq UNION {Range(uses[i]) : i \in 1 .. Len(uses)}
        OBVIOUS
    <2> QED BY <2>2, FlatType
<1> HIDE DEF f
<1>2. keep \in Seq(Experts)
    BY <1>1, LastDistinctType
<1>3. Settled(o, uses, got) = Adopted(AllHit(o, resident), fresh)
    BY DEF Settled, f
<1> HIDE DEF keep, F
<1>4. /\ resident \in Seq(Experts) /\ Range(resident) \subseteq Range(o)
      /\ fresh \in Seq(Experts)
    BY <1>2, OnlyProperties
<1> HIDE DEF resident, fresh
<1>5. AllHit(o, resident) \in Pools
    BY <1>4, AllHitResident
<1>6. Adopted(AllHit(o, resident), fresh) \in Pools
    <2>1. CASE fresh = <<>>
        BY <1>5, <2>1, AdoptedEmpty
    <2>2. CASE fresh # <<>>
        <3>1. PICK e \in Experts : TRUE
            BY <1>4, <2>2, SequenceEmptyOrAppend
        <3> QED BY <1>4, <1>5, <3>1, AdoptedAppend
    <2> QED BY <2>1, <2>2
<1> QED BY <1>3, <1>6

\* A settled pool holds the experts that plain decoding would have left in it,
\* when every expert used was resident or has been read.
LEMMA SettledAsPlain ==
    ASSUME NEW o \in Pools, NEW uses \in Seq(Routings), NEW got,
           \A j \in 1 .. Len(uses) : Range(uses[j]) \subseteq Range(o) \cup got
    PROVE  Range(Settled(o, uses, got)) = Range(OneByOne(o, uses))
<1> DEFINE f == Flat(uses)
           keep == LastDistinct(f, NSlots)
           F == got \ Range(o)
           a == Only(keep, Range(o))
           b == Only(keep, F)
           c == a \o b
           d == AllHit(<<>>, f)
           ha == AllHit(o, a)
<1>1. /\ o \in Orders /\ o \in Seq(Experts) /\ IsInjective(o) /\ Len(o) <= NSlots
      /\ NSlots \in Nat /\ Range(o) \subseteq Experts
    BY PipelineAssumption, RangeOfSeq DEF Pools, Orders
<1>2. f \in Seq(Experts) /\ Range(f) \subseteq Range(o) \cup got
    BY FlatType
<1> HIDE DEF f
<1>3. /\ keep \in Seq(Experts) /\ IsInjective(keep) /\ Range(keep) \subseteq Range(f)
      /\ Len(keep) \in Nat
    BY <1>2, LastDistinctType, LenProperties
<1>4. PICK p \in Seq(Experts) : d = p \o keep /\ (p = <<>> \/ Len(keep) = NSlots)
    BY <1>2, LastDistinctType
<1>5. Settled(o, uses, got) = Adopted(ha, b)
    BY DEF Settled, f
<1>6. OneByOne(o, uses) = Adopted(o, f)
    BY DEF OneByOne, f
<1>7. keep = LastOf(d, NSlots)
    BY DEF LastDistinct
<1> HIDE DEF keep, d
\* The residents and the new ones among the experts kept are those kept.
<1>8. /\ a \in Seq(Experts) /\ IsInjective(a) /\ Range(a) = Range(keep) \cap Range(o)
      /\ b \in Seq(Experts) /\ IsInjective(b) /\ Range(b) = Range(keep) \ Range(o)
    <2>1. Range(keep) \cap F = Range(keep) \ Range(o)
        BY <1>2, <1>3
    <2> HIDE DEF F
    <2> QED BY <1>3, <2>1, OnlyProperties
<1> HIDE DEF F, a, b
<1>9. c \in Seq(Experts) /\ Range(c) = Range(keep)
    <2>1. c \in Seq(Experts)
        BY <1>8, ConcatProperties
    <2>2. Range(a \o b) = Range(a) \cup Range(b)
        BY <1>8, RangeConcatenation
    <2> QED BY <1>8, <2>1, <2>2
<1>10. ha \in Pools /\ ha \in Orders
    BY <1>8, AllHitResident DEF Pools
\* Settling goes through the same order, those kept last.
<1> DEFINE K == Experts \ Range(keep)
           x == Only(o, K)
<1>11. x \in Seq(Experts)
    <2> HIDE DEF K
    <2> QED BY <1>1, OnlyType
<1>12. AllHit(ha, b) = x \o c
    <2>1. /\ a \in Seq(Experts) /\ IsInjective(a) /\ b \in Seq(Experts) /\ IsInjective(b)
          /\ Range(a) \subseteq Range(o) /\ Range(a) \cap Range(b) = {}
        BY <1>8
    <2>2. AllHit(AllHit(o, a), b) = Only(o, Experts \ Range(a \o b)) \o (a \o b)
        BY <1>1, <2>1, AllHitTwice
    <2> QED BY <1>9, <2>2
<1>13. AllHit(ha, b) \in Orders /\ Len(c) = Len(keep)
    <2>1. AllHit(ha, b) \in Orders
        <3>1. CASE b = <<>>
            BY <1>10, <3>1, AllHitEmpty
        <3>2. CASE b # <<>>
            <4>1. PICK e \in Experts : TRUE
                BY <1>8, <3>2, SequenceEmptyOrAppend
            <4> QED BY <1>8, <1>10, <4>1, AllHitAppend
        <3> QED BY <3>1, <3>2
    <2> HIDE DEF c, x
    <2>2. IsInjective(c)
        BY <1>9, <1>11, <1>12, <2>1, InjectiveConcat DEF Orders
    <2>3. Cardinality(Range(c)) = Len(c) /\ Cardinality(Range(keep)) = Len(keep)
        BY <1>3, <1>9, <2>2, InjectiveLen
    <2> QED BY <1>9, <2>1, <2>3
<1>14. Settled(o, uses, got) = LastOf(x \o c, NSlots)
    BY <1>5, <1>8, <1>10, <1>12, AdoptedLast
\* Plain decoding goes through an order that ends in all that were used.
<1> DEFINE U == Experts \ Range(f)
           y == Only(o, U)
<1>15. y \in Seq(Experts)
    <2> HIDE DEF U
    <2> QED BY <1>1, OnlyType
<1>16. OneByOne(o, uses) = LastOf(y \o d, NSlots)
    <2>1. AllHit(o, f) = y \o d
        BY <1>1, <1>2, AllHitSplit DEF d
    <2> QED BY <1>2, <1>6, <2>1, AdoptedLast
<1>17. Len(keep) <= NSlots /\ Range(d) = Range(f)
    <2>1. d \in Seq(Experts) /\ Range(d) = Range(f)
        BY <1>1, <1>2, AllHitSplit DEF d, Orders
    <2> QED BY <1>1, <1>7, <2>1, LastOfSplit
<1> DEFINE n == NSlots - Len(keep)
           z == LastOf(x, n)
<1>18. n \in Nat /\ z \in Seq(Experts)
    <2>1. n \in Nat
        BY <1>1, <1>3, <1>17
    <2> HIDE DEF n, x
    <2> QED BY <1>11, <2>1, LastOfSplit
<1>19. LastOf(x \o c, NSlots) = z \o c
    <2> HIDE DEF x, c
    <2> QED BY <1>1, <1>9, <1>11, <1>13, <1>17, LastOfConcat
<1>20. Range(z \o c) = Range(z) \cup Range(keep)
    <2> HIDE DEF z, c
    <2> QED BY <1>9, <1>18, RangeConcatenation
<1>21. CASE p = <<>>
    <2>1. d = keep
        BY <1>3, <1>4, <1>21, ConcatEmptySeq
    <2>2. y = x
        BY <1>17, <2>1
    <2> HIDE DEF x, y, z
    <2>3. LastOf(x \o keep, NSlots) = LastOf(x, n) \o keep
        BY <1>1, <1>3, <1>11, <1>17, LastOfConcat
    <2>4. Range(z \o keep) = Range(z) \cup Range(keep)
        BY <1>3, <1>18, RangeConcatenation
    <2> QED BY <1>14, <1>16, <1>19, <1>20, <2>1, <2>2, <2>3, <2>4 DEF z
<1>22. CASE Len(keep) = NSlots
    <2>1. n = 0
        BY <1>1, <1>22
    <2>2. ASSUME NEW s \in Seq(Experts) PROVE LastOf(s, 0) = <<>>
        <3>1. LastOf(s, 0) \in Seq(Experts) /\ Len(LastOf(s, 0)) <= 0
            BY LastOfSplit
        <3>2. Len(LastOf(s, 0)) = 0
            BY <3>1, LenProperties
        <3> QED BY <3>1, <3>2, EmptySeq
    <2> HIDE DEF x, y, c
    <2>3. z = <<>>
        BY <1>11, <2>1, <2>2
    <2>4. z \o c = c
        BY <1>9, <2>3, ConcatEmptySeq
    <2>5. y \o d = (y \o p) \o keep /\ y \o p \in Seq(Experts)
        <3>1. y \o p \in Seq(Experts)
            BY <1>15, ConcatProperties
        <3>2. (y \o p) \o keep = y \o (p \o keep)
            BY <1>3, <1>15, ConcatAssociative, SMTT(40)
        <3> QED BY <1>4, <3>1, <3>2
    <2>6. LastOf((y \o p) \o keep, NSlots) = LastOf(y \o p, n) \o keep
        <3> DEFINE v == y \o p
        <3> HIDE DEF v
        <3>1. v \in Seq(Experts)
            BY <2>5 DEF v
        <3>2. LastOf(v \o keep, NSlots) = LastOf(v, n) \o keep
            BY <1>1, <1>3, <1>17, <3>1, LastOfConcat
        <3> QED BY <3>2 DEF v
    <2>7. LastOf(y \o p, n) \o keep = keep
        <3>1. LastOf(y \o p, n) = <<>>
            BY <2>1, <2>2, <2>5
        <3>2. <<>> \o keep = keep
            BY <1>3, ConcatEmptySeq
        <3> QED BY <3>1, <3>2
    <2> QED BY <1>9, <1>14, <1>16, <1>19, <2>4, <2>5, <2>6, <2>7
<1> QED BY <1>4, <1>21, <1>22

-----------------------------------------------------------------------------
(* The inductive invariant.                                                *)

StreamType == [uniq : Routings \cup {<<>>}, need : SUBSET Experts,
               missing : SUBSET Experts, fut : {"none", "reading", "done"}]

IType ==
    /\ k \in Streams
    /\ pc \in [op : {"begin", "finish"}, l : Layers, i : 1 .. k]
              \cup {Idle, Raised, To("commit", 0, 0)}
    /\ pool \in [Layers -> Pools]
    /\ used \in [Layers -> Seq(Routings)]
    /\ infl \in [Layers -> SUBSET Experts]
    /\ rows \in [Layers -> SUBSET Experts]
    /\ fin \in [Layers -> 0 .. k]
    /\ stream \in [Streams -> StreamType]
    /\ kv \in [Layers -> Seq(Nat)]
    /\ snaps \in [Layers -> Seq(Seq(Nat))]
    /\ accepted \in 0 .. k

\* How many streams have left layer m, and how many have entered it, by what
\* the host does next.
LeftAt(m) ==
    IF pc.op = "begin" THEN IF m < pc.l - 1 THEN k ELSE IF m = pc.l - 1 THEN pc.i ELSE 0
    ELSE IF pc.op = "finish" THEN IF m < pc.l THEN k ELSE IF m = pc.l THEN pc.i - 1 ELSE 0
    ELSE k
EnteredAt(m) ==
    IF pc.op = "begin" THEN IF m < pc.l THEN k ELSE IF m = pc.l THEN pc.i - 1 ELSE 0
    ELSE IF pc.op = "finish" THEN IF m <= pc.l THEN k ELSE IF m = pc.l + 1 THEN pc.i - 1 ELSE 0
    ELSE k

\* Stream j has entered layer m and not left it.
In(j, m) == LeftAt(m) < j /\ j <= EnteredAt(m)

\* What the streams in layer m are to read, up to the j-th.
Coming(m, j) == UNION {stream[n].missing : n \in {h \in 1 .. j : In(h, m)}}

UpTo(n) == [j \in 1 .. n |-> j]

\* The books and the caches follow the schedule.
Counted(m) ==
    /\ fin[m] = LeftAt(m)
    /\ Len(snaps[m]) = EnteredAt(m)
    /\ kv[m] = UpTo(EnteredAt(m))
    /\ \A j \in 1 .. EnteredAt(m) : snaps[m][j] = UpTo(j - 1)
    /\ LeftAt(m) < k => Len(used[m]) = EnteredAt(m)

\* What a stream is told is being read, its predecessors in the layer read.
Inflight(m) == infl[m] \subseteq Coming(m, k)

\* The experts used and not resident have been read, or will have been by the
\* time their stream is computed.
Reached(m) ==
    LeftAt(m) < k => \A j \in 1 .. EnteredAt(m) :
        Range(used[m][j]) \subseteq Range(pool[m]) \cup rows[m] \cup Coming(m, j)

\* What a stream in the layer found when it entered is still so.
Found(m) ==
    \A j \in 1 .. k : In(j, m) =>
        /\ stream[j].uniq = used[m][j]
        /\ stream[j].need = Range(used[m][j]) \ Range(pool[m])
        /\ stream[j].fut = "none" => stream[j].missing = {}

OnSchedule ==
    Running => \A m \in Layers : Counted(m) /\ Inflight(m) /\ Reached(m) /\ Found(m)

\* The snapshots outlive the step, for the host to take more back.
Agreed ==
    pc = Idle => \A m \in Layers :
        /\ kv[m] = UpTo(accepted)
        /\ accepted > 0 => \A j \in 1 .. k : snaps[m][j] = UpTo(j - 1)

IInv == IType /\ OnSchedule /\ Agreed

-----------------------------------------------------------------------------
(* The schedule's counts.                                                  *)

\* A sequence that counts, with one more.
LEMMA UpToAppend ==
    ASSUME NEW n \in Nat
    PROVE  /\ UpTo(n) \in Seq(Nat) /\ Len(UpTo(n)) = n
           /\ UpTo(0) = <<>> /\ Append(UpTo(n), n + 1) = UpTo(n + 1)
<1>1. UpTo(n) \in [1 .. n -> Nat] /\ UpTo(n + 1) \in [1 .. n + 1 -> Nat]
    BY DEF UpTo
<1>2. UpTo(n) \in Seq(Nat) /\ Len(UpTo(n)) = n /\ UpTo(n + 1) \in Seq(Nat) /\ Len(UpTo(n + 1)) = n + 1
    BY <1>1, SeqDef, LenProperties
<1>3. UpTo(0) = <<>>
    BY DEF UpTo
<1>4. Append(UpTo(n), n + 1) = UpTo(n + 1)
    <2> DEFINE a == Append(UpTo(n), n + 1)
    <2>1. /\ a \in Seq(Nat) /\ Len(a) = n + 1 /\ a[n + 1] = n + 1
          /\ \A i \in 1 .. n : a[i] = UpTo(n)[i]
        BY <1>2, AppendProperties
    <2> HIDE DEF a
    <2>2. \A i \in 1 .. n + 1 : a[i] = UpTo(n + 1)[i]
        BY <2>1 DEF UpTo
    <2>3. a = UpTo(n + 1)
        BY <1>2, <2>1, <2>2, SeqEqual
    <2> QED BY <2>3 DEF a
<1> QED BY <1>2, <1>3, <1>4

\* A step has a stream at least, and no more than there are.
LEMMA StepWidth ==
    ASSUME IType
    PROVE  k \in Nat \ {0} /\ k <= KMax /\ KMax \in Nat /\ 1 .. k \subseteq Streams
<1>1. k \in Streams
    BY DEF IType
<1>2. KMax \in Nat
    BY PipelineAssumption
<1> QED BY <1>1, <1>2 DEF Streams

\* The counts are numbers up to k.
LEMMA Counts ==
    ASSUME IType
    PROVE  /\ k \in Nat \ {0}
           /\ \A m \in Layers : LeftAt(m) \in 0 .. k /\ EnteredAt(m) \in 0 .. k
<1>1. k \in Nat \ {0}
    BY PipelineAssumption DEF IType, Streams
<1>2. CASE pc \in [op : {"begin", "finish"}, l : Layers, i : 1 .. k]
    BY <1>1, <1>2, PipelineAssumption DEF LeftAt, EnteredAt, Layers
<1>3. CASE pc \in {Idle, Raised, To("commit", 0, 0)}
    <2>1. pc.op # "begin" /\ pc.op # "finish"
        BY <1>3 DEF Idle, Raised, To
    <2> QED BY <1>1, <2>1 DEF LeftAt, EnteredAt
<1> QED BY <1>1, <1>2, <1>3 DEF IType

\* Entering a layer: the stream is in no layer before, and in that one after.
LEMMA BeginCounts ==
    ASSUME IType, At("begin"), k' = k, pc' = AfterBegin(pc.l, pc.i)
    PROVE  /\ pc.l \in Layers /\ pc.i \in 1 .. k /\ k \in Nat \ {0}
           /\ pc' \in [op : {"begin", "finish"}, l : Layers, i : 1 .. k]
           /\ LeftAt(pc.l) = 0 /\ EnteredAt(pc.l) = pc.i - 1
           /\ \A m \in Layers : /\ LeftAt(m)' = LeftAt(m)
                                /\ EnteredAt(m)' = IF m = pc.l THEN pc.i ELSE EnteredAt(m)
                                /\ ~In(pc.i, m)
<1>1. /\ pc \in [op : {"begin", "finish"}, l : Layers, i : 1 .. k] /\ pc.op = "begin"
      /\ k \in Nat \ {0} /\ Layers = 1 .. NLayers /\ NLayers \in Nat
    BY PipelineAssumption DEF IType, At, Idle, Raised, To, Layers, Streams
<1>2. CASE pc.i = k
    <2>1. pc' = [op |-> "finish", l |-> pc.l, i |-> 1]
        BY <1>2 DEF AfterBegin, To
    <2> QED BY <1>1, <1>2, <2>1 DEF LeftAt, EnteredAt, In
<1>3. CASE pc.i # k /\ pc.l > 1
    <2>1. pc' = [op |-> "finish", l |-> pc.l - 1, i |-> pc.i + 1]
        BY <1>3 DEF AfterBegin, To
    <2> QED BY <1>1, <1>3, <2>1 DEF LeftAt, EnteredAt, In
<1>4. CASE pc.i # k /\ ~(pc.l > 1)
    <2>1. pc' = [op |-> "begin", l |-> pc.l, i |-> pc.i + 1]
        BY <1>4 DEF AfterBegin, To
    <2> QED BY <1>1, <1>4, <2>1 DEF LeftAt, EnteredAt, In
<1> QED BY <1>2, <1>3, <1>4

\* Leaving a layer: the stream is in that layer before, and in none after.
LEMMA FinishCounts ==
    ASSUME IType, At("finish"), k' = k, pc' = AfterFinish(pc.l, pc.i)
    PROVE  /\ pc.l \in Layers /\ pc.i \in 1 .. k /\ k \in Nat \ {0}
           /\ pc' \in [op : {"begin", "finish"}, l : Layers, i : 1 .. k]
                      \cup {To("commit", 0, 0)}
           /\ LeftAt(pc.l) = pc.i - 1 /\ EnteredAt(pc.l) = k
           /\ \A m \in Layers : /\ LeftAt(m)' = IF m = pc.l THEN pc.i ELSE LeftAt(m)
                                /\ EnteredAt(m)' = EnteredAt(m)
                                /\ In(pc.i, m) <=> m = pc.l
<1>1. /\ pc \in [op : {"begin", "finish"}, l : Layers, i : 1 .. k] /\ pc.op = "finish"
      /\ k \in Nat \ {0} /\ Layers = 1 .. NLayers /\ NLayers \in Nat
    BY PipelineAssumption DEF IType, At, Idle, Raised, To, Layers, Streams
<1>2. CASE pc.l < NLayers
    <2>1. pc' = [op |-> "begin", l |-> pc.l + 1, i |-> pc.i]
        BY <1>2 DEF AfterFinish, To
    <2> QED BY <1>1, <1>2, <2>1 DEF LeftAt, EnteredAt, In
<1>3. CASE ~(pc.l < NLayers) /\ pc.i < k
    <2>1. pc' = [op |-> "finish", l |-> pc.l, i |-> pc.i + 1]
        BY <1>3 DEF AfterFinish, To
    <2> QED BY <1>1, <1>3, <2>1 DEF LeftAt, EnteredAt, In
<1>4. CASE ~(pc.l < NLayers) /\ ~(pc.i < k)
    <2>1. pc' = To("commit", 0, 0) /\ pc'.op = "commit"
        BY <1>4 DEF AfterFinish, To
    <2> QED BY <1>1, <1>4, <2>1 DEF LeftAt, EnteredAt, In
<1> QED BY <1>2, <1>3, <1>4

-----------------------------------------------------------------------------
(* The steps.                                                              *)

\* The empty sequences of Init and Start have their types.
LEMMA Empties ==
    /\ <<>> \in Pools /\ <<>> \in Seq(Routings) /\ <<>> \in Seq(Nat) /\ <<>> \in Seq(Seq(Nat))
    /\ NoStream \in StreamType /\ 1 \in Streams /\ Len(<<>>) = 0
<1>1. NSlots \in Nat /\ KMax \in Nat \ {0}
    BY PipelineAssumption
<1>2. <<>> \in Pools
    BY <1>1, EmptySeq DEF Pools, Orders, IsInjective
<1>3. NoStream \in StreamType
    BY DEF NoStream, StreamType
<1> QED BY <1>1, <1>2, <1>3, EmptySeq DEF Streams

LEMMA InitInv == Init => IInv
<1> SUFFICES ASSUME Init PROVE IInv
    OBVIOUS
<1>1. IType
    <2>1. fin \in [Layers -> 0 .. k] /\ k \in Streams /\ accepted \in 0 .. k
        BY Empties DEF Init, Streams
    <2> QED BY <2>1, Empties DEF Init, IType
<1>2. OnSchedule
    BY DEF Init, OnSchedule, Running, Idle, To
<1>3. Agreed
    BY Empties, UpToAppend DEF Init, Agreed
<1> QED BY <1>1, <1>2, <1>3 DEF IInv

LEMMA StartInv == IInv /\ Start => IInv'
<1> SUFFICES ASSUME IInv, Start PROVE IInv'
    OBVIOUS
<1>1. PICK n \in Streams : Clear(n)
    BY DEF Start
<1>2. /\ k' = n /\ pc' = [op |-> "begin", l |-> 1, i |-> 1]
      /\ used' = [l \in Layers |-> <<>>] /\ infl' = [l \in Layers |-> {}]
      /\ rows' = [l \in Layers |-> {}] /\ fin' = [l \in Layers |-> 0]
      /\ stream' = [i \in Streams |-> NoStream]
      /\ kv' = [l \in Layers |-> <<>>] /\ snaps' = [l \in Layers |-> <<>>]
      /\ pool' = pool /\ accepted' = 0
    BY <1>1 DEF Clear, Start, To
<1>3. n \in Nat \ {0} /\ Layers = 1 .. NLayers /\ NLayers \in Nat \ {0}
    BY PipelineAssumption DEF Streams, Layers
<1>4. IType'
    <2>1. /\ (k \in Streams)' /\ (pool \in [Layers -> Pools])'
          /\ (used \in [Layers -> Seq(Routings)])' /\ (infl \in [Layers -> SUBSET Experts])'
          /\ (rows \in [Layers -> SUBSET Experts])' /\ (fin \in [Layers -> 0 .. k])'
          /\ (stream \in [Streams -> StreamType])'
          /\ (kv \in [Layers -> Seq(Nat)])' /\ (snaps \in [Layers -> Seq(Seq(Nat))])'
          /\ (accepted \in 0 .. k)'
        BY <1>2, <1>3, Empties DEF IInv, IType
    <2>2. pc' \in [op : {"begin", "finish"}, l : Layers, i : 1 .. k']
        BY <1>2, <1>3
    <2> QED BY <2>1, <2>2 DEF IType
<1>5. \A m \in Layers : LeftAt(m)' = 0 /\ EnteredAt(m)' = 0
    BY <1>2, <1>3 DEF LeftAt, EnteredAt
<1>6. ASSUME NEW m \in Layers
      PROVE  (Counted(m) /\ Inflight(m) /\ Reached(m) /\ Found(m))'
    <2>1. Counted(m)'
        BY <1>2, <1>5, Empties, UpToAppend DEF Counted
    <2>2. Inflight(m)'
        BY <1>2 DEF Inflight
    <2>3. Reached(m)' /\ Found(m)'
        BY <1>5 DEF Reached, Found, In
    <2> QED BY <2>1, <2>2, <2>3
<1>7. OnSchedule'
    BY <1>6 DEF OnSchedule
<1>8. Agreed'
    BY <1>2 DEF Agreed, Idle, To
<1> QED BY <1>4, <1>7, <1>8 DEF IInv

LEMMA BeginInv == IInv /\ Begin => IInv'
<1> SUFFICES ASSUME IInv, Begin PROVE IInv'
    OBVIOUS
<1>0. At("begin") /\ IType /\ Running /\ pc' = AfterBegin(pc.l, pc.i) /\ k' = k
    BY DEF Begin, IInv, At, Running
<1> PICK l \in Layers, i \in 1 .. k : l = pc.l /\ i = pc.i
    BY <1>0, BeginCounts
<1>1. PICK uniq \in Routings, need \in SUBSET Experts, missing \in SUBSET Experts :
         /\ need = Range(uniq) \ Range(pool[l]) /\ missing = need \ infl[l]
         /\ stream' = [stream EXCEPT ![i] =
                [uniq |-> uniq, need |-> need, missing |-> missing,
                 fut |-> IF missing = {} THEN "none" ELSE "reading"]]
         /\ used' = [used EXCEPT ![l] = Append(@, uniq)]
         /\ infl' = [infl EXCEPT ![l] = @ \cup missing]
         /\ snaps' = [snaps EXCEPT ![l] = Append(@, kv[l])]
         /\ kv' = [kv EXCEPT ![l] = Append(@, i)]
    <2>1. \A u \in Routings : Range(u) \subseteq Experts
        BY DEF Routings, Range
    <2>2. PICK u \in Routings :
             /\ stream' = [stream EXCEPT ![i] =
                   [uniq |-> u, need |-> Range(u) \ Range(pool[l]),
                    missing |-> (Range(u) \ Range(pool[l])) \ infl[l],
                    fut |-> IF (Range(u) \ Range(pool[l])) \ infl[l] = {} THEN "none"
                            ELSE "reading"]]
             /\ used' = [used EXCEPT ![l] = Append(@, u)]
             /\ infl' = [infl EXCEPT ![l] = @ \cup ((Range(u) \ Range(pool[l])) \ infl[l])]
             /\ snaps' = [snaps EXCEPT ![l] = Append(@, kv[l])]
             /\ kv' = [kv EXCEPT ![l] = Append(@, i)]
        BY DEF Begin
    <2> DEFINE need == Range(u) \ Range(pool[l])
               missing == need \ infl[l]
    <2> need \in SUBSET Experts /\ missing \in SUBSET Experts
        BY <2>1
    <2> WITNESS u \in Routings, need \in SUBSET Experts, missing \in SUBSET Experts
    <2> QED BY <2>2
<1>2. /\ pc' = AfterBegin(l, i) /\ k' = k /\ pool' = pool /\ rows' = rows /\ fin' = fin
      /\ accepted' = accepted /\ At("begin") /\ IType /\ Running
    BY <1>0 DEF Begin
<1>3. /\ l \in Layers /\ i \in 1 .. k /\ k \in Nat \ {0} /\ i \in Streams
      /\ pc' \in [op : {"begin", "finish"}, l : Layers, i : 1 .. k]
      /\ LeftAt(l) = 0 /\ EnteredAt(l) = i - 1
      /\ \A m \in Layers : /\ LeftAt(m)' = LeftAt(m)
                           /\ EnteredAt(m)' = IF m = l THEN i ELSE EnteredAt(m)
                           /\ ~In(i, m)
    <2>1. i \in 1 .. k => i \in Streams
        BY <1>2, PipelineAssumption DEF IType, Streams
    <2> QED BY <1>2, <2>1, BeginCounts
<1>4. \A m \in Layers : LeftAt(m) \in 0 .. k /\ EnteredAt(m) \in 0 .. k
    BY <1>2, Counts
<1>5. \A m \in Layers : Counted(m) /\ Inflight(m) /\ Reached(m) /\ Found(m)
    BY <1>2 DEF IInv, OnSchedule
<1>6. /\ stream'[i] = [uniq |-> uniq, need |-> need, missing |-> missing,
                       fut |-> IF missing = {} THEN "none" ELSE "reading"]
      /\ \A n \in Streams : n # i => stream'[n] = stream[n]
      /\ stream' \in [Streams -> StreamType]
    <2>1. [uniq |-> uniq, need |-> need, missing |-> missing,
           fut |-> IF missing = {} THEN "none" ELSE "reading"] \in StreamType
        BY DEF StreamType
    <2> QED BY <1>1, <1>2, <1>3, <2>1 DEF IType
<1>7. /\ used'[l] = Append(used[l], uniq) /\ infl'[l] = infl[l] \cup missing
      /\ snaps'[l] = Append(snaps[l], kv[l]) /\ kv'[l] = Append(kv[l], i)
      /\ \A m \in Layers : m # l => /\ used'[m] = used[m] /\ infl'[m] = infl[m]
                                    /\ snaps'[m] = snaps[m] /\ kv'[m] = kv[m]
    BY <1>1, <1>2, <1>3 DEF IType
<1>8. /\ used[l] \in Seq(Routings) /\ kv[l] \in Seq(Nat) /\ snaps[l] \in Seq(Seq(Nat))
      /\ infl[l] \subseteq Experts
    BY <1>2, <1>3 DEF IType
<1>9. /\ used'[l] \in Seq(Routings) /\ Len(used'[l]) = Len(used[l]) + 1
      /\ used'[l][Len(used[l]) + 1] = uniq
      /\ \A j \in 1 .. Len(used[l]) : used'[l][j] = used[l][j]
    BY <1>7, <1>8, AppendProperties
<1>10. /\ snaps'[l] \in Seq(Seq(Nat)) /\ Len(snaps'[l]) = Len(snaps[l]) + 1
       /\ snaps'[l][Len(snaps[l]) + 1] = kv[l]
       /\ \A j \in 1 .. Len(snaps[l]) : snaps'[l][j] = snaps[l][j]
    BY <1>7, <1>8, AppendProperties
<1>11. kv'[l] \in Seq(Nat)
    <2>1. i \in Nat
        BY <1>3
    <2> QED BY <1>7, <1>8, <2>1, AppendProperties
<1>12. IType'
    <2>1. (used \in [Layers -> Seq(Routings)])'
        BY <1>1, <1>2, <1>7, <1>9 DEF IType
    <2>2. (snaps \in [Layers -> Seq(Seq(Nat))])'
        BY <1>1, <1>2, <1>7, <1>10 DEF IType
    <2>3. (kv \in [Layers -> Seq(Nat)])'
        BY <1>1, <1>2, <1>7, <1>11 DEF IType
    <2>4. (infl \in [Layers -> SUBSET Experts])'
        BY <1>1, <1>2, <1>7, <1>8 DEF IType
    <2> QED BY <1>2, <1>3, <1>6, <2>1, <2>2, <2>3, <2>4 DEF IType
\* The streams in a layer are still in it, and are to read what they were.
<1>13. ASSUME NEW m \in Layers, NEW n \in 1 .. k, In(n, m)
       PROVE  n # i /\ In(n, m)' /\ stream'[n] = stream[n]
    <2>1. n # i /\ n \in Streams
        <3>1. n # i
            BY <1>3, <1>13
        <3>2. n \in Streams
            BY <1>2, <1>13, StepWidth
        <3> QED BY <3>1, <3>2
    <2>2. In(n, m)'
        BY <1>3, <1>4, <1>13 DEF In
    <2> QED BY <1>6, <2>1, <2>2
<1>14. ASSUME NEW m \in Layers, NEW j \in 0 .. k PROVE Coming(m, j) \subseteq Coming(m, j)'
    <2> SUFFICES ASSUME NEW e \in Coming(m, j) PROVE e \in Coming(m, j)'
        OBVIOUS
    <2>1. PICK n \in 1 .. j : In(n, m) /\ e \in stream[n].missing
        BY DEF Coming
    <2>2. n \in 1 .. k
        BY <1>3
    <2>3. In(n, m)' /\ stream'[n] = stream[n]
        BY <1>13, <2>1, <2>2
    <2> QED BY <2>1, <2>3 DEF Coming
<1>15. In(i, l)' /\ i \in 1 .. i /\ i \in 1 .. k
    BY <1>3 DEF In
<1>16. missing \subseteq Coming(l, i)' /\ missing \subseteq Coming(l, k)'
    <2>1. \A j : i \in 1 .. j => stream'[i].missing \subseteq Coming(l, j)'
        BY <1>15 DEF Coming
    <2>2. stream'[i].missing = missing
        BY <1>6
    <2>3. k' = k
        BY <1>2
    <2> QED BY <1>15, <2>1, <2>2, <2>3
<1>17. ASSUME NEW m \in Layers, m # l
       PROVE  (Counted(m) /\ Inflight(m) /\ Reached(m) /\ Found(m))'
    <2>1. Counted(m)'
        BY <1>2, <1>3, <1>5, <1>7, <1>17, SMTT(40) DEF Counted
    <2>2. Inflight(m)'
        <3>1. Coming(m, k) \subseteq Coming(m, k)'
            BY <1>2, <1>3, <1>14
        <3>2. infl'[m] = infl[m]
            BY <1>7, <1>17
        <3> QED BY <1>2, <1>5, <3>1, <3>2 DEF Inflight
    <2>3. Reached(m)'
        <3> SUFFICES ASSUME LeftAt(m) < k, NEW j \in 1 .. EnteredAt(m)
                     PROVE  Range(used'[m][j]) \subseteq
                               Range(pool'[m]) \cup rows'[m] \cup Coming(m, j)'
            BY <1>2, <1>3, <1>17 DEF Reached
        <3>1. Coming(m, j) \subseteq Coming(m, j)'
            <4>1. j \in 0 .. k
                BY <1>3, <1>4
            <4> QED BY <1>14, <4>1
        <3> QED BY <1>2, <1>5, <1>7, <1>17, <3>1 DEF Reached
    <2>4. Found(m)'
        <3> SUFFICES ASSUME NEW j \in 1 .. k, In(j, m)'
                     PROVE  /\ stream'[j].uniq = used'[m][j]
                            /\ stream'[j].need = Range(used'[m][j]) \ Range(pool'[m])
                            /\ stream'[j].fut = "none" => stream'[j].missing = {}
            BY <1>2 DEF Found
        <3>1. In(j, m)
            BY <1>3, <1>17 DEF In
        <3> QED BY <1>2, <1>5, <1>7, <1>13, <1>17, <3>1 DEF Found
    <2> QED BY <2>1, <2>2, <2>3, <2>4
<1>18. Len(used[l]) = i - 1 /\ Len(snaps[l]) = i - 1 /\ kv[l] = UpTo(i - 1)
    BY <1>3, <1>5 DEF Counted
<1>19. Counted(l)'
    <2>1. fin'[l] = LeftAt(l)' /\ Len(snaps'[l]) = EnteredAt(l)' /\ Len(used'[l]) = EnteredAt(l)'
        BY <1>2, <1>3, <1>5, <1>9, <1>10, <1>18 DEF Counted
    <2>2. kv'[l] = UpTo(i)
        <3>1. i - 1 \in Nat /\ (i - 1) + 1 = i
            BY <1>3
        <3>2. Append(UpTo(i - 1), (i - 1) + 1) = UpTo((i - 1) + 1)
            BY <3>1, UpToAppend
        <3> QED BY <1>7, <1>18, <3>1, <3>2
    <2>3. \A j \in 1 .. i : snaps'[l][j] = UpTo(j - 1)
        <3> SUFFICES ASSUME NEW j \in 1 .. i PROVE snaps'[l][j] = UpTo(j - 1)
            OBVIOUS
        <3>1. CASE j = i
            BY <1>3, <1>10, <1>18, <3>1
        <3>2. CASE j # i
            <4>1. j \in 1 .. EnteredAt(l) /\ j \in 1 .. Len(snaps[l])
                BY <1>3, <1>18, <3>2
            <4> QED BY <1>5, <1>10, <4>1 DEF Counted
        <3> QED BY <3>1, <3>2
    <2> QED BY <1>3, <2>1, <2>2, <2>3 DEF Counted
<1>20. Inflight(l)'
    <2>1. Coming(l, k) \subseteq Coming(l, k)'
        BY <1>2, <1>3, <1>14
    <2> QED BY <1>2, <1>3, <1>5, <1>7, <1>16, <2>1 DEF Inflight
<1>21. Reached(l)'
    <2> SUFFICES ASSUME NEW j \in 1 .. i
                 PROVE  Range(used'[l][j]) \subseteq
                           Range(pool'[l]) \cup rows'[l] \cup Coming(l, j)'
        BY <1>2, <1>3 DEF Reached
    <2>1. CASE j = i
        <3>1. used'[l][i] = uniq
            BY <1>3, <1>9, <1>18
        <3>2. infl[l] \subseteq Coming(l, i)'
            <4>1. Coming(l, k) \subseteq Coming(l, i)
                BY <1>3 DEF Coming, In
            <4>2. Coming(l, i) \subseteq Coming(l, i)'
                BY <1>3, <1>14
            <4> QED BY <1>3, <1>5, <4>1, <4>2 DEF Inflight
        <3>3. Range(uniq) \subseteq Range(pool[l]) \cup infl[l] \cup missing
            BY <1>1
        <3> QED BY <1>2, <1>16, <2>1, <3>1, <3>2, <3>3
    <2>2. CASE j # i
        <3>1. j \in 1 .. i - 1 /\ j \in 0 .. k
            BY <1>3, <2>2
        <3>2. Coming(l, j) \subseteq Coming(l, j)' /\ used'[l][j] = used[l][j]
            BY <1>3, <1>9, <1>14, <1>18, <3>1
        <3>3. Range(used[l][j]) \subseteq Range(pool[l]) \cup rows[l] \cup Coming(l, j)
            BY <1>3, <1>5, <3>1 DEF Reached
        <3> QED BY <1>2, <3>2, <3>3
    <2> QED BY <2>1, <2>2
<1>22. Found(l)'
    <2> SUFFICES ASSUME NEW j \in 1 .. k, In(j, l)'
                 PROVE  /\ stream'[j].uniq = used'[l][j]
                        /\ stream'[j].need = Range(used'[l][j]) \ Range(pool'[l])
                        /\ stream'[j].fut = "none" => stream'[j].missing = {}
        BY <1>2 DEF Found
    <2>1. CASE j = i
        <3>1. used'[l][i] = uniq
            BY <1>3, <1>9, <1>18
        <3>2. /\ stream'[i].uniq = uniq /\ stream'[i].need = need
              /\ stream'[i].missing = missing
              /\ stream'[i].fut = IF missing = {} THEN "none" ELSE "reading"
            BY <1>6
        <3>3. stream'[i].need = Range(used'[l][i]) \ Range(pool'[l])
            BY <1>1, <1>2, <3>1, <3>2
        <3>4. stream'[i].fut = "none" => stream'[i].missing = {}
            BY <3>2
        <3> QED BY <2>1, <3>1, <3>2, <3>3, <3>4
    <2>2. CASE j # i
        <3>1. In(j, l) /\ j \in 1 .. i - 1
            BY <1>3, <2>2 DEF In
        <3>2. used'[l][j] = used[l][j] /\ stream'[j] = stream[j]
            BY <1>3, <1>9, <1>13, <1>18, <3>1
        <3> QED BY <1>2, <1>3, <1>5, <3>1, <3>2 DEF Found
    <2> QED BY <2>1, <2>2
<1>23. OnSchedule'
    BY <1>3, <1>17, <1>19, <1>20, <1>21, <1>22 DEF OnSchedule
<1>24. Agreed'
    <2>1. pc'.op # "idle"
        BY <1>3
    <2> QED BY <2>1 DEF Agreed, Idle, To
<1> QED BY <1>12, <1>23, <1>24 DEF IInv
\* What a stream about to be computed has to hand: the rows read for it and
\* for those before it make up, with the residents, all the experts it uses,
\* and with the last stream of the step all the experts of the step.
Got(l, i) == rows[l] \cup (IF stream[i].fut = "done" THEN stream[i].missing ELSE {})

LEMMA RowsComplete ==
    ASSUME IInv, At("finish"), NEW l \in Layers, NEW i \in 1 .. k, l = pc.l, i = pc.i,
           stream[i].fut # "reading"
    PROVE  /\ Got(l, i) = rows[l] \cup stream[i].missing /\ Got(l, i) \subseteq Experts
           /\ stream[i].uniq = used[l][i]
           /\ stream[i].need = Range(used[l][i]) \ Range(pool[l])
           /\ Range(used[l][i]) \subseteq Range(pool[l]) \cup Got(l, i)
           /\ Len(used[l]) = k
           /\ i = k => \A j \in 1 .. Len(used[l]) :
                          Range(used[l][j]) \subseteq Range(pool[l]) \cup Got(l, i)
<1>1. /\ IType /\ k \in Nat \ {0} /\ i \in Streams /\ stream[i] \in StreamType
      /\ Running /\ LeftAt(l) = i - 1 /\ EnteredAt(l) = k /\ rows[l] \subseteq Experts
    <2>1. IType /\ k \in Nat \ {0} /\ k <= KMax /\ KMax \in Nat
        <3>1. IType
            BY DEF IInv
        <3> QED BY <3>1, StepWidth
    <2>2. i \in Streams /\ stream[i] \in StreamType /\ rows[l] \subseteq Experts
        BY <2>1 DEF IType, Streams
    <2>3. Running /\ LeftAt(l) = i - 1 /\ EnteredAt(l) = k
        <3>1. l \in Nat
            BY PipelineAssumption DEF Layers
        <3> QED BY <2>1, <3>1 DEF At, Running, LeftAt, EnteredAt
    <2> QED BY <2>1, <2>2, <2>3
<1>2. In(i, l) /\ Counted(l) /\ Reached(l) /\ Found(l)
    BY <1>1 DEF IInv, OnSchedule, In
<1>3. /\ stream[i].uniq = used[l][i]
      /\ stream[i].need = Range(used[l][i]) \ Range(pool[l])
      /\ stream[i].fut = "none" => stream[i].missing = {}
    BY <1>2 DEF Found
<1>4. Got(l, i) = rows[l] \cup stream[i].missing /\ Got(l, i) \subseteq Experts
    BY <1>1, <1>3 DEF Got, StreamType
<1>5. Len(used[l]) = k
    BY <1>1, <1>2 DEF Counted
<1>6. ASSUME NEW j \in 1 .. k, j <= i
      PROVE  Range(used[l][j]) \subseteq Range(pool[l]) \cup Got(l, i)
    <2>1. Range(used[l][j]) \subseteq Range(pool[l]) \cup rows[l] \cup Coming(l, j)
        BY <1>1, <1>2 DEF Reached
    <2>2. Coming(l, j) \subseteq stream[i].missing
        <3> SUFFICES ASSUME NEW e \in Coming(l, j) PROVE e \in stream[i].missing
            OBVIOUS
        <3>1. PICK n \in 1 .. j : In(n, l) /\ e \in stream[n].missing
            BY DEF Coming
        <3>2. n = i
            BY <1>1, <1>6, <3>1 DEF In
        <3> QED BY <3>1, <3>2
    <2> QED BY <1>4, <2>1, <2>2
<1> QED BY <1>1, <1>3, <1>4, <1>5, <1>6

LEMMA FinishInv == IInv /\ Finish => IInv'
<1> SUFFICES ASSUME IInv, Finish PROVE IInv'
    OBVIOUS
<1>0. At("finish") /\ IType /\ Running /\ pc' = AfterFinish(pc.l, pc.i) /\ k' = k
    BY DEF Finish, IInv, At, Running
<1> PICK l \in Layers, i \in 1 .. k : l = pc.l /\ i = pc.i
    BY <1>0, FinishCounts
<1> DEFINE got == Got(l, i)
<1>1. /\ stream[i].fut # "reading"
      /\ stream' = [stream EXCEPT ![i].fut = "none"]
      /\ infl' = [infl EXCEPT ![l] = @ \ stream[i].missing]
      /\ fin' = [fin EXCEPT ![l] = @ + 1]
      /\ \/ /\ LastOut(l)
            /\ pool' = [pool EXCEPT ![l] = Settled(@, used[l], got)]
            /\ used' = [used EXCEPT ![l] = <<>>]
            /\ rows' = [rows EXCEPT ![l] = {}]
         \/ /\ ~LastOut(l)
            /\ rows' = [rows EXCEPT ![l] = got]
            /\ pool' = pool /\ used' = used
      /\ k' = k /\ kv' = kv /\ snaps' = snaps /\ accepted' = accepted
    BY DEF Finish, Got, caches
<1>2. /\ got = rows[l] \cup stream[i].missing /\ got \subseteq Experts
      /\ stream[i].uniq = used[l][i] /\ Len(used[l]) = k
    BY <1>0, <1>1, RowsComplete
<1> HIDE DEF got
<1>3. /\ l \in Layers /\ i \in 1 .. k /\ k \in Nat \ {0} /\ i \in Streams
      /\ pc' \in [op : {"begin", "finish"}, l : Layers, i : 1 .. k] \cup {To("commit", 0, 0)}
      /\ LeftAt(l) = i - 1 /\ EnteredAt(l) = k
      /\ \A m \in Layers : /\ LeftAt(m)' = IF m = l THEN i ELSE LeftAt(m)
                           /\ EnteredAt(m)' = EnteredAt(m)
                           /\ In(i, m) <=> m = l
    <2>1. i \in 1 .. k => i \in Streams
        BY <1>0, PipelineAssumption DEF IType, Streams
    <2> QED BY <1>0, <2>1, FinishCounts
<1>4. \A m \in Layers : LeftAt(m) \in 0 .. k /\ EnteredAt(m) \in 0 .. k
    BY <1>0, Counts
<1>5. \A m \in Layers : Counted(m) /\ Inflight(m) /\ Reached(m) /\ Found(m)
    BY <1>0 DEF IInv, OnSchedule
<1>6. fin[l] = i - 1 /\ fin'[l] = i /\ (LastOut(l) <=> i = k)
    BY <1>0, <1>1, <1>3, <1>5 DEF Counted, LastOut, IType
<1>7. /\ \A n \in Streams : n # i => stream'[n] = stream[n]
      /\ stream' \in [Streams -> StreamType]
    <2>1. stream \in [Streams -> StreamType] /\ stream[i] \in StreamType
        BY <1>0, <1>3 DEF IType
    <2>2. [stream[i] EXCEPT !.fut = "none"] \in StreamType
        BY <2>1 DEF StreamType
    <2>3. stream' = [stream EXCEPT ![i] = [stream[i] EXCEPT !.fut = "none"]]
        BY <1>1
    <2> QED BY <1>3, <2>1, <2>2, <2>3
<1>8. \A m \in Layers : m # l => /\ used'[m] = used[m] /\ infl'[m] = infl[m]
                                 /\ rows'[m] = rows[m] /\ pool'[m] = pool[m]
                                 /\ fin'[m] = fin[m]
    BY <1>0, <1>1, <1>3 DEF IType
<1>9. infl'[l] = infl[l] \ stream[i].missing /\ infl[l] \subseteq Experts
    BY <1>0, <1>1, <1>3 DEF IType
<1>10. i # k => pool' = pool /\ used' = used /\ rows'[l] = got
    BY <1>0, <1>1, <1>3, <1>6 DEF IType
<1>11. IType'
    <2>1. (pool \in [Layers -> Pools])'
        <3>1. pool[l] \in Pools /\ used[l] \in Seq(Routings) /\ pool \in [Layers -> Pools]
            BY <1>0, <1>3 DEF IType
        <3>2. Settled(pool[l], used[l], got) \in Pools
            BY <3>1, SettledType
        <3> QED BY <1>1, <1>3, <3>1, <3>2
    <2>2. (used \in [Layers -> Seq(Routings)])'
        <3>1. used \in [Layers -> Seq(Routings)] /\ <<>> \in Seq(Routings)
            BY <1>0, Empties DEF IType
        <3>2. used' = used \/ used' = [used EXCEPT ![l] = <<>>]
            BY <1>1
        <3> QED BY <1>3, <3>1, <3>2
    <2>3. (infl \in [Layers -> SUBSET Experts])'
        BY <1>0, <1>1, <1>3, <1>9 DEF IType
    <2>4. (rows \in [Layers -> SUBSET Experts])'
        BY <1>0, <1>1, <1>2, <1>3 DEF IType
    <2>5. (fin \in [Layers -> 0 .. k])'
        <3>1. fin' = [fin EXCEPT ![l] = i]
            BY <1>0, <1>1, <1>3, <1>6 DEF IType
        <3>2. i \in 0 .. k
            BY <1>3
        <3> QED BY <1>0, <1>1, <1>3, <3>1, <3>2 DEF IType
    <2>6. (/\ k \in Streams /\ kv \in [Layers -> Seq(Nat)] /\ snaps \in [Layers -> Seq(Seq(Nat))]
           /\ accepted \in 0 .. k)'
        BY <1>0, <1>1 DEF IType
    <2> QED BY <1>1, <1>3, <1>7, <2>1, <2>2, <2>3, <2>4, <2>5, <2>6 DEF IType
\* A stream in a layer after the step was in it before, and is not the one
\* that left.
<1>12. ASSUME NEW m \in Layers, NEW n \in 1 .. k, In(n, m)'
       PROVE  n # i /\ In(n, m) /\ stream'[n] = stream[n]
    <2>1. n \in Streams
        BY <1>0, <1>3, PipelineAssumption DEF IType, Streams
    <2>2. In(n, m) /\ (m = l => n # i)
        BY <1>3, <1>4, <1>12 DEF In
    <2>3. n # i
        BY <1>3, <2>2
    <2> QED BY <1>7, <2>1, <2>2, <2>3
\* Only what the stream leaving was to read is no longer coming.
<1>13. ASSUME NEW m \in Layers, NEW j \in 0 .. k
       PROVE  Coming(m, j) \subseteq Coming(m, j)' \cup (IF m = l THEN stream[i].missing ELSE {})
    <2> SUFFICES ASSUME NEW e \in Coming(m, j)
                 PROVE  e \in Coming(m, j)' \cup (IF m = l THEN stream[i].missing ELSE {})
        OBVIOUS
    <2>1. PICK n \in 1 .. j : In(n, m) /\ e \in stream[n].missing
        BY DEF Coming
    <2>2. n \in 1 .. k /\ n \in Streams
        BY <1>0, <1>3, PipelineAssumption, SMTT(40) DEF IType, Streams
    <2>3. CASE n = i
        BY <1>3, <2>1, <2>3
    <2>4. CASE n # i
        <3>1. In(n, m)' /\ stream'[n] = stream[n]
            BY <1>3, <1>4, <1>7, <2>1, <2>2, <2>4 DEF In
        <3> QED BY <2>1, <3>1 DEF Coming
    <2> QED BY <2>3, <2>4
<1>14. ASSUME NEW m \in Layers
       PROVE  (Counted(m) /\ Inflight(m) /\ Reached(m) /\ Found(m))'
    <2>1. Counted(m)'
        <3>1. fin'[m] = LeftAt(m)'
            BY <1>3, <1>5, <1>6, <1>8 DEF Counted
        <3>2. LeftAt(m)' < k => Len(used'[m]) = EnteredAt(m)
            BY <1>2, <1>3, <1>5, <1>8, <1>10 DEF Counted
        <3> QED BY <1>1, <1>3, <1>5, <3>1, <3>2 DEF Counted
    <2>2. Inflight(m)'
        <3>1. Coming(m, k) \subseteq Coming(m, k)' \cup (IF m = l THEN stream[i].missing ELSE {})
            BY <1>1, <1>3, <1>13
        <3>2. infl[m] \subseteq Coming(m, k)
            BY <1>5 DEF Inflight
        <3>3. infl'[m] \subseteq Coming(m, k)'
            BY <1>8, <1>9, <3>1, <3>2
        <3> QED BY <1>1, <3>3 DEF Inflight
    <2>3. Reached(m)'
        <3> SUFFICES ASSUME LeftAt(m)' < k, NEW j \in 1 .. EnteredAt(m)
                     PROVE  Range(used'[m][j]) \subseteq
                               Range(pool'[m]) \cup rows'[m] \cup Coming(m, j)'
            BY <1>1, <1>3 DEF Reached
        <3>1. Coming(m, j) \subseteq Coming(m, j)' \cup (IF m = l THEN stream[i].missing ELSE {})
            <4>1. j \in 0 .. k
                BY <1>3, <1>4
            <4> QED BY <1>13, <4>1
        <3>2. LeftAt(m) < k
            BY <1>3, <1>4
        <3>3. Range(used[m][j]) \subseteq Range(pool[m]) \cup rows[m] \cup Coming(m, j)
            BY <1>5, <3>2 DEF Reached
        <3>4. CASE m = l
            <4>1. i # k
                BY <1>3, <3>4
            <4> QED BY <1>2, <1>10, <3>1, <3>3, <3>4, <4>1
        <3>5. CASE m # l
            BY <1>8, <3>1, <3>3, <3>5
        <3> QED BY <3>4, <3>5
    <2>4. Found(m)'
        <3> SUFFICES ASSUME NEW j \in 1 .. k, In(j, m)'
                     PROVE  /\ stream'[j].uniq = used'[m][j]
                            /\ stream'[j].need = Range(used'[m][j]) \ Range(pool'[m])
                            /\ stream'[j].fut = "none" => stream'[j].missing = {}
            BY <1>1 DEF Found
        <3>1. In(j, m) /\ stream'[j] = stream[j]
            BY <1>12
        <3>2. used'[m] = used[m] /\ pool'[m] = pool[m]
            <4>1. m = l => i # k
                BY <1>3 DEF In
            <4> QED BY <1>8, <1>10, <4>1
        <3> QED BY <1>5, <3>1, <3>2 DEF Found
    <2> QED BY <2>1, <2>2, <2>3, <2>4
<1>15. OnSchedule'
    BY <1>14 DEF OnSchedule
<1>16. Agreed'
    <2>1. pc'.op # "idle"
        BY <1>3 DEF To
    <2> QED BY <2>1 DEF Agreed, Idle, To
<1> QED BY <1>11, <1>15, <1>16 DEF IInv

\* A read that arrives changes only what the host may find done.
LEMMA ArriveInv == IInv /\ Arrive => IInv'
<1> SUFFICES ASSUME IInv, Arrive PROVE IInv'
    OBVIOUS
<1>1. PICK i \in 1 .. k : stream[i].fut = "reading" /\ stream' = [stream EXCEPT ![i].fut = "done"]
    BY DEF Arrive
<1>2. /\ IType /\ OnSchedule /\ Running /\ i \in Streams /\ k \in Nat
      /\ pc' = pc /\ k' = k /\ pool' = pool /\ used' = used /\ infl' = infl /\ rows' = rows
      /\ fin' = fin /\ kv' = kv /\ snaps' = snaps /\ accepted' = accepted
    BY PipelineAssumption DEF IInv, IType, Arrive, books, caches, Streams
<1>3. /\ stream' \in [Streams -> StreamType]
      /\ \A n \in Streams : /\ stream'[n].uniq = stream[n].uniq
                            /\ stream'[n].need = stream[n].need
                            /\ stream'[n].missing = stream[n].missing
                            /\ stream'[n].fut = "none" => stream[n].fut = "none"
    BY <1>1, <1>2 DEF IType, StreamType
<1>4. IType'
    BY <1>2, <1>3 DEF IType
<1>5. \A n \in 1 .. k : n \in Streams
    BY <1>2, PipelineAssumption DEF IType, Streams
<1>6. ASSUME NEW m \in Layers
      PROVE  /\ LeftAt(m)' = LeftAt(m) /\ EnteredAt(m)' = EnteredAt(m)
             /\ \A j \in 0 .. k : Coming(m, j) \subseteq Coming(m, j)'
    <2>1. /\ LeftAt(m)' = LeftAt(m) /\ EnteredAt(m)' = EnteredAt(m)
          /\ \A n : In(n, m)' <=> In(n, m)
        BY <1>2 DEF LeftAt, EnteredAt, In
    <2>2. ASSUME NEW j \in 0 .. k, NEW e \in Coming(m, j) PROVE e \in Coming(m, j)'
        <3>1. PICK n \in 1 .. j : In(n, m) /\ e \in stream[n].missing
            BY DEF Coming
        <3>2. n \in Streams
            BY <1>2, <1>5
        <3> QED BY <1>3, <2>1, <3>1, <3>2 DEF Coming
    <2> QED BY <2>1, <2>2
<1>7. ASSUME NEW m \in Layers
      PROVE  (Counted(m) /\ Inflight(m) /\ Reached(m) /\ Found(m))'
    <2>1. Counted(m) /\ Inflight(m) /\ Reached(m) /\ Found(m)
        BY <1>2 DEF OnSchedule
    <2>2. Counted(m)'
        BY <1>2, <1>6, <2>1 DEF Counted
    <2>3. Inflight(m)'
        <3>1. Coming(m, k) \subseteq Coming(m, k)'
            BY <1>2, <1>6
        <3> QED BY <1>2, <2>1, <3>1 DEF Inflight
    <2>4. Reached(m)'
        <3>1. \A j \in 1 .. EnteredAt(m) : Coming(m, j) \subseteq Coming(m, j)'
            BY <1>2, <1>6, Counts
        <3> SUFFICES ASSUME LeftAt(m) < k, NEW j \in 1 .. EnteredAt(m)
                     PROVE  Range(used[m][j]) \subseteq
                               Range(pool[m]) \cup rows[m] \cup Coming(m, j)'
            BY <1>2, <1>6 DEF Reached
        <3> QED BY <2>1, <3>1 DEF Reached
    <2>5. Found(m)'
        <3> SUFFICES ASSUME NEW j \in 1 .. k, In(j, m)
                     PROVE  /\ stream'[j].uniq = used[m][j]
                            /\ stream'[j].need = Range(used[m][j]) \ Range(pool[m])
                            /\ stream'[j].fut = "none" => stream'[j].missing = {}
            BY <1>2, <1>6 DEF Found, In
        <3> QED BY <1>3, <1>5, <2>1 DEF Found
    <2> QED BY <2>2, <2>3, <2>4, <2>5
<1>8. OnSchedule' /\ Agreed'
    BY <1>2, <1>7 DEF OnSchedule, Agreed, Running, Idle, To
<1> QED BY <1>4, <1>8 DEF IInv

LEMMA ReadRaisesInv == IInv /\ ReadRaises => IInv'
<1> SUFFICES ASSUME IInv, ReadRaises PROVE IInv'
    OBVIOUS
<1>1. /\ pc' = Raised /\ k' = k /\ pool' = pool /\ used' = used /\ infl' = infl /\ rows' = rows
      /\ fin' = fin /\ kv' = kv /\ snaps' = snaps /\ stream' = stream /\ accepted' = accepted
    BY DEF ReadRaises, books, caches
<1>2. IType'
    BY <1>1 DEF IInv, IType
<1>3. OnSchedule' /\ Agreed'
    BY <1>1 DEF OnSchedule, Agreed, Running, Raised, Idle, To
<1> QED BY <1>2, <1>3 DEF IInv

\* What a rollback leaves in the caches, from the step's snapshots.
LEMMA RolledBack ==
    ASSUME NEW a \in 1 .. k, Rollback(a), k \in Nat,
           \A m \in Layers : \A j \in 1 .. k : snaps[m][j] = UpTo(j - 1),
           a < k \/ \A m \in Layers : kv[m] = UpTo(a), kv \in [Layers -> Seq(Nat)]
    PROVE  kv' \in [Layers -> Seq(Nat)] /\ \A m \in Layers : kv'[m] = UpTo(a)
<1>1. kv' = IF a < k THEN [m \in Layers |-> snaps[m][a + 1]] ELSE kv
    BY DEF Rollback
<1>2. CASE a < k
    <2>1. a + 1 \in 1 .. k /\ (a + 1) - 1 = a /\ UpTo(a) \in Seq(Nat)
        BY <1>2, UpToAppend
    <2>2. \A m \in Layers : snaps[m][a + 1] = UpTo(a)
        <3> TAKE m \in Layers
        <3>1. snaps[m][a + 1] = UpTo((a + 1) - 1)
            BY <2>1
        <3> QED BY <2>1, <3>1
    <2>3. kv' = [m \in Layers |-> snaps[m][a + 1]]
        BY <1>1, <1>2
    <2> QED BY <2>1, <2>2, <2>3
<1>3. CASE ~(a < k)
    BY <1>1, <1>3
<1> QED BY <1>2, <1>3

LEMMA CommitInv == IInv /\ Commit => IInv'
<1> SUFFICES ASSUME IInv, Commit PROVE IInv'
    OBVIOUS
<1>1. PICK a \in 1 .. k : Rollback(a) /\ accepted' = a
    BY DEF Commit
<1>2. /\ pc' = Idle /\ k' = k /\ pool' = pool /\ used' = used /\ infl' = infl /\ rows' = rows
      /\ fin' = fin /\ snaps' = snaps /\ stream' = stream
    BY DEF Commit, books
<1>3. At("commit") /\ IType /\ Running /\ k \in Nat \ {0}
    BY Counts DEF Commit, IInv, At, Running
<1>4. \A m \in Layers : LeftAt(m) = k /\ EnteredAt(m) = k /\ Counted(m)
    BY <1>3 DEF IInv, OnSchedule, At, LeftAt, EnteredAt
<1>5. \A m \in Layers : kv[m] = UpTo(k) /\ \A j \in 1 .. k : snaps[m][j] = UpTo(j - 1)
    BY <1>4 DEF Counted
<1>6. kv' \in [Layers -> Seq(Nat)] /\ \A m \in Layers : kv'[m] = UpTo(a)
    <2>1. a < k \/ a = k
        BY <1>3
    <2> QED BY <1>1, <1>3, <1>5, <2>1, RolledBack DEF IType
<1>7. IType'
    <2>1. accepted' \in 0 .. k
        BY <1>1, <1>3
    <2> QED BY <1>2, <1>3, <1>6, <2>1 DEF IType
<1>8. Agreed'
    BY <1>1, <1>2, <1>5, <1>6 DEF Agreed
<1>9. OnSchedule'
    BY <1>2 DEF OnSchedule, Running, Idle, To
<1> QED BY <1>7, <1>8, <1>9 DEF IInv

\* The snapshots still serve to keep fewer.
LEMMA TakeBackInv == IInv /\ TakeBack => IInv'
<1> SUFFICES ASSUME IInv, TakeBack PROVE IInv'
    OBVIOUS
<1>1. PICK a \in 1 .. accepted - 1 : Rollback(a) /\ accepted' = a
    BY DEF TakeBack
<1>2. /\ pc = Idle /\ pc' = Idle /\ k' = k /\ pool' = pool /\ used' = used /\ infl' = infl
      /\ rows' = rows /\ fin' = fin /\ snaps' = snaps /\ stream' = stream
    BY DEF TakeBack, books
<1>3. IType /\ k \in Nat \ {0}
    BY Counts DEF IInv
<1>4. a \in 1 .. k /\ a < k /\ accepted > 0
    BY <1>1, <1>3 DEF IType
<1>5. \A m \in Layers : \A j \in 1 .. k : snaps[m][j] = UpTo(j - 1)
    BY <1>2, <1>4 DEF IInv, Agreed
<1>6. kv' \in [Layers -> Seq(Nat)] /\ \A m \in Layers : kv'[m] = UpTo(a)
    BY <1>1, <1>3, <1>4, <1>5, RolledBack DEF IType
<1>7. IType'
    <2>1. accepted' \in 0 .. k
        BY <1>1, <1>3, <1>4
    <2> QED BY <1>2, <1>3, <1>6, <2>1 DEF IType
<1>8. Agreed'
    BY <1>1, <1>2, <1>5, <1>6 DEF Agreed
<1>9. OnSchedule'
    BY <1>2 DEF OnSchedule, Running, Idle, To
<1> QED BY <1>7, <1>8, <1>9 DEF IInv

\* Every step keeps the schedule's books and the caches in agreement.
LEMMA NextInv == IInv /\ [Next]_vars => IInv'
<1> SUFFICES ASSUME IInv, [Next]_vars PROVE IInv'
    OBVIOUS
<1>1. CASE Start BY <1>1, StartInv
<1>2. CASE Begin BY <1>2, BeginInv
<1>3. CASE Arrive BY <1>3, ArriveInv
<1>4. CASE Finish BY <1>4, FinishInv
<1>5. CASE ReadRaises BY <1>5, ReadRaisesInv
<1>6. CASE Commit BY <1>6, CommitInv
<1>8. CASE TakeBack BY <1>8, TakeBackInv
<1>7. CASE UNCHANGED vars
    <2>1. /\ pc' = pc /\ k' = k /\ pool' = pool /\ used' = used /\ infl' = infl /\ rows' = rows
          /\ fin' = fin /\ kv' = kv /\ snaps' = snaps /\ stream' = stream /\ accepted' = accepted
        BY <1>7 DEF vars
    <2>2. IType'
        BY <2>1 DEF IInv, IType
    <2>3. \A m \in Layers : /\ LeftAt(m)' = LeftAt(m) /\ EnteredAt(m)' = EnteredAt(m)
                            /\ \A j : Coming(m, j)' = Coming(m, j) /\ In(j, m)' = In(j, m)
        BY <2>1 DEF LeftAt, EnteredAt, Coming, In
    <2>4. OnSchedule'
        BY <2>1, <2>3 DEF IInv, OnSchedule, Running, Counted, Inflight, Reached, Found
    <2>5. Agreed'
        BY <2>1 DEF IInv, Agreed
    <2> QED BY <2>2, <2>4, <2>5 DEF IInv
<1> QED BY <1>1, <1>2, <1>3, <1>4, <1>5, <1>6, <1>7, <1>8 DEF Next

-----------------------------------------------------------------------------
(* The theorems.                                                           *)

THEOREM Scheduled == Spec => []IInv
<1>1. Init => IInv
    BY InitInv
<1>2. IInv /\ [Next]_vars => IInv'
    BY NextInv
<1> QED BY <1>1, <1>2, PTL DEF Spec

\* Every stream finds, when it is computed, the rows of the experts it needs
\* and the residents it found, and a pool never holds more than its slots.
THEOREM InReachAlways == Spec => []RowsInReach
<1>1. IInv => RowsInReach
    <2> SUFFICES ASSUME IInv PROVE RowsInReach
        OBVIOUS
    <2>1. IType /\ k \in Nat \ {0}
        BY Counts DEF IInv
    <2>2. TypeOK
        <3>1. /\ pc.op \in {"idle", "raised", "begin", "finish", "commit"} /\ k \in Streams
              /\ accepted \in 0 .. k
              /\ pc.op \in {"begin", "finish"} => pc.l \in Layers /\ pc.i \in 1 .. k
            BY <2>1 DEF IType, Idle, Raised, To
        <3>2. \A m \in Layers : /\ Range(pool[m]) \subseteq Experts /\ Len(pool[m]) <= NSlots
                                /\ IsInjective(pool[m])
            BY <2>1, RangeOfSeq DEF IType, Pools, Orders
        <3>3. \A m \in Layers : infl[m] \cup rows[m] \subseteq Experts /\ fin[m] \in 0 .. k
            BY <2>1 DEF IType
        <3>4. \A n \in Streams : stream[n].fut \in {"none", "reading", "done"}
            BY <2>1 DEF IType, StreamType
        <3> QED BY <3>1, <3>2, <3>3, <3>4 DEF TypeOK
    <2>3. InReach
        <3> SUFFICES ASSUME At("finish"), stream[pc.i].fut # "reading"
                     PROVE  /\ stream[pc.i].need \subseteq rows[pc.l] \cup stream[pc.i].missing
                            /\ Lost(pc.l, pc.i) = {}
            BY DEF InReach
        <3>1. PICK l \in Layers, i \in 1 .. k : l = pc.l /\ i = pc.i
            BY <2>1 DEF IType, At, Idle, Raised, To
        <3>2. /\ Got(l, i) = rows[l] \cup stream[i].missing
              /\ stream[i].uniq = used[l][i]
              /\ stream[i].need = Range(used[l][i]) \ Range(pool[l])
              /\ Range(used[l][i]) \subseteq Range(pool[l]) \cup Got(l, i)
            BY <3>1, RowsComplete
        <3> QED BY <3>1, <3>2 DEF Lost
    <2> QED BY <2>2, <2>3 DEF RowsInReach
<1> QED BY <1>1, Scheduled, PTL

\* Between steps every layer's cache holds exactly the positions of the
\* streams that were accepted, in order, whatever was rolled back and however
\* often (pipeline.py, rollback).
THEOREM CachesAgree == Spec => []LayersAgree
<1>1. IInv => LayersAgree
    BY DEF IInv, Agreed, LayersAgree, UpTo
<1> QED BY <1>1, Scheduled, PTL

\* The last stream out of a layer leaves its pool with the experts that
\* decoding the step's tokens one by one would have left in it.
THEOREM SettlesAsPlain == Spec => SettleKeeps
<1>1. IInv /\ [Next]_vars =>
          [\A l \in Layers : fin'[l] = fin[l] + 1 /\ fin'[l] = k
              => Range(pool'[l]) = Range(OneByOne(pool[l], used[l]))]_vars
    <2> SUFFICES ASSUME IInv, Next, NEW m \in Layers, fin'[m] = fin[m] + 1, fin'[m] = k
                 PROVE  Range(pool'[m]) = Range(OneByOne(pool[m], used[m]))
        OBVIOUS
    <2>1. IType /\ k \in Nat \ {0} /\ fin[m] \in 0 .. k
        BY Counts DEF IInv, IType
    <2>2. Finish
        <3>1. ~Start
            BY <2>1 DEF Start, Clear
        <3>2. fin' # fin
            BY <2>1
        <3> QED BY <3>1, <3>2 DEF Next, Begin, Arrive, ReadRaises, Commit, TakeBack, books
    <2>3. At("finish")
        BY <2>2 DEF Finish
    <2>4. PICK l \in Layers, i \in 1 .. k : l = pc.l /\ i = pc.i
        <3>1. pc.l \in Layers /\ pc.i \in 1 .. k
            BY <2>1, <2>3 DEF IType, At, Idle, Raised, To
        <3> QED BY <3>1
    <2>5. /\ stream[i].fut # "reading"
          /\ fin' = [fin EXCEPT ![l] = @ + 1]
          /\ LastOut(l) => pool' = [pool EXCEPT ![l] = Settled(@, used[l], Got(l, i))]
        BY <2>2, <2>4 DEF Finish, Got
    <2>6. m = l /\ LastOut(l)
        BY <2>1, <2>4, <2>5 DEF IType, LastOut
    <2>7. i = k
        <3>1. LeftAt(l) = i - 1
            <4>1. l \in Nat
                BY PipelineAssumption DEF Layers
            <4> QED BY <2>3, <2>4, <4>1 DEF At, LeftAt
        <3>2. Counted(l)
            BY <2>3 DEF IInv, OnSchedule, At, Running
        <3> QED BY <2>1, <2>4, <2>6, <3>1, <3>2 DEF LastOut, Counted
    <2>8. \A j \in 1 .. Len(used[l]) : Range(used[l][j]) \subseteq Range(pool[l]) \cup Got(l, i)
        BY <2>3, <2>4, <2>5, <2>7, RowsComplete
    <2>9. pool[l] \in Pools /\ used[l] \in Seq(Routings) /\ pool'[l] = Settled(pool[l], used[l], Got(l, i))
        BY <2>1, <2>4, <2>5, <2>6 DEF IType
    <2>10. Range(Settled(pool[l], used[l], Got(l, i))) = Range(OneByOne(pool[l], used[l]))
        BY <2>8, <2>9, SettledAsPlain
    <2> QED BY <2>6, <2>9, <2>10
<1> QED BY <1>1, Scheduled, PTL DEF Spec, SettleKeeps
=============================================================================
