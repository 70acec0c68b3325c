---------------------------- MODULE SwitchProofs ----------------------------
(***************************************************************************)
(* Theorems about what a streamed layer does with a chunk too wide for its *)
(* pool: the reads it starts ahead (ReadAhead), for every number of        *)
(* experts, layers, slots and tasks, every batch size, with decode calls   *)
(* or without, reads raising or not; its slices (TokenSlices) and its      *)
(* sweep (SweepRows).  And about a call that touches its hits first        *)
(* (TouchFirst).                                                           *)
(*                                                                         *)
(* Reads: a task keeps its kind, layer and experts while anyone holds it,  *)
(* so each future of a layer's early reads is one that reads its expert,   *)
(* until the layer's next call takes it or cancels it.  A sweep has its    *)
(* first batches' futures done, for it waited; so those it leaves behind   *)
(* when it ends are done, unless a read raised.  What is read, or waits to *)
(* be, for a layer's next answer is what the layer holds, so while none    *)
(* raises nothing is read twice.                                           *)
(*                                                                         *)
(* Slices: experts ensured are the last entries of the pool, so those of a *)
(* slice that fits are all there when its gather is built and evaluated.   *)
(* A slice and the row after it do not fit together, so every cut of the   *)
(* rows ends a run in each slice.                                          *)
(*                                                                         *)
(* Sweep: the pairs in expert order are cut where an expert's end, so the  *)
(* results so far are those of the pairs before a cut; of the experts      *)
(* before it, the warm ones are the last entries of the pool.              *)
(***************************************************************************)
EXTENDS ReadAhead, MCLayerCall, SeqFoldsProofs, FiniteSetTheorems

-----------------------------------------------------------------------------
(* The inductive invariant.                                                *)
States == {"free", "queued", "running", "done", "raised", "cancelled"}
Kinds == {"none", "own", "early", "prefetch"}
Entries == [st : States, layer : 0 .. NLayers, ids : SUBSET Experts, kind : Kinds]
Tables == [Tasks -> Entries]
FutureMaps == UNION {[S -> Tasks] : S \in SUBSET Experts}
Calls == [op : {"none", "sweep", "decode", "left"}, routed : SUBSET Experts, batch : Nat,
          kept : FutureMaps, fut : Tasks \cup {None}]

Types ==
    /\ task \in Tables /\ queue \in [Executors -> Seq(Tasks)]
    /\ early \in [Layers -> FutureMaps] /\ pf \in [Layers -> Tasks \cup {None}]
    /\ at \in Layers /\ raises \in 0 .. MaxRaises /\ call \in Calls
    /\ reads \in [Layers -> [Experts -> Nat]]

\* A task waits in one queue, once; only the first of a queue runs; the
\* threads of the layers read for their sweeps.
Waits(j, x) ==
    /\ task[j].st \in {"queued", "running"}
    /\ task[j].st = "running" => j = Head(queue[x])
    /\ x # 0 => task[j].kind = "own"
Queues ==
    /\ \A x \in Executors : IsInjective(queue[x])
    /\ \A x, y \in Executors : x # y => Range(queue[x]) \cap Range(queue[y]) = {}
    /\ \A x \in Executors : \A j \in Range(queue[x]) : Waits(j, x)

\* An early future is of a read of its expert, for its layer.
ReadsEarly(j, e) == task[j].kind = "early" /\ e \in task[j].ids /\ task[j].st # "cancelled"
EarlyReads ==
    \A l \in Layers : \A e \in DOMAIN early[l] :
        ReadsEarly(early[l][e], e) /\ task[early[l][e]].layer = l

\* What the sweep in progress has taken and has started itself.
ReadsOwn(j, ids) == task[j].kind = "own" /\ task[j].ids = ids /\ task[j].st # "cancelled"
Needed == Need(Batch(call.routed, call.batch), call.kept)
SweepReads ==
    /\ call.op # "sweep" => call.kept = NoFuture
    /\ call.op = "sweep" =>
        /\ call.batch >= 1 /\ DOMAIN call.kept \subseteq call.routed
        /\ call.fut = None <=> Needed = {}
        /\ call.fut # None => ReadsOwn(call.fut, Needed)
        /\ \A e \in DOMAIN call.kept : ReadsEarly(call.kept[e], e)

\* While no read has raised: the batches behind are read, and an early read
\* still to be started is one a layer or a sweep holds.
EarlyHeld == (UNION {Range(early[l]) : l \in Layers}) \cup Range(call.kept)
Calm ==
    raises = 0 =>
        /\ \A j \in Tasks : task[j].st # "raised"
        /\ call.op = "sweep" =>
              \A e \in DOMAIN call.kept :
                  BatchOf(call.routed, e) < call.batch => task[call.kept[e]].st = "done"
        /\ \A x \in Executors : \A j \in Range(queue[x]) :
              task[j].kind = "early" /\ task[j].st = "queued" => j \in EarlyHeld

RInv == Types /\ Queues /\ EarlyReads /\ SweepReads /\ Calm

-----------------------------------------------------------------------------
(* Lemmas about the operators.                                             *)

\* Division by a number not above the dividend keeps the order of dividends.
LEMMA DivUp ==
    ASSUME NEW b \in Nat, NEW c \in Nat \ {0}
    PROVE  b \div c \in Nat /\ \A a \in Nat : c <= a /\ a <= b => a \div c \in 1 .. b \div c
OBVIOUS

\* A batch's number is one of the sweep's batches.
LEMMA BatchNumbers ==
    ASSUME NEW S \in SUBSET Experts
    PROVE  /\ Cardinality(S) \in Nat /\ NBatches(S) \in Nat
           /\ \A e \in S : BatchOf(S, e) \in 1 .. NBatches(S)
<1>1. IsFiniteSet(S) /\ SweepBatch \in Nat \ {0}
    <2>1. IsFiniteSet(Experts)
        BY FS_Interval, ReadAheadAssumption DEF Experts
    <2> QED BY <2>1, FS_Subset, ReadAheadAssumption
<1>2. Cardinality(S) \in Nat
    BY <1>1, FS_CardinalityType
<1>5. ASSUME NEW e \in S PROVE BatchOf(S, e) \in 1 .. NBatches(S)
    <2> DEFINE F == {f \in S : f <= e}
    <2>1. F \subseteq S /\ e \in F
        BY DEF Experts
    <2>2. Cardinality(F) \in Nat /\ Cardinality(F) <= Cardinality(S) /\ Cardinality(F) # 0
        BY <1>1, <2>1, FS_Subset, FS_CardinalityType, FS_EmptySet
    <2> DEFINE a == Cardinality(F) + SweepBatch - 1
               b == Cardinality(S) + SweepBatch - 1
    <2>3. a \in Nat /\ b \in Nat /\ SweepBatch <= a /\ a <= b
        BY <1>1, <1>2, <2>2
    <2> HIDE DEF a, b
    <2>4. a \div SweepBatch \in 1 .. b \div SweepBatch
        BY <1>1, <2>3, DivUp
    <2> QED BY <2>4 DEF a, b, BatchOf, NBatches
<1>6. NBatches(S) \in Nat
    <2> DEFINE b == Cardinality(S) + SweepBatch - 1
    <2>1. b \in Nat
        BY <1>1, <1>2
    <2> HIDE DEF b
    <2>2. b \div SweepBatch \in Nat
        BY <1>1, <2>1, DivUp
    <2> QED BY <2>2 DEF b, NBatches
<1> QED BY <1>2, <1>5, <1>6

\* Division undone: the quotient of the k-th batch's first place is k.
LEMMA DivExact ==
    ASSUME NEW b \in Nat \ {0}, NEW k \in Nat \ {0}, NEW c \in Nat, k <= (c + b - 1) \div b
    PROVE  LET n == (k - 1) * b + 1 IN n \in 1 .. c /\ (n + b - 1) \div b = k
<1> DEFINE q == (c + b - 1) \div b
           n == (k - 1) * b + 1
<1>1. q \in Nat /\ b * q <= c + b - 1
    OBVIOUS
<1>2. k * b <= q * b /\ (k - 1) * b >= 0 /\ (k - 1) * b \in Int /\ k * b = (k - 1) * b + b
    <2>1. k <= q /\ k - 1 >= 0
        OBVIOUS
    <2> HIDE DEF q
    <2> QED BY <1>1, <2>1
<1>3. k * b \in Nat /\ (k * b) \div b = k
    OBVIOUS
<1>4. q * b = b * q
    <2> HIDE DEF q
    <2> QED BY <1>1
<1>5. n + b - 1 = k * b /\ n \in Int
    BY <1>2
<1>6. n \in 1 .. c
    <2> HIDE DEF q
    <2> QED BY <1>1, <1>2, <1>4
<1> QED BY <1>3, <1>5, <1>6

\* Each of a sweep's batches has an expert.
LEMMA BatchesFull ==
    ASSUME NEW S \in SUBSET Experts, NEW k \in 1 .. NBatches(S)
    PROVE  \E e \in S : BatchOf(S, e) = k
<1> DEFINE F(p) == {f \in S : f <= p}
           c == Cardinality(S)
           n == (k - 1) * SweepBatch + 1
<1>1. IsFiniteSet(S) /\ SweepBatch \in Nat \ {0} /\ NExperts \in Nat /\ c \in Nat
    <2>1. IsFiniteSet(Experts)
        BY FS_Interval, ReadAheadAssumption DEF Experts
    <2> QED BY <2>1, FS_Subset, FS_CardinalityType, ReadAheadAssumption
<1>0. \A f \in S : f \in 1 .. NExperts
    BY DEF Experts
<1>2. n \in 1 .. c /\ (n + SweepBatch - 1) \div SweepBatch = k
    <2>1. k \in Nat \ {0} /\ k <= (c + SweepBatch - 1) \div SweepBatch
        BY BatchNumbers DEF NBatches
    <2> HIDE DEF c
    <2> QED BY <1>1, <2>1, DivExact
<1> HIDE DEF c, n
<1>3. \A p \in Nat : IsFiniteSet(F(p)) /\ Cardinality(F(p)) \in Nat
    BY <1>1, FS_Subset, FS_CardinalityType
<1> DEFINE T == {p \in Nat : n <= Cardinality(F(p))}
<1>4. NExperts \in T
    <2>1. F(NExperts) = S
        BY <1>0
    <2> HIDE DEF F
    <2> QED BY <1>1, <1>2, <2>1 DEF c
<1>5. PICK p \in T : \A o \in T : p <= o
    <2>1. T \in SUBSET Nat /\ T # {}
        BY <1>4
    <2> HIDE DEF T
    <2> QED BY <2>1, LeastNatural
<1>6. p # 0
    <2>1. F(0) = {}
        BY <1>0, <1>1
    <2>2. Cardinality(F(0)) = 0
        BY <2>1, FS_EmptySet
    <2> HIDE DEF F
    <2> QED BY <1>2, <1>5, <2>2
<1>7. p \in Nat /\ p - 1 \in Nat /\ n <= Cardinality(F(p)) /\ Cardinality(F(p - 1)) < n
    <2>1. p \in Nat /\ p - 1 \in Nat /\ n <= Cardinality(F(p)) /\ p - 1 \notin T
        BY <1>5, <1>6
    <2>2. Cardinality(F(p - 1)) \in Nat
        BY <1>3, <2>1
    <2> QED BY <1>2, <2>1, <2>2
<1>8. p \in S /\ F(p) = F(p - 1) \cup {p} /\ p \notin F(p - 1)
    <2>1. \A f \in S : f <= p <=> f <= p - 1 \/ f = p
        BY <1>0, <1>1, <1>7
    <2>2. p \notin S => F(p) = F(p - 1)
        BY <2>1
    <2>3. Cardinality(F(p)) # Cardinality(F(p - 1))
        <3> DEFINE x == Cardinality(F(p))
                   y == Cardinality(F(p - 1))
        <3>1. x \in Nat /\ y \in Nat /\ n <= x /\ y < n
            BY <1>3, <1>7
        <3> HIDE DEF x, y
        <3>2. x # y
            BY <1>2, <3>1
        <3> QED BY <3>2 DEF x, y
    <2>4. p \in S
        <3> HIDE DEF F
        <3> QED BY <2>2, <2>3
    <2>5. F(p) = F(p - 1) \cup {p}
        BY <2>1, <2>4
    <2>6. p \notin F(p - 1)
        BY <1>7
    <2> QED BY <2>4, <2>5, <2>6
<1>9. Cardinality(F(p)) = Cardinality(F(p - 1)) + 1
    <2>1. IsFiniteSet(F(p - 1))
        BY <1>3, <1>7
    <2> HIDE DEF F
    <2> QED BY <1>8, <2>1, FS_AddElement
<1>10. Cardinality(F(p)) = n
    <2> DEFINE x == Cardinality(F(p))
               y == Cardinality(F(p - 1))
    <2>1. x \in Nat /\ y \in Nat /\ n <= x /\ y < n /\ x = y + 1
        BY <1>3, <1>7, <1>9
    <2> HIDE DEF x, y
    <2>2. x = n
        BY <1>2, <2>1
    <2> QED BY <2>2 DEF x
<1> QED BY <1>2, <1>8, <1>10 DEF BatchOf

\* New tasks are ones nobody holds.
LEMMA FreshFutures ==
    ASSUME NEW n \in Nat, Room(n)
    PROVE  /\ Fresh(n) \in Seq(FreeTasks) /\ Len(Fresh(n)) = n /\ IsInjective(Fresh(n))
           /\ Fresh(n) \in [1 .. n -> FreeTasks]
           /\ \A i \in 1 .. n : Fresh(n)[i] \in FreeTasks
<1> DEFINE m == Cardinality(FreeTasks)
<1>1. IsFiniteSet(FreeTasks)
    <2>0. NTasks \in Nat
        BY ReadAheadAssumption
    <2>1. IsFiniteSet(Tasks)
        BY <2>0, FS_Interval DEF Tasks
    <2> QED BY <2>1, FS_Subset DEF FreeTasks
<1>2. m \in Nat /\ ExistsBijection(1 .. m, FreeTasks) /\ n <= m
    BY <1>1, FS_CardinalityType DEF Room
<1> HIDE DEF m
<1>3. PICK f \in Bijection(1 .. m, FreeTasks) : TRUE
    BY <1>2 DEF ExistsBijection
<1>4. /\ f \in [1 .. m -> FreeTasks]
      /\ \A i, j \in 1 .. m : f[i] = f[j] => i = j
    BY <1>3 DEF Bijection, Injection, IsInjective
<1> DEFINE g == [i \in 1 .. n |-> f[i]]
<1>5. g \in [1 .. n -> FreeTasks] /\ IsInjective(g)
    BY <1>2, <1>4 DEF IsInjective
<1>6. Fresh(n) \in [1 .. n -> FreeTasks] /\ IsInjective(Fresh(n))
    BY <1>5 DEF Fresh
<1> HIDE DEF g
<1> DEFINE h == Fresh(n)
<1>7. h \in [1 .. n -> FreeTasks] /\ IsInjective(h)
    BY <1>6
<1> HIDE DEF h
<1>8. h \in Seq(FreeTasks) /\ Len(h) = n
    BY <1>7
<1> QED BY <1>7, <1>8 DEF h

\* The queues after some tasks are taken out: what is left waits as before.
LEMMA WithoutTasks ==
    ASSUME NEW q \in Seq(Tasks), IsInjective(q), NEW gone
    PROVE  /\ Without(q, gone) \in Seq(Tasks) /\ IsInjective(Without(q, gone))
           /\ Range(Without(q, gone)) = Range(q) \ gone
           /\ q # <<>> /\ Head(q) \notin gone => Head(Without(q, gone)) = Head(q)
<1> DEFINE S == Range(q) \ gone
<1>1. /\ Only(q, S) \in Seq(Tasks) /\ Range(Only(q, S)) = Range(q) \cap S
      /\ IsInjective(Only(q, S))
    BY OnlyProperties
<1>2. Range(q) \cap S = Range(q) \ gone
    OBVIOUS
<1>3. ASSUME q # <<>>, Head(q) \notin gone PROVE Head(Only(q, S)) = Head(q)
    <2> DEFINE h == Head(q)
               t == Tail(q)
    <2>1. /\ t \in Seq(Tasks) /\ q = <<h>> \o t /\ <<h>> \in Seq(Tasks) /\ h \in Tasks
        BY <1>3, TailProperties, HeadTailProperties
    <2>2. h \in S
        <3>1. Len(q) >= 1 /\ h = q[1] /\ DOMAIN q = 1 .. Len(q)
            BY <1>3, HeadTailProperties, EmptySeq, LenProperties
        <3> QED BY <3>1, <1>3 DEF Range
    <2> DEFINE p == <<h>>
    <2>3. p \in Seq(Tasks) /\ t \in Seq(Tasks) /\ q = p \o t /\ Range(p) \subseteq S
        BY <2>1, <2>2 DEF Range
    <2>4. Only(p \o t, S) = Only(p, S) \o Only(t, S) /\ Only(p, S) = p
        <3> HIDE DEF h, t, p, S
        <3>1. Only(p \o t, S) = Only(p, S) \o Only(t, S)
            BY <2>3, OnlyConcat
        <3> QED BY <3>1, <2>3, OnlyAll
    <2>5. Only(t, S) \in Seq(Tasks)
        <3> HIDE DEF t, S
        <3> QED BY <2>3, OnlyType
    <2>6. Head(<<h>> \o Only(t, S)) = h
        <3> HIDE DEF h, t, S
        <3> QED BY <2>1, <2>5
    <2>7. Only(q, S) = <<h>> \o Only(t, S)
        BY <2>3, <2>4
    <2> HIDE DEF h, t, p, S
    <2> QED BY <2>6, <2>7 DEF h
<1> QED BY <1>1, <1>2, <1>3 DEF Without

\* The queues after new tasks are put at the end of one.
LEMMA WithMore ==
    ASSUME NEW q \in Seq(Tasks), IsInjective(q),
           NEW r \in Seq(Tasks), IsInjective(r), Range(q) \cap Range(r) = {}
    PROVE  /\ q \o r \in Seq(Tasks) /\ IsInjective(q \o r) /\ Range(q \o r) = Range(q) \cup Range(r)
           /\ q # <<>> => Head(q \o r) = Head(q)
<1> DEFINE u == q \o r
           m == Len(q)
           n == Len(r)
<1>1. /\ m \in Nat /\ n \in Nat /\ u \in Seq(Tasks) /\ Len(u) = m + n
      /\ \A i \in 1 .. m + n : u[i] = IF i <= m THEN q[i] ELSE r[i - m]
      /\ DOMAIN q = 1 .. m /\ DOMAIN r = 1 .. n
    BY ConcatProperties, LenProperties
<1>2. DOMAIN u = 1 .. m + n
    BY <1>1, LenProperties
<1>3. q # <<>> => m >= 1 /\ Head(q) = q[1]
    BY <1>1, HeadTailProperties, EmptySeq
<1>4. u # <<>> => Head(u) = u[1]
    BY <1>1, HeadTailProperties
<1> HIDE DEF u, m, n
<1>5. Range(u) = Range(q) \cup Range(r)
    <2>1. \A i \in 1 .. m : u[i] = q[i]
        BY <1>1
    <2>2. \A i \in 1 .. n : u[m + i] = r[i] /\ m + i \in 1 .. m + n
        BY <1>1
    <2>3. \A i \in 1 .. m + n : (i \in 1 .. m /\ u[i] = q[i]) \/ (i - m \in 1 .. n /\ u[i] = r[i - m])
        BY <1>1
    <2>4. Range(u) \subseteq Range(q) \cup Range(r)
        BY <1>1, <1>2, <2>3 DEF Range
    <2>5. Range(q) \subseteq Range(u)
        BY <1>1, <1>2, <2>1 DEF Range
    <2>6. Range(r) \subseteq Range(u)
        <3> SUFFICES ASSUME NEW x \in Range(r) PROVE x \in Range(u)
            OBVIOUS
        <3>1. PICK i \in 1 .. n : x = r[i]
            BY <1>1 DEF Range
        <3>2. u[m + i] = x /\ m + i \in DOMAIN u
            BY <1>2, <2>2, <3>1
        <3> QED BY <3>2 DEF Range
    <2> QED BY <2>4, <2>5, <2>6
<1>6. IsInjective(u)
    <2> SUFFICES ASSUME NEW i \in 1 .. m + n, NEW j \in 1 .. m + n, u[i] = u[j] PROVE i = j
        BY <1>2 DEF IsInjective
    <2>1. CASE i <= m /\ j <= m
        <3>1. i \in DOMAIN q /\ j \in DOMAIN q /\ q[i] = q[j]
            BY <1>1, <2>1
        <3> QED BY <3>1 DEF IsInjective
    <2>2. CASE i > m /\ j > m
        <3>1. i - m \in 1 .. n /\ j - m \in 1 .. n /\ r[i - m] = r[j - m]
            BY <1>1, <2>2
        <3>2. i - m = j - m
            <4>1. i - m \in DOMAIN r /\ j - m \in DOMAIN r
                BY <1>1, <3>1
            <4> QED BY <3>1, <4>1 DEF IsInjective
        <3> QED BY <1>1, <3>2
    <2>3. CASE i <= m /\ j > m
        <3>1. q[i] = r[j - m] /\ i \in 1 .. m /\ j - m \in 1 .. n
            BY <1>1, <2>3
        <3> QED BY <1>1, <3>1 DEF Range
    <2>4. CASE i > m /\ j <= m
        <3>1. q[j] = r[i - m] /\ j \in 1 .. m /\ i - m \in 1 .. n
            BY <1>1, <2>4
        <3> QED BY <1>1, <3>1 DEF Range
    <2> QED BY <1>1, <2>1, <2>2, <2>3, <2>4
<1>7. q # <<>> => Head(u) = Head(q)
    <2> SUFFICES ASSUME q # <<>> PROVE Head(u) = Head(q)
        OBVIOUS
    <2>1. m >= 1 /\ Head(q) = q[1] /\ u[1] = q[1]
        BY <1>1, <1>3
    <2>2. u # <<>>
        BY <1>1, <2>1, EmptySeq
    <2> QED BY <2>1, <2>2, <1>4
<1> QED BY <1>1, <1>5, <1>6, <1>7 DEF u

\* The first task of a queue is in it, and the others after it.
LEMMA QueueHead ==
    ASSUME NEW q \in Seq(Tasks), IsInjective(q), q # <<>>
    PROVE  /\ Head(q) \in Range(q) /\ Head(q) \in Tasks
           /\ Tail(q) \in Seq(Tasks) /\ IsInjective(Tail(q))
           /\ Range(Tail(q)) = Range(q) \ {Head(q)}
<1> DEFINE m == Len(q)
           t == Tail(q)
<1>1. /\ m \in Nat \ {0} /\ Head(q) = q[1] /\ t \in Seq(Tasks) /\ Len(t) = m - 1
      /\ \A i \in 1 .. m - 1 : t[i] = q[i + 1]
      /\ DOMAIN q = 1 .. m /\ IsInjective(t) /\ Head(q) \in Tasks
    <2>1. m \in Nat \ {0} /\ DOMAIN q = 1 .. m
        BY EmptySeq, LenProperties
    <2>2. t \in Seq(Tasks) /\ Len(t) = m - 1 /\ Head(q) \in Tasks
          /\ \A i \in 1 .. Len(t) : t[i] = q[i + 1]
        BY HeadTailProperties
    <2>3. IsInjective(t)
        BY TailProperties
    <2> QED BY <2>1, <2>2, <2>3
<1>2. DOMAIN t = 1 .. m - 1
    BY <1>1, LenProperties
<1> HIDE DEF m, t
<1>3. Head(q) \in Range(q)
    BY <1>1 DEF Range
<1>4. Range(t) = Range(q) \ {Head(q)}
    <2>1. \A i \in 1 .. m - 1 : t[i] = q[i + 1] /\ i + 1 \in 1 .. m /\ i + 1 # 1 /\ 1 \in 1 .. m
        BY <1>1
    <2>2. \A i \in 1 .. m : i # 1 => i - 1 \in 1 .. m - 1 /\ t[i - 1] = q[i]
        BY <1>1
    <2>3. \A i \in 1 .. m : i # 1 => q[i] # q[1]
        BY <1>1 DEF IsInjective
    <2>4. Range(t) \subseteq Range(q) \ {Head(q)}
        BY <1>1, <1>2, <2>1, <2>3 DEF Range
    <2>5. ASSUME NEW x \in Range(q), x # Head(q) PROVE x \in Range(t)
        <3>1. PICK i \in 1 .. m : x = q[i]
            BY <1>1 DEF Range
        <3>2. i - 1 \in 1 .. m - 1 /\ t[i - 1] = x
            BY <1>1, <2>2, <2>5, <3>1
        <3> QED BY <3>2, <1>2 DEF Range
    <2> QED BY <2>4, <2>5
<1> QED BY <1>1, <1>3, <1>4 DEF t

\* Maps from experts to futures.
LEMMA FutureMap ==
    ASSUME NEW f \in FutureMaps, NEW S
    PROVE  /\ DOMAIN f \subseteq Experts /\ Range(f) \subseteq Tasks
           /\ \A e \in DOMAIN f : f[e] \in Range(f) /\ f[e] \in Tasks
           /\ Restricted(f, S) \in FutureMaps /\ DOMAIN Restricted(f, S) = DOMAIN f \cap S
           /\ \A e \in DOMAIN f \cap S : Restricted(f, S)[e] = f[e]
           /\ Range(Restricted(f, S)) \subseteq Range(f)
<1>1. PICK D \in SUBSET Experts : f \in [D -> Tasks]
    BY DEF FutureMaps
<1>2. DOMAIN f = D /\ \A e \in D : f[e] \in Tasks
    BY <1>1
<1>3. Restricted(f, S) \in [D \cap S -> Tasks] /\ DOMAIN Restricted(f, S) = D \cap S
      /\ \A e \in D \cap S : Restricted(f, S)[e] = f[e]
    BY <1>2 DEF Restricted
<1>4. Restricted(f, S) \in FutureMaps
    BY <1>3 DEF FutureMaps
<1> QED BY <1>2, <1>3, <1>4 DEF Range

LEMMA NoFutures == NoFuture \in FutureMaps /\ DOMAIN NoFuture = {} /\ Range(NoFuture) = {}
<1>1. NoFuture \in [{} -> Tasks]
    BY DEF NoFuture
<1> QED BY <1>1 DEF FutureMaps, Range, NoFuture

\* Whoever is in a queue or referred to keeps its entry of the table.
LEMMA HeldTasks ==
    /\ \A x \in Executors : Range(queue[x]) \subseteq Queued
    /\ \A l \in Layers : Range(early[l]) \subseteq Referenced
    /\ Range(call.kept) \subseteq Referenced /\ call.fut \in Referenced
    /\ \A x \in Executors : Range(queue'[x]) \subseteq Queued'
    /\ \A l \in Layers : Range(early'[l]) \subseteq Referenced'
    /\ Range(call'.kept) \subseteq Referenced' /\ call'.fut \in Referenced'
    /\ FreeTasks \subseteq Tasks /\ FreeTasks \cap Queued = {} /\ FreeTasks \cap Referenced = {}
<1>1. \A x \in Executors : Range(queue[x]) \subseteq Queued
    BY DEF Queued
<1>2. ASSUME NEW l \in Layers, NEW j \in Range(early[l]) PROVE j \in Referenced
    <2>1. j \in UNION {Range(early[i]) : i \in Layers}
        OBVIOUS
    <2> QED BY <2>1 DEF Referenced
<1>3. Range(call.kept) \subseteq Referenced /\ call.fut \in Referenced
    BY DEF Referenced
<1>4. \A x \in Executors : Range(queue'[x]) \subseteq Queued'
    BY DEF Queued
<1>5. ASSUME NEW l \in Layers, NEW j \in Range(early'[l]) PROVE j \in Referenced'
    <2>1. j \in UNION {Range(early'[i]) : i \in Layers}
        OBVIOUS
    <2> QED BY <2>1 DEF Referenced
<1>6. Range(call'.kept) \subseteq Referenced' /\ call'.fut \in Referenced'
    BY DEF Referenced
<1>7. FreeTasks \subseteq Tasks /\ FreeTasks \cap Queued = {} /\ FreeTasks \cap Referenced = {}
    BY DEF FreeTasks
<1> QED BY <1>1, <1>2, <1>3, <1>4, <1>5, <1>6, <1>7

LEMMA KeptTable ==
    ASSUME NEW table \in Tables, Kept(table)
    PROVE  /\ task' \in Tables
           /\ \A j \in Tasks : task'[j] = table[j] \/ task'[j] = Blank
           /\ \A j \in Tasks \cap (Queued' \cup Referenced') : task'[j] = table[j]
<1>1. Blank \in Entries /\ \A j \in Tasks : table[j] \in Entries
    BY ReadAheadAssumption DEF Tables, Entries, Blank, States, Kinds
<1> QED BY <1>1 DEF Kept, Tables

\* What a task is of does not change.
Same(j) == /\ task'[j].kind = task[j].kind /\ task'[j].ids = task[j].ids
           /\ task'[j].layer = task[j].layer
SameEnd(j) == Same(j) /\ (task'[j].st = "cancelled" => task[j].st = "cancelled")

\* Early reads stay those of their layers, whether some are given up or not.
LEMMA EarlyStay ==
    ASSUME Types, EarlyReads,
           \A l \in Layers : early'[l] \in {early[l], NoFuture},
           \A l \in Layers : early'[l] = early[l] => \A j \in Range(early[l]) : SameEnd(j)
    PROVE  EarlyReads'
<1> SUFFICES ASSUME NEW l \in Layers, NEW e \in DOMAIN early'[l]
             PROVE  ReadsEarly(early[l][e], e)' /\ task'[early'[l][e]].layer = l
    BY DEF EarlyReads
<1>1. early'[l] = early[l]
    BY NoFutures
<1>2. early[l] \in FutureMaps /\ e \in DOMAIN early[l]
    BY <1>1 DEF Types
<1>3. early[l][e] \in Range(early[l])
    BY <1>2, FutureMap
<1>4. SameEnd(early[l][e])
    BY <1>1, <1>3
<1> QED BY <1>1, <1>2, <1>4 DEF EarlyReads, ReadsEarly, SameEnd, Same

\* So does what a sweep waits for, while the call stays as it is.
LEMMA SweepStays ==
    ASSUME Types, SweepReads, call' = call,
           \A j \in Tasks : j \in Range(call.kept) \cup {call.fut} => SameEnd(j)
    PROVE  SweepReads'
<1>1. call \in Calls /\ call.kept \in FutureMaps /\ call.fut \in Tasks \cup {None}
    BY DEF Types, Calls
<1>2. ASSUME NEW e \in DOMAIN call.kept, ReadsEarly(call.kept[e], e)
      PROVE  ReadsEarly(call.kept[e], e)'
    <2>1. call.kept[e] \in Range(call.kept) /\ call.kept[e] \in Tasks
        BY <1>1, FutureMap
    <2>2. SameEnd(call.kept[e])
        BY <2>1
    <2> QED BY <1>2, <2>2 DEF ReadsEarly, SameEnd, Same
<1>3. ASSUME call.fut # None, ReadsOwn(call.fut, Needed)
      PROVE  ReadsOwn(call.fut, Needed)'
    <2>1. SameEnd(call.fut)
        BY <1>1, <1>3
    <2> QED BY <1>3, <2>1 DEF ReadsOwn, SameEnd, Same, Needed
<1> QED BY <1>2, <1>3 DEF SweepReads, Needed

\* The counts of reads begun stay counts.
LEMMA ReadsTyped ==
    ASSUME Types,
           \/ reads' = reads
           \/ \E l \in Layers : reads' = [reads EXCEPT ![l] = Unread]
           \/ \E j \in Tasks : ReadsBegun(j)
    PROVE  reads' \in [Layers -> [Experts -> Nat]]
<1>1. reads \in [Layers -> [Experts -> Nat]] /\ Unread \in [Experts -> Nat]
    BY DEF Types, Unread
<1>2. ASSUME NEW j \in Tasks, ReadsBegun(j) PROVE reads' \in [Layers -> [Experts -> Nat]]
    <2> DEFINE l == task[j].layer
               more == [e \in Experts |-> reads[l][e] + IF e \in task[j].ids THEN 1 ELSE 0]
    <2>1. reads' = [reads EXCEPT ![l] = more]
        BY <1>2 DEF ReadsBegun
    <2>2. l \in Layers => more \in [Experts -> Nat]
        BY <1>1
    <2> HIDE DEF more, l
    <2> QED BY <1>1, <2>1, <2>2
<1> QED BY <1>1, <1>2

-----------------------------------------------------------------------------
(* One lemma per action: each keeps the invariant.                         *)

LEMMA InitRInv ==
    ASSUME Init
    PROVE  RInv
<1>1. /\ 1 \in Layers /\ 0 \in 0 .. MaxRaises /\ Blank \in Entries
      /\ <<>> \in Seq(Tasks) /\ [l \in Layers |-> Unread] \in [Layers -> [Experts -> Nat]]
    BY ReadAheadAssumption, EmptySeq DEF Layers, Blank, Entries, States, Kinds, Unread
<1>2. NoCall \in Calls
    BY <1>1, NoFutures DEF NoCall, Calls
<1>3. Types
    BY <1>1, <1>2, NoFutures DEF Init, Types, Tables
<1>4. Range(<<>>) = {}
    BY DEF Range
<1>5. Queues
    BY <1>4 DEF Init, Queues, IsInjective
<1>6. EarlyReads
    BY NoFutures DEF Init, EarlyReads
<1>7. SweepReads
    BY DEF Init, SweepReads, NoCall
<1>8. Calm
    BY <1>4 DEF Init, Calm, NoCall, Blank
<1> QED BY <1>3, <1>5, <1>6, <1>7, <1>8 DEF RInv

\* The tasks of the queues are of the table, and whoever heads one is of no
\* other.
LEMMA QueueFacts ==
    ASSUME Types, Queues, NEW x \in Executors
    PROVE  /\ queue[x] \in Seq(Tasks) /\ IsInjective(queue[x]) /\ Range(queue[x]) \subseteq Tasks
           /\ \A j \in Range(queue[x]) : Waits(j, x) /\ j \in Tasks
           /\ queue[x] # <<>> => Head(queue[x]) \in Range(queue[x]) /\ Head(queue[x]) \in Tasks
           /\ \A y \in Executors : \A j \in Range(queue[x]) : j \in Range(queue[y]) => x = y
<1>1. queue[x] \in Seq(Tasks) /\ IsInjective(queue[x])
    BY DEF Types, Queues
<1>2. Range(queue[x]) \subseteq Tasks
    BY <1>1, RangeOfSeq
<1>3. queue[x] # <<>> => Head(queue[x]) \in Range(queue[x]) /\ Head(queue[x]) \in Tasks
    BY <1>1, QueueHead
<1> QED BY <1>1, <1>2, <1>3 DEF Queues

LEMMA StartKeeps ==
    ASSUME RInv, NEW x \in Executors, Start(x)
    PROVE  RInv'
<1> DEFINE h == Head(queue[x])
<1> USE DEF RInv
<1>1. /\ queue[x] # <<>> /\ task[h].st = "queued" /\ h \in Tasks /\ h \in Range(queue[x])
      /\ task' = [task EXCEPT ![h].st = "running"]
      /\ ReadsBegun(h) /\ UNCHANGED <<queue, early, pf, at, call, raises>>
    BY QueueFacts DEF Start
<1> HIDE DEF h
<1>2. \A j \in Tasks : task[j] \in Entries
    BY DEF Types, Tables
<1>3. task' \in Tables
    <2>1. [task[h] EXCEPT !.st = "running"] \in Entries
        BY <1>1, <1>2 DEF Entries, States
    <2> QED BY <2>1, <1>1 DEF Types, Tables
<1>4. \A j \in Tasks : /\ SameEnd(j) /\ (j # h => task'[j].st = task[j].st)
                       /\ task'[h].st = "running"
    BY <1>1, <1>2 DEF SameEnd, Same, Entries, Types, Tables
<1>5. Types'
    BY <1>1, <1>3, ReadsTyped DEF Types
<1>6. Queues'
    <2>1. ASSUME NEW y \in Executors, NEW j \in Range(queue[y]) PROVE Waits(j, y)'
        <3>1. /\ Waits(j, y) /\ j \in Tasks
              /\ \A z \in Executors : j \in Range(queue[z]) => y = z
            BY QueueFacts
        <3>2. j = h => y = x
            BY <1>1, <3>1
        <3>3. CASE j = h
            BY <1>1, <1>4, <3>1, <3>2, <3>3 DEF Waits, SameEnd, Same, h
        <3>4. CASE j # h
            BY <1>1, <1>4, <3>1, <3>4 DEF Waits, SameEnd, Same
        <3> QED BY <3>3, <3>4
    <2> QED BY <2>1, <1>1 DEF Queues
<1>7. EarlyReads'
    <2>1. \A l \in Layers : Range(early[l]) \subseteq Tasks
        BY FutureMap DEF Types
    <2> QED BY <1>1, <1>4, <2>1, EarlyStay
<1>8. SweepReads'
    BY <1>1, <1>4, SweepStays
<1>9. Calm'
    <2> SUFFICES ASSUME raises = 0 PROVE Calm'
        BY <1>1 DEF Calm
    <2>1. \A j \in Tasks : task'[j].st # "raised"
        BY <1>1, <1>4 DEF Calm
    <2>2. ASSUME call.op = "sweep", NEW e \in DOMAIN call.kept,
                 BatchOf(call.routed, e) < call.batch
          PROVE  task'[call.kept[e]].st = "done"
        <3>1. task[call.kept[e]].st = "done"
            BY <2>2 DEF Calm
        <3>2. call.kept[e] \in Tasks
            BY FutureMap DEF Types, Calls
        <3> QED BY <1>1, <1>4, <3>1, <3>2
    <2>3. ASSUME NEW y \in Executors, NEW j \in Range(queue[y]),
                 task'[j].kind = "early", task'[j].st = "queued"
          PROVE  j \in EarlyHeld
        <3>1. j \in Tasks /\ j # h
            BY <1>1, <1>4, <2>3, QueueFacts
        <3> QED BY <1>1, <1>4, <2>3, <3>1 DEF Calm, SameEnd, Same
    <2>4. EarlyHeld' = EarlyHeld
        BY <1>1 DEF EarlyHeld
    <2> QED BY <1>1, <2>1, <2>2, <2>3, <2>4 DEF Calm
<1> QED BY <1>5, <1>6, <1>7, <1>8, <1>9

\* A table with the state of one task changed.
LEMMA TableExcept ==
    ASSUME Types, NEW h \in Tasks, NEW st \in States, NEW table,
           table = [task EXCEPT ![h].st = st]
    PROVE  /\ table \in Tables
           /\ \A j \in Tasks : /\ table[j].kind = task[j].kind /\ table[j].ids = task[j].ids
                               /\ table[j].layer = task[j].layer
                               /\ j # h => table[j] = task[j]
           /\ table[h].st = st
<1>1. task \in Tables /\ \A j \in Tasks : task[j] \in Entries
    BY DEF Types, Tables
<1>2. [task[h] EXCEPT !.st = st] \in Entries
    BY <1>1 DEF Entries
<1>3. table \in Tables
    BY <1>1, <1>2 DEF Tables
<1> QED BY <1>1, <1>3 DEF Tables, Entries

LEMMA FinishKeeps ==
    ASSUME RInv, NEW x \in Executors, Finish(x)
    PROVE  RInv'
<1> DEFINE h == Head(queue[x])
<1> USE DEF RInv
<1>1. /\ queue[x] # <<>> /\ task[h].st = "running" /\ h \in Tasks /\ h \in Range(queue[x])
      /\ queue' = [queue EXCEPT ![x] = Tail(@)] /\ UNCHANGED <<early, pf, at, call, reads>>
    BY QueueFacts DEF Finish, Running
<1>2. PICK st \in {"done", "raised"} :
         /\ Kept([task EXCEPT ![h].st = st]) /\ raises' \in 0 .. MaxRaises
         /\ raises' = 0 => raises = 0 /\ st = "done"
    <2>1. raises \in 0 .. MaxRaises /\ MaxRaises \in Nat
        BY ReadAheadAssumption DEF Types
    <2>2. CASE Kept([task EXCEPT ![h].st = "done"]) /\ UNCHANGED raises
        BY <2>1, <2>2
    <2>3. CASE /\ raises < MaxRaises /\ raises' = raises + 1
               /\ Kept([task EXCEPT ![h].st = "raised"])
        <3>1. raises' \in 0 .. MaxRaises /\ raises' # 0
            BY <2>1, <2>3
        <3> QED BY <3>1, <2>3
    <2> QED BY <2>2, <2>3 DEF Finish
<1> DEFINE table == [task EXCEPT ![h].st = st]
<1>3. /\ table \in Tables /\ table[h].st = st
      /\ \A j \in Tasks : /\ table[j].kind = task[j].kind /\ table[j].ids = task[j].ids
                          /\ table[j].layer = task[j].layer /\ (j # h => table[j] = task[j])
    BY <1>1, TableExcept DEF States
<1>4. Kept(table)
    BY <1>2
<1> HIDE DEF h, table
<1>5. /\ task' \in Tables /\ \A j \in Tasks : task'[j] = table[j] \/ task'[j] = Blank
      /\ \A j \in Tasks \cap (Queued' \cup Referenced') : task'[j] = table[j]
    BY <1>3, <1>4, KeptTable
<1>6. queue \in [Executors -> Seq(Tasks)]
    BY DEF Types
<1>7. /\ queue[x] \in Seq(Tasks) /\ IsInjective(queue[x])
      /\ Tail(queue[x]) \in Seq(Tasks) /\ IsInjective(Tail(queue[x]))
      /\ Range(Tail(queue[x])) = Range(queue[x]) \ {h}
    BY <1>1, QueueFacts, QueueHead DEF h
<1>8. \A y \in Executors : /\ queue[y] \in Seq(Tasks) /\ IsInjective(queue[y])
                           /\ Range(queue[y]) \subseteq Tasks
                           /\ y # x => Range(queue[x]) \cap Range(queue[y]) = {}
    BY QueueFacts DEF Queues
<1>9. \A y \in Executors : /\ queue'[y] \in Seq(Tasks) /\ IsInjective(queue'[y])
                           /\ Range(queue'[y]) = Range(queue[y]) \ {h}
                           /\ y # x => queue'[y] = queue[y]
    BY <1>1, <1>6, <1>7, <1>8
<1>10. \A j \in Tasks : j \in Range(call.kept) \cup {call.fut} => task'[j] = table[j]
    BY <1>1, <1>5, HeldTasks
<1>11. \A l \in Layers : \A j \in Range(early[l]) : task'[j] = table[j] /\ j \in Tasks
    <2>1. \A l \in Layers : Range(early[l]) \subseteq Tasks
        BY FutureMap DEF Types
    <2> QED BY <2>1, <1>1, <1>5, HeldTasks
<1>12. \A y \in Executors : \A j \in Range(queue'[y]) :
          j \in Tasks /\ j # h /\ task'[j] = task[j]
    BY <1>3, <1>5, <1>8, <1>9, HeldTasks
<1>13. \A j \in Tasks : task'[j] = table[j] => SameEnd(j)
    BY <1>2, <1>3 DEF SameEnd, Same
<1>14. Types'
    <2>1. queue' \in [Executors -> Seq(Tasks)]
        BY <1>1, <1>6, <1>7
    <2> QED BY <1>1, <1>2, <1>5, <2>1 DEF Types
<1>15. Queues'
    <2>1. ASSUME NEW y \in Executors, NEW j \in Range(queue'[y]) PROVE Waits(j, y)'
        <3>1. j \in Range(queue[y]) /\ task'[j] = task[j] /\ j # h
            BY <1>9, <1>12
        <3>2. Waits(j, y)
            BY <3>1 DEF Queues
        <3>3. y = x => task[j].st # "running"
            BY <3>1, <3>2 DEF Waits, h
        <3> QED BY <1>9, <3>1, <3>2, <3>3 DEF Waits
    <2>2. \A y, z \in Executors : y # z => Range(queue'[y]) \cap Range(queue'[z]) = {}
        BY <1>9 DEF Queues
    <2> QED BY <1>9, <2>1, <2>2 DEF Queues
<1>16. EarlyReads'
    BY <1>1, <1>11, <1>13, EarlyStay
<1>17. SweepReads'
    BY <1>1, <1>10, <1>13, SweepStays
<1>18. Calm'
    <2> SUFFICES ASSUME raises' = 0 PROVE Calm'
        BY DEF Calm
    <2>1. raises = 0 /\ st = "done"
        BY <1>2
    <2>2. \A j \in Tasks : task'[j].st # "raised"
        BY <1>3, <1>5, <2>1 DEF Calm, Blank
    <2>3. ASSUME call.op = "sweep", NEW e \in DOMAIN call.kept,
                 BatchOf(call.routed, e) < call.batch
          PROVE  task'[call.kept[e]].st = "done"
        <3>1. task[call.kept[e]].st = "done"
            BY <2>1, <2>3 DEF Calm
        <3>2. call.kept[e] \in Tasks /\ call.kept[e] \in Range(call.kept)
            BY FutureMap DEF Types, Calls
        <3>3. task'[call.kept[e]] = table[call.kept[e]]
            BY <1>10, <3>2
        <3> QED BY <1>1, <1>3, <3>1, <3>2, <3>3
    <2>4. ASSUME NEW y \in Executors, NEW j \in Range(queue'[y]),
                 task'[j].kind = "early", task'[j].st = "queued"
          PROVE  j \in EarlyHeld
        BY <1>9, <1>12, <2>1, <2>4 DEF Calm
    <2>5. EarlyHeld' = EarlyHeld
        BY <1>1 DEF EarlyHeld
    <2> QED BY <1>1, <2>2, <2>3, <2>4, <2>5 DEF Calm
<1> QED BY <1>14, <1>15, <1>16, <1>17, <1>18

\* A step in which new tasks join a queue and others may leave theirs.
Moved(x, new) ==
    /\ queue' \in [Executors -> Seq(Tasks)] /\ new \subseteq FreeTasks
    /\ \A y \in Executors :
        /\ IsInjective(queue'[y])
        /\ Range(queue'[y]) \subseteq Range(queue[y]) \cup (IF y = x THEN new ELSE {})
        /\ queue[y] # <<>> /\ Head(queue[y]) \in Range(queue'[y])
              => Head(queue'[y]) = Head(queue[y])
        /\ \A j \in Range(queue'[y]) \ new : task'[j] = task[j]
    /\ \A j \in new : task'[j].st = "queued" /\ (x # 0 => task'[j].kind = "own")

LEMMA QueuesMoved ==
    ASSUME Types, Queues, NEW x \in Executors, NEW new, Moved(x, new)
    PROVE  Queues'
<1>1. \A y \in Executors : Range(queue[y]) \cap new = {} /\ queue'[y] \in Seq(Tasks)
    BY HeldTasks DEF Moved
<1>2. \A y \in Executors : /\ IsInjective(queue'[y])
                           /\ Range(queue'[y]) \subseteq Range(queue[y]) \cup (IF y = x THEN new ELSE {})
    BY DEF Moved
<1>3. \A y, z \in Executors : y # z => Range(queue'[y]) \cap Range(queue'[z]) = {}
    BY <1>1, <1>2 DEF Queues
<1>4. ASSUME NEW y \in Executors, NEW j \in Range(queue'[y]) PROVE Waits(j, y)'
    <2>1. CASE j \in new
        <3>1. y = x /\ task'[j].st = "queued" /\ (x # 0 => task'[j].kind = "own")
            BY <1>1, <1>2, <2>1 DEF Moved
        <3> QED BY <3>1 DEF Waits
    <2>2. CASE j \notin new
        <3>1. j \in Range(queue[y]) /\ task'[j] = task[j]
            BY <1>2, <2>2 DEF Moved
        <3>2. Waits(j, y)
            BY <3>1 DEF Queues
        <3>3. queue[y] # <<>>
            <4>1. queue[y] \in Seq(Tasks)
                BY DEF Types
            <4> QED BY <3>1 DEF Range
        <3>4. task[j].st = "running" => j = Head(queue'[y])
            BY <3>1, <3>2, <3>3 DEF Waits, Moved
        <3> QED BY <3>1, <3>2, <3>4 DEF Waits
    <2> QED BY <2>1, <2>2
<1> QED BY <1>2, <1>3, <1>4 DEF Queues

\* The tasks r of a kind are put into the queue x; the rest of the table stays.
Puts(x, r, table, kind) ==
    /\ r \in Seq(FreeTasks) /\ IsInjective(r) /\ queue' = [queue EXCEPT ![x] = @ \o r]
    /\ table \in Tables /\ Kept(table)
    /\ \A j \in Tasks \ Range(r) : table[j] = task[j]
    /\ \A j \in Range(r) : table[j].st = "queued" /\ table[j].kind = kind

LEMMA Submitting ==
    ASSUME Types, Queues, NEW x \in Executors, NEW r, NEW table, NEW kind,
           Puts(x, r, table, kind), x # 0 => kind = "own"
    PROVE  /\ Moved(x, Range(r)) /\ Range(r) \subseteq FreeTasks /\ task' \in Tables
           /\ \A y \in Executors :
                 Range(queue'[y]) = Range(queue[y]) \cup (IF y = x THEN Range(r) ELSE {})
           /\ \A j \in Tasks : /\ task'[j] = table[j] \/ task'[j] = Blank
                               /\ j \in Queued' \cup Referenced' => task'[j] = table[j]
           /\ \A j \in Range(r) : j \in Tasks /\ task'[j] = table[j]
<1>0. /\ r \in Seq(FreeTasks) /\ IsInjective(r) /\ queue' = [queue EXCEPT ![x] = @ \o r]
      /\ table \in Tables /\ Kept(table)
      /\ \A j \in Tasks \ Range(r) : table[j] = task[j]
      /\ \A j \in Range(r) : table[j].st = "queued" /\ (x # 0 => table[j].kind = "own")
    BY DEF Puts
<1>1. Range(r) \subseteq FreeTasks /\ FreeTasks \subseteq Tasks
    BY <1>0, RangeOfSeq, HeldTasks
<1>2. r \in Seq(Tasks)
    <2>1. \A i \in 1 .. Len(r) : r[i] \in Tasks
        BY <1>0, <1>1, ElementOfSeq
    <2>2. Len(r) \in Nat /\ r \in [1 .. Len(r) -> Tasks]
        BY <1>0, <2>1, LenProperties
    <2> QED BY <2>2
<1>3. \A y \in Executors : /\ queue[y] \in Seq(Tasks) /\ IsInjective(queue[y])
                           /\ Range(queue[y]) \cap Range(r) = {} /\ Range(queue[y]) \subseteq Tasks
    BY <1>1, QueueFacts, HeldTasks
<1>4. /\ queue[x] \o r \in Seq(Tasks) /\ IsInjective(queue[x] \o r)
      /\ Range(queue[x] \o r) = Range(queue[x]) \cup Range(r)
      /\ queue[x] # <<>> => Head(queue[x] \o r) = Head(queue[x])
    BY <1>0, <1>2, <1>3, WithMore
<1>5. /\ queue' \in [Executors -> Seq(Tasks)]
      /\ \A y \in Executors : queue'[y] = IF y = x THEN queue[x] \o r ELSE queue[y]
    BY <1>0, <1>4 DEF Types
<1>6. \A y \in Executors :
         Range(queue'[y]) = Range(queue[y]) \cup (IF y = x THEN Range(r) ELSE {})
    BY <1>4, <1>5
<1>7. /\ task' \in Tables
      /\ \A j \in Tasks : /\ task'[j] = table[j] \/ task'[j] = Blank
                          /\ j \in Queued' \cup Referenced' => task'[j] = table[j]
    BY <1>0, KeptTable
<1>8. \A y \in Executors : \A j \in Range(queue'[y]) : j \in Tasks /\ j \in Queued'
    BY <1>1, <1>3, <1>6, HeldTasks
<1>9. \A j \in Range(r) : j \in Tasks /\ task'[j] = table[j]
    BY <1>6, <1>7, <1>8
<1>10. \A y \in Executors : \A j \in Range(queue'[y]) \ Range(r) : task'[j] = task[j]
    BY <1>0, <1>7, <1>8
<1>11. \A y \in Executors : IsInjective(queue'[y]) /\ (queue[y] # <<>> => Head(queue'[y]) = Head(queue[y]))
    BY <1>3, <1>4, <1>5
<1>12. Moved(x, Range(r))
    BY <1>1, <1>5, <1>6, <1>9, <1>10, <1>11, <1>0 DEF Moved
<1> QED BY <1>1, <1>6, <1>7, <1>9, <1>12

LEMMA PutsNone ==
    ASSUME Types, UNCHANGED queue, Kept(task), NEW x \in Executors, NEW kind
    PROVE  Puts(x, <<>>, task, kind)
<1> DEFINE r == <<>>
<1>1. r \in Seq(FreeTasks) /\ r \in Seq(Tasks) /\ Range(r) = {} /\ IsInjective(r)
    BY EmptySeq DEF Range, IsInjective
<1>2. queue[x] \in Seq(Tasks) /\ queue \in [Executors -> Seq(Tasks)] /\ task \in Tables
    BY DEF Types
<1>3. queue[x] \o r = queue[x]
    BY <1>2, ConcatEmptySeq
<1> HIDE DEF r
<1>4. queue' = [queue EXCEPT ![x] = @ \o r]
    BY <1>2, <1>3
<1>5. Puts(x, r, task, kind)
    BY <1>1, <1>2, <1>4 DEF Puts
<1> QED BY <1>5 DEF r

LEMMA PutsOne ==
    ASSUME Types, NEW x \in Executors, NEW kind, NEW entry \in Entries,
           entry.st = "queued", entry.kind = kind, NEW f \in FreeTasks,
           queue' = [queue EXCEPT ![x] = Append(@, f)], Kept([task EXCEPT ![f] = entry])
    PROVE  Puts(x, <<f>>, [task EXCEPT ![f] = entry], kind)
<1> DEFINE r == <<f>>
           table == [task EXCEPT ![f] = entry]
<1>1. r \in Seq(FreeTasks) /\ Range(r) = {f} /\ IsInjective(r) /\ f \in Tasks
    BY HeldTasks DEF Range, IsInjective
<1>2. queue[x] \in Seq(Tasks) /\ queue \in [Executors -> Seq(Tasks)] /\ task \in Tables
    BY DEF Types
<1>3. Append(queue[x], f) = queue[x] \o r
    BY <1>1, <1>2, AppendIsConcat
<1>4. /\ table \in Tables /\ \A j \in Tasks \ {f} : table[j] = task[j]
      /\ table[f] = entry
    BY <1>1, <1>2 DEF Tables
<1>5. Kept(table)
    OBVIOUS
<1> HIDE DEF r, table
<1>6. queue' = [queue EXCEPT ![x] = @ \o r]
    BY <1>2, <1>3
<1>7. Puts(x, r, table, kind)
    BY <1>1, <1>4, <1>5, <1>6 DEF Puts
<1> QED BY <1>7 DEF r, table

\* A host that passes or leaves changes nothing of what is read.
LEMMA HostKeeps ==
    ASSUME RInv, StreamCall \/ Leave
    PROVE  RInv'
<1> USE DEF RInv
<1>1. /\ UNCHANGED <<task, queue, early, pf, raises, reads>> /\ at' \in Layers
      /\ call' \in Calls /\ call'.op # "sweep" /\ call'.kept = call.kept /\ call.op = "none"
    <2>1. CASE StreamCall
        BY <2>1, ReadAheadAssumption DEF StreamCall, AfterLayer, Layers, Types
    <2>2. CASE Leave
        BY <2>2 DEF Leave, Types, Calls
    <2> QED BY <2>1, <2>2
<1>2. Types'
    BY <1>1 DEF Types
<1>3. Queues'
    BY <1>1 DEF Queues, Waits
<1>4. EarlyReads'
    BY <1>1 DEF EarlyReads, ReadsEarly
<1>5. SweepReads'
    BY <1>1 DEF SweepReads
<1>6. Calm'
    <2>1. EarlyHeld' = EarlyHeld
        BY <1>1 DEF EarlyHeld
    <2> QED BY <1>1, <2>1 DEF Calm
<1> QED BY <1>2, <1>3, <1>4, <1>5, <1>6

LEMMA EarlyTasks ==
    ASSUME Types
    PROVE  /\ \A l \in Layers : early[l] \in FutureMaps /\ Range(early[l]) \subseteq Tasks
           /\ call.kept \in FutureMaps /\ Range(call.kept) \subseteq Tasks
           /\ \A l \in Layers : \A e \in DOMAIN early[l] : early[l][e] \in Range(early[l])
           /\ \A e \in DOMAIN call.kept : call.kept[e] \in Range(call.kept)
           /\ call.fut \in Tasks \cup {None} /\ call.batch \in Nat /\ call.routed \in SUBSET Experts
<1>1. \A l \in Layers : early[l] \in FutureMaps
    BY DEF Types
<1>2. call \in Calls /\ call.kept \in FutureMaps
    BY DEF Types, Calls
<1>3. /\ \A l \in Layers : Range(early[l]) \subseteq Tasks
      /\ \A l \in Layers : \A e \in DOMAIN early[l] : early[l][e] \in Range(early[l])
    BY <1>1, FutureMap
<1>4. /\ Range(call.kept) \subseteq Tasks
      /\ \A e \in DOMAIN call.kept : call.kept[e] \in Range(call.kept)
    BY <1>2, FutureMap
<1> QED BY <1>1, <1>2, <1>3, <1>4 DEF Calls

\* What a batch waits for raises only if a read has raised: no one cancels it.
LEMMA BatchTasks ==
    ASSUME RInv, call.op = "sweep", NEW j \in BatchFutures
    PROVE  /\ j \in Tasks /\ j \in Range(call.kept) \cup {call.fut}
           /\ task[j].st # "cancelled" /\ (raises = 0 => task[j].st # "raised")
<1> USE DEF RInv
<1>1. CASE \E e \in DOMAIN call.kept : j = call.kept[e]
    <2>1. PICK e \in DOMAIN call.kept : j = call.kept[e]
        BY <1>1
    <2>2. j \in Range(call.kept) /\ j \in Tasks
        BY <2>1, EarlyTasks
    <2> QED BY <2>1, <2>2 DEF SweepReads, ReadsEarly, Calm
<1>2. CASE j = call.fut /\ j # None
    <2>1. j \in Tasks
        BY <1>2, EarlyTasks
    <2> QED BY <1>2, <2>1 DEF SweepReads, ReadsOwn, Calm
<1> QED BY <1>1, <1>2 DEF BatchFutures

LEMMA SweepRaisesKeeps ==
    ASSUME RInv, SweepRaises
    PROVE  RInv'
<1> USE DEF RInv
<1>1. /\ call.op = "sweep" /\ call' = NoCall /\ at' = 1 /\ reads' = [reads EXCEPT ![at] = Unread]
      /\ UNCHANGED <<queue, early, pf, raises>> /\ Kept(task)
    BY DEF SweepRaises
<1>2. raises # 0
    <2>1. PICK j \in BatchFutures : task[j].st \in {"raised", "cancelled"}
        BY DEF SweepRaises
    <2> QED BY <1>1, <2>1, BatchTasks
<1>3. /\ Queues' /\ task' \in Tables
      /\ \A j \in Tasks : j \in Queued' \cup Referenced' => task'[j] = task[j]
    <2>1. Puts(0, <<>>, task, "own") /\ 0 \in Executors
        BY <1>1, PutsNone DEF Executors
    <2>2. Moved(0, Range(<<>>)) /\ task' \in Tables
        BY <2>1, Submitting
    <2>3. \A j \in Tasks : j \in Queued' \cup Referenced' => task'[j] = task[j]
        BY <2>1, Submitting
    <2> QED BY <2>1, <2>2, <2>3, QueuesMoved
<1>4. Types'
    <2>1. 1 \in Layers /\ NoCall \in Calls
        BY ReadAheadAssumption, NoFutures DEF Layers, NoCall, Calls
    <2>2. reads' \in [Layers -> [Experts -> Nat]]
        BY <1>1, ReadsTyped DEF Types
    <2> QED BY <1>1, <1>3, <2>1, <2>2 DEF Types
<1>5. EarlyReads'
    <2>1. \A l \in Layers : \A j \in Range(early[l]) : SameEnd(j)
        BY <1>1, <1>3, EarlyTasks, HeldTasks DEF SameEnd, Same
    <2> QED BY <1>1, <2>1, EarlyStay
<1>6. SweepReads' /\ Calm'
    BY <1>1, <1>2 DEF SweepReads, Calm, NoCall
<1> QED BY <1>3, <1>4, <1>5, <1>6

LEMMA DecodeDoneKeeps ==
    ASSUME RInv, DecodeDone
    PROVE  RInv'
<1> USE DEF RInv
<1>1. /\ call.op = "decode" /\ call' = NoCall /\ UNCHANGED <<early, raises, reads>>
      /\ at' \in Layers /\ (at < NLayers => at + 1 \in Layers)
    BY ReadAheadAssumption DEF DecodeDone, AfterLayer, Types, Layers
<1>2. \E r, table : Puts(0, r, table, "prefetch") /\ pf' \in [Layers -> Tasks \cup {None}]
    <2>1. pf \in [Layers -> Tasks \cup {None}] /\ 0 \in Executors
        BY DEF Types, Executors
    <2>2. CASE UNCHANGED <<queue, pf>> /\ Kept(task)
        BY <2>1, <2>2, PutsNone
    <2>3. CASE /\ at < NLayers /\ pf' = [pf EXCEPT ![at + 1] = None]
               /\ UNCHANGED queue /\ Kept(task)
        <3>1. Puts(0, <<>>, task, "prefetch")
            BY <2>1, <2>3, PutsNone
        <3>2. pf' \in [Layers -> Tasks \cup {None}]
            BY <1>1, <2>1, <2>3
        <3> QED BY <3>1, <3>2
    <2>4. CASE /\ at < NLayers /\ Room(1) /\ pf' = [pf EXCEPT ![at + 1] = Fresh(1)[1]]
               /\ queue' = [queue EXCEPT ![0] = Append(@, Fresh(1)[1])]
               /\ Kept([task EXCEPT ![Fresh(1)[1]] = Submitted("prefetch", at + 1, {})])
        <3> DEFINE f == Fresh(1)[1]
                   entry == Submitted("prefetch", at + 1, {})
        <3>1. f \in FreeTasks /\ f \in Tasks
            BY <2>4, FreshFutures, HeldTasks
        <3>2. entry \in Entries /\ entry.st = "queued" /\ entry.kind = "prefetch"
            BY <1>1, <2>4, ReadAheadAssumption DEF Submitted, Entries, States, Kinds, Layers
        <3>3. /\ queue' = [queue EXCEPT ![0] = Append(@, f)]
              /\ Kept([task EXCEPT ![f] = entry]) /\ pf' = [pf EXCEPT ![at + 1] = f]
            BY <2>4
        <3> HIDE DEF f, entry
        <3>4. Puts(0, <<f>>, [task EXCEPT ![f] = entry], "prefetch")
            BY <2>1, <3>1, <3>2, <3>3, PutsOne
        <3>5. pf' \in [Layers -> Tasks \cup {None}]
            BY <1>1, <2>1, <2>4, <3>1, <3>3
        <3> QED BY <3>4, <3>5
    <2> QED BY <2>2, <2>3, <2>4 DEF DecodeDone
<1>3. PICK r, table : Puts(0, r, table, "prefetch") /\ pf' \in [Layers -> Tasks \cup {None}]
    BY <1>2
<1>31. /\ \A j \in Tasks \ Range(r) : table[j] = task[j]
       /\ \A j \in Range(r) : table[j].st = "queued" /\ table[j].kind = "prefetch"
    BY <1>3 DEF Puts
<1>4. /\ Moved(0, Range(r)) /\ task' \in Tables
      /\ \A y \in Executors :
            Range(queue'[y]) = Range(queue[y]) \cup (IF y = 0 THEN Range(r) ELSE {})
      /\ \A j \in Tasks : /\ task'[j] = table[j] \/ task'[j] = Blank
                          /\ j \in Queued' \cup Referenced' => task'[j] = table[j]
      /\ Range(r) \subseteq FreeTasks /\ \A j \in Range(r) : j \in Tasks /\ task'[j] = table[j]
    BY <1>3, Submitting DEF Executors
<1>5. Queues'
    BY <1>4, QueuesMoved DEF Executors
<1>6. Types'
    <2>1. NoCall \in Calls
        BY ReadAheadAssumption, NoFutures DEF NoCall, Calls
    <2> QED BY <1>1, <1>3, <1>4, <2>1 DEF Types, Moved
<1>7. EarlyReads'
    <2>1. ASSUME NEW l \in Layers, NEW j \in Range(early[l]) PROVE SameEnd(j)
        <3>1. j \in Tasks /\ j \in Referenced /\ j \in Referenced'
            BY <1>1, EarlyTasks, HeldTasks
        <3>2. j \notin Range(r)
            BY <1>4, <3>1, HeldTasks
        <3> QED BY <1>31, <1>4, <3>1, <3>2 DEF SameEnd, Same
    <2> QED BY <1>1, <2>1, EarlyStay
<1>8. SweepReads'
    BY <1>1 DEF SweepReads, NoCall
<1>9. Calm'
    <2> SUFFICES ASSUME raises = 0 PROVE Calm'
        BY <1>1 DEF Calm
    <2>1. \A j \in Tasks : task'[j].st # "raised"
        BY <1>31, <1>4 DEF Calm, Blank
    <2>2. EarlyHeld' = EarlyHeld
        BY <1>1 DEF EarlyHeld, SweepReads, NoCall
    <2>3. ASSUME NEW y \in Executors, NEW j \in Range(queue'[y]),
                 task'[j].kind = "early", task'[j].st = "queued"
          PROVE  j \in EarlyHeld
        <3>1. j \notin Range(r)
            BY <1>31, <1>4, <2>3
        <3>2. j \in Range(queue[y]) /\ task'[j] = task[j]
            BY <1>4, <3>1 DEF Moved
        <3> QED BY <2>3, <3>2 DEF Calm
    <2> QED BY <1>1, <2>1, <2>2, <2>3 DEF Calm, NoCall
<1> QED BY <1>5, <1>6, <1>7, <1>8, <1>9

\* What a batch still needs is put into the layer's queue, as a new task.
ReadsBatch(fut, r, table) ==
    LET i == call.batch + 1
        need == Need(Batch(call.routed, i), call.kept)
    IN  /\ Puts(at, r, table, "own")
        /\ call' = [call EXCEPT !.batch = i, !.fut = fut]
        /\ fut \in FreeTasks \cup {None} /\ (fut = None <=> need = {})
        /\ fut # None => fut \in Range(r)
        /\ \A j \in Range(r) : j = fut /\ table[j] = Submitted("own", at, need)

LEMMA NextBatchReads ==
    ASSUME RInv, NextBatch
    PROVE  \E fut, r, table : ReadsBatch(fut, r, table)
<1> USE DEF RInv
<1> DEFINE i == call.batch + 1
           need == Need(Batch(call.routed, i), call.kept)
           fut == IF need = {} THEN None ELSE Fresh(1)[1]
<1>1. /\ call' = [call EXCEPT !.batch = i, !.fut = fut] /\ (need # {} => Room(1))
      /\ queue' = [queue EXCEPT ![at] = IF fut = None THEN @ ELSE Append(@, fut)]
      /\ Kept(IF fut = None THEN task ELSE [task EXCEPT ![fut] = Submitted("own", at, need)])
    BY DEF NextBatch
<1>2. /\ at \in Executors /\ at \in 0 .. NLayers
      /\ queue \in [Executors -> Seq(Tasks)] /\ need \in SUBSET Experts
    BY ReadAheadAssumption DEF Types, Executors, Layers, Need, Batch, Calls
<1>3. /\ need # {} => fut \in FreeTasks /\ fut \in Tasks /\ fut # None
      /\ need = {} => fut = None
    BY <1>1, FreshFutures, HeldTasks DEF Tasks, None
<1> HIDE DEF need, fut
<1>4. CASE need = {}
    <2>1. UNCHANGED queue /\ Kept(task)
        BY <1>1, <1>2, <1>3, <1>4
    <2>2. Puts(at, <<>>, task, "own") /\ Range(<<>>) = {}
        BY <1>2, <2>1, PutsNone DEF Range
    <2>3. ReadsBatch(fut, <<>>, task)
        BY <1>1, <1>3, <1>4, <2>2 DEF ReadsBatch, need
    <2> QED BY <2>3
<1>5. CASE need # {}
    <2> DEFINE entry == Submitted("own", at, need)
    <2>1. entry \in Entries /\ entry.st = "queued" /\ entry.kind = "own"
        BY <1>2 DEF Submitted, Entries, States, Kinds
    <2>2. /\ queue' = [queue EXCEPT ![at] = Append(@, fut)]
          /\ Kept([task EXCEPT ![fut] = entry])
        BY <1>1, <1>3, <1>5
    <2> HIDE DEF entry
    <2>3. Puts(at, <<fut>>, [task EXCEPT ![fut] = entry], "own")
        BY <1>2, <1>3, <1>5, <2>1, <2>2, PutsOne
    <2>4. Range(<<fut>>) = {fut} /\ [task EXCEPT ![fut] = entry][fut] = entry
        BY <1>3, <1>5 DEF Range, Types, Tables
    <2>5. ReadsBatch(fut, <<fut>>, [task EXCEPT ![fut] = entry])
        BY <1>1, <1>3, <1>5, <2>3, <2>4 DEF ReadsBatch, need, entry
    <2> QED BY <2>5
<1> QED BY <1>4, <1>5

LEMMA NextBatchKeeps ==
    ASSUME RInv, NextBatch
    PROVE  RInv'
<1> USE DEF RInv
<1> DEFINE i == call.batch + 1
           need == Need(Batch(call.routed, i), call.kept)
<1>1. /\ call.op = "sweep" /\ \A j \in BatchFutures : task[j].st = "done"
      /\ UNCHANGED <<early, pf, at, raises, reads>>
    BY DEF NextBatch, Ready
<1>2. /\ at \in Layers /\ at \in Executors /\ at # 0
    BY ReadAheadAssumption DEF Types, Executors, Layers
<1>4. PICK fut, r, table : ReadsBatch(fut, r, table)
    BY NextBatchReads
<1>5. /\ Puts(at, r, table, "own") /\ call' = [call EXCEPT !.batch = i, !.fut = fut]
      /\ fut \in FreeTasks \cup {None} /\ (fut = None <=> need = {})
      /\ need # {} => fut \in Range(r) /\ table[fut] = Submitted("own", at, need)
    BY <1>4 DEF ReadsBatch
<1>3. /\ need # {} => fut \in FreeTasks /\ fut \in Tasks /\ fut # None
      /\ need = {} => fut = None
    BY <1>5, HeldTasks DEF Tasks, None
<1> HIDE DEF need
<1>6. /\ \A j \in Tasks \ Range(r) : table[j] = task[j]
      /\ \A j \in Range(r) : table[j].st = "queued" /\ table[j].kind = "own"
    BY <1>5 DEF Puts
<1>7. /\ Moved(at, Range(r)) /\ task' \in Tables
      /\ \A y \in Executors :
            Range(queue'[y]) = Range(queue[y]) \cup (IF y = at THEN Range(r) ELSE {})
      /\ \A j \in Tasks : /\ task'[j] = table[j] \/ task'[j] = Blank
                          /\ j \in Queued' \cup Referenced' => task'[j] = table[j]
      /\ Range(r) \subseteq FreeTasks /\ \A j \in Range(r) : j \in Tasks /\ task'[j] = table[j]
    BY <1>2, <1>5, Submitting
<1>8. Queues'
    BY <1>2, <1>7, QueuesMoved
<1>9. /\ call \in Calls /\ call' \in Calls /\ call'.op = "sweep" /\ call'.kept = call.kept
      /\ call'.routed = call.routed /\ call'.batch = i /\ call'.fut = fut
      /\ i \in Nat /\ call.batch \in Nat
    <2>1. call \in Calls
        BY DEF Types
    <2>2. i \in Nat /\ call.batch \in Nat
        BY <2>1 DEF Calls
    <2>4. fut \in Tasks \cup {None}
        BY <1>3
    <2> QED BY <1>1, <1>5, <2>1, <2>2, <2>4 DEF Calls
<1>10. Types'
    BY <1>1, <1>7, <1>9 DEF Types, Moved
<1>11. \A l \in Layers : \A j \in Range(early[l]) : task'[j] = task[j]
    <2>1. ASSUME NEW l \in Layers, NEW j \in Range(early[l]) PROVE task'[j] = task[j]
        <3>1. j \in Tasks /\ j \in Referenced /\ j \in Referenced'
            BY <1>1, EarlyTasks, HeldTasks
        <3>2. j \notin Range(r)
            BY <1>7, <3>1, HeldTasks
        <3> QED BY <1>6, <1>7, <3>1, <3>2
    <2> QED BY <2>1
<1>12. \A e \in DOMAIN call.kept : /\ task'[call.kept[e]] = task[call.kept[e]]
                                   /\ call.kept[e] \in Tasks
    <2>1. ASSUME NEW e \in DOMAIN call.kept
          PROVE  task'[call.kept[e]] = task[call.kept[e]] /\ call.kept[e] \in Tasks
        <3>1. call.kept[e] \in Range(call.kept) /\ call.kept[e] \in Tasks
            BY EarlyTasks
        <3>2. call.kept[e] \in Referenced /\ call.kept[e] \in Referenced'
            BY <1>9, <3>1, HeldTasks
        <3>3. call.kept[e] \notin Range(r)
            BY <1>7, <3>2, HeldTasks
        <3> QED BY <1>6, <1>7, <3>1, <3>2, <3>3
    <2> QED BY <2>1
<1>13. EarlyReads'
    BY <1>1, <1>11, EarlyStay DEF SameEnd, Same
<1>14. SweepReads'
    <2>1. /\ call.batch >= 1 /\ DOMAIN call.kept \subseteq call.routed
          /\ \A e \in DOMAIN call.kept : ReadsEarly(call.kept[e], e)
        BY <1>1 DEF SweepReads
    <2>2. Needed' = need
        BY <1>9 DEF Needed, need
    <2>3. call'.fut # None => ReadsOwn(call.fut, Needed)'
        <3>1. ASSUME fut # None
              PROVE  task'[fut].kind = "own" /\ task'[fut].ids = need /\ task'[fut].st # "cancelled"
            <4>1. fut \in Range(r) /\ table[fut] = Submitted("own", at, need)
                BY <1>5, <1>3, <3>1
            <4>2. task'[fut] = Submitted("own", at, need)
                BY <1>7, <4>1
            <4> QED BY <4>2 DEF Submitted
        <3> QED BY <1>9, <2>2, <3>1 DEF ReadsOwn
    <2>4. i >= 1
        BY <1>9
    <2>5. \A e \in DOMAIN call'.kept : ReadsEarly(call.kept[e], e)'
        BY <1>9, <1>12, <2>1 DEF ReadsEarly
    <2>6. call'.fut = None <=> Needed' = {}
        BY <1>3, <1>9, <2>2
    <2> HIDE DEF i
    <2> QED BY <1>9, <2>1, <2>3, <2>4, <2>5, <2>6 DEF SweepReads
<1>15. Calm'
    <2> SUFFICES ASSUME raises = 0 PROVE Calm'
        BY <1>1 DEF Calm
    <2>1. \A j \in Tasks : task'[j].st # "raised"
        BY <1>6, <1>7 DEF Calm, Blank
    <2>2. ASSUME NEW e \in DOMAIN call.kept, BatchOf(call.routed, e) < i
          PROVE  task'[call.kept[e]].st = "done"
        <3>1. e \in call.routed /\ call.routed \in SUBSET Experts
            BY <1>1, <1>9 DEF SweepReads, Calls
        <3>2. BatchOf(call.routed, e) \in Nat
            BY <3>1, BatchNumbers
        <3>3. CASE BatchOf(call.routed, e) < call.batch
            BY <1>1, <1>12, <3>3 DEF Calm
        <3>4. CASE BatchOf(call.routed, e) = call.batch
            <4>1. call.kept[e] \in BatchFutures
                BY <3>1, <3>4 DEF BatchFutures, Batch
            <4> QED BY <1>1, <1>12, <4>1
        <3> QED BY <1>9, <2>2, <3>2, <3>3, <3>4
    <2>3. EarlyHeld' = EarlyHeld
        BY <1>1, <1>9 DEF EarlyHeld
    <2>4. ASSUME NEW y \in Executors, NEW j \in Range(queue'[y]),
                 task'[j].kind = "early", task'[j].st = "queued"
          PROVE  j \in EarlyHeld
        <3>1. j \notin Range(r)
            BY <1>6, <1>7, <2>4
        <3>2. j \in Range(queue[y]) /\ task'[j] = task[j]
            BY <1>7, <3>1 DEF Moved
        <3> QED BY <2>4, <3>2 DEF Calm
    <2> QED BY <1>1, <1>9, <2>1, <2>2, <2>3, <2>4 DEF Calm
<1> QED BY <1>8, <1>10, <1>13, <1>14, <1>15

\* The early reads a sweep starts: new tasks, each held for an expert it reads,
\* for a layer that had none.
Announced(r, table) ==
    /\ early' \in [Layers -> FutureMaps]
    /\ \A l \in Layers : early'[l] # early[l] =>
          /\ early[l] = NoFuture /\ l # at
          /\ \A e \in DOMAIN early'[l] :
                LET j == early'[l][e]
                IN  j \in Range(r) /\ e \in table[j].ids /\ table[j].layer = l
    /\ \A j \in Range(r) : \E l \in Layers : j \in Range(early'[l])
    /\ \A j \in Range(r) : \A l \in Layers : table[j].layer = l =>
          /\ early[l] = NoFuture /\ l # at
          /\ \A e \in table[j].ids : e \in DOMAIN early'[l] /\ early'[l][e] = j

LEMMA SweepAnnounces ==
    ASSUME RInv, LastBatch
    PROVE  \E r, table : Puts(0, r, table, "early") /\ Announced(r, table)
<1> USE DEF RInv
<1>1. 0 \in Executors /\ early \in [Layers -> FutureMaps] /\ task \in Tables
    BY DEF Executors, Types
<1>2. CASE ~ReadsNext /\ UNCHANGED <<queue, early>> /\ Kept(task)
    <2>1. Puts(0, <<>>, task, "early")
        BY <1>1, <1>2, PutsNone
    <2>2. Announced(<<>>, task)
        BY <1>1, <1>2 DEF Announced, Range
    <2> QED BY <2>1, <2>2
<1>3. ASSUME ReadsNext, NEW top \in kSubset(AheadCount(call.routed), Experts),
             Room(NBatches(top)), NEW futs, futs = Fresh(NBatches(top)),
             early' = [early EXCEPT ![at + 1] = [e \in top |-> futs[BatchOf(top, e)]]],
             queue' = [queue EXCEPT ![0] = @ \o futs],
             NEW table,
             table = [j \in Tasks |->
                        IF j \in Range(futs)
                        THEN Submitted("early", at + 1, {e \in top : futs[BatchOf(top, e)] = j})
                        ELSE task[j]],
             Kept(table)
      PROVE  Puts(0, futs, table, "early") /\ Announced(futs, table)
    <2> DEFINE n == NBatches(top)
               new == [e \in top |-> futs[BatchOf(top, e)]]
    <2>1. /\ top \in SUBSET Experts /\ n \in Nat
          /\ \A e \in top : BatchOf(top, e) \in 1 .. n
          /\ \A k \in 1 .. n : \E e \in top : BatchOf(top, e) = k
        <3>1. top \in SUBSET Experts
            BY DEF kSubset
        <3> QED BY <3>1, BatchNumbers, BatchesFull
    <2>2. /\ at + 1 \in Layers /\ at + 1 \in 0 .. NLayers /\ early[at + 1] = NoFuture
          /\ at + 1 # at
        BY <1>3, ReadAheadAssumption DEF ReadsNext, Types, Layers
    <2>3. /\ futs \in Seq(FreeTasks) /\ IsInjective(futs) /\ DOMAIN futs = 1 .. n
          /\ \A k \in 1 .. n : futs[k] \in FreeTasks /\ futs[k] \in Tasks /\ futs[k] \in Range(futs)
          /\ \A j \in Range(futs) : j \in Tasks /\ \E k \in 1 .. n : j = futs[k]
        <3>1. /\ futs \in Seq(FreeTasks) /\ IsInjective(futs) /\ futs \in [1 .. n -> FreeTasks]
            BY <1>3, <2>1, FreshFutures
        <3>2. \A k \in 1 .. n : futs[k] \in FreeTasks /\ futs[k] \in Tasks
            BY <3>1, HeldTasks
        <3> QED BY <3>1, <3>2 DEF Range
    <2> HIDE DEF n
    <2>4. new \in FutureMaps /\ DOMAIN new = top /\ \A e \in top : new[e] = futs[BatchOf(top, e)]
        <3>1. new \in [top -> Tasks]
            BY <2>1, <2>3
        <3> QED BY <2>1, <3>1 DEF FutureMaps
    <2>5. \A j \in Range(futs) : table[j] = Submitted("early", at + 1, {e \in top : new[e] = j})
        BY <1>3, <2>3, <2>4
    <2> HIDE DEF new
    <2>6. /\ \A j \in Range(futs) : /\ table[j].st = "queued" /\ table[j].kind = "early"
                                    /\ table[j].layer = at + 1 /\ table[j] \in Entries
                                    /\ table[j].ids = {e \in top : new[e] = j}
          /\ \A j \in Tasks \ Range(futs) : table[j] = task[j]
        <3>1. ASSUME NEW j \in Range(futs)
              PROVE  /\ table[j].st = "queued" /\ table[j].kind = "early"
                     /\ table[j].layer = at + 1 /\ table[j] \in Entries
                     /\ table[j].ids = {e \in top : new[e] = j}
            <4> DEFINE ids == {e \in top : new[e] = j}
            <4>1. table[j] = Submitted("early", at + 1, ids)
                BY <2>5
            <4>2. ids \in SUBSET Experts
                BY <2>1
            <4> HIDE DEF ids
            <4>3. /\ table[j].st = "queued" /\ table[j].kind = "early"
                  /\ table[j].layer = at + 1 /\ table[j] \in Entries /\ table[j].ids = ids
                BY <2>2, <4>1, <4>2 DEF Submitted, Entries, States, Kinds
            <4> QED BY <4>3 DEF ids
        <3>2. \A j \in Tasks \ Range(futs) : table[j] = task[j]
            BY <1>3
        <3> QED BY <3>1, <3>2
    <2>7. table \in Tables
        <3>1. \A j \in Tasks : table[j] \in Entries
            BY <1>1, <2>6 DEF Tables
        <3>2. table = [j \in Tasks |-> table[j]]
            BY <1>3
        <3> QED BY <3>1, <3>2 DEF Tables
    <2>8. early' \in [Layers -> FutureMaps] /\ early'[at + 1] = new
          /\ \A l \in Layers : l # at + 1 => early'[l] = early[l]
        BY <1>1, <1>3, <2>2, <2>4 DEF new
    <2>9. ASSUME NEW e \in top
          PROVE  new[e] \in Range(futs) /\ e \in table[new[e]].ids /\ table[new[e]].layer = at + 1
        <3>1. new[e] \in Range(futs)
            BY <2>1, <2>3, <2>4
        <3> QED BY <2>6, <3>1
    <2>10. ASSUME NEW j \in Range(futs) PROVE j \in Range(new)
        <3>1. PICK k \in 1 .. n : j = futs[k]
            BY <2>3
        <3>2. PICK e \in top : BatchOf(top, e) = k
            BY <2>1
        <3>3. new[e] = j
            BY <2>4, <3>1, <3>2
        <3> QED BY <2>4, <3>3 DEF Range
    <2>11. ASSUME NEW j \in Range(futs), NEW l \in Layers, table[j].layer = l
           PROVE  /\ early[l] = NoFuture /\ l # at
                  /\ \A e \in table[j].ids : e \in DOMAIN early'[l] /\ early'[l][e] = j
        <3>1. l = at + 1 /\ table[j].ids = {e \in top : new[e] = j}
            BY <2>6, <2>11
        <3> QED BY <2>2, <2>4, <2>8, <3>1
    <2>13. Announced(futs, table)
        BY <2>2, <2>4, <2>8, <2>9, <2>10, <2>11 DEF Announced
    <2>12. Puts(0, futs, table, "early")
        BY <1>3, <2>3, <2>6, <2>7 DEF Puts
    <2> QED BY <2>12, <2>13
<1> QED BY <1>2, <1>3 DEF LastBatch

LEMMA LastBatchKeeps ==
    ASSUME RInv, LastBatch
    PROVE  RInv'
<1> USE DEF RInv
<1>1. /\ call.op = "sweep" /\ \A j \in BatchFutures : task[j].st = "done"
      /\ call.batch = NBatches(call.routed) /\ call' = NoCall /\ UNCHANGED <<pf, raises>>
      /\ at' \in Layers /\ reads' = [reads EXCEPT ![at] = Unread]
    BY ReadAheadAssumption DEF LastBatch, Ready, AfterLayer, Types, Layers
<1>2. PICK r, table : Puts(0, r, table, "early") /\ Announced(r, table)
    BY SweepAnnounces
<1>3. /\ \A j \in Tasks \ Range(r) : table[j] = task[j]
      /\ \A j \in Range(r) : table[j].st = "queued" /\ table[j].kind = "early"
    BY <1>2 DEF Puts
<1>4. /\ Moved(0, Range(r)) /\ task' \in Tables
      /\ \A y \in Executors :
            Range(queue'[y]) = Range(queue[y]) \cup (IF y = 0 THEN Range(r) ELSE {})
      /\ \A j \in Tasks : /\ task'[j] = table[j] \/ task'[j] = Blank
                          /\ j \in Queued' \cup Referenced' => task'[j] = table[j]
      /\ Range(r) \subseteq FreeTasks /\ \A j \in Range(r) : j \in Tasks /\ task'[j] = table[j]
    BY <1>2, Submitting DEF Executors
<1>5. Queues'
    BY <1>4, QueuesMoved DEF Executors
<1>6. Types'
    <2>1. NoCall \in Calls
        BY NoFutures DEF NoCall, Calls
    <2>2. early' \in [Layers -> FutureMaps]
        BY <1>2 DEF Announced
    <2>3. reads' \in [Layers -> [Experts -> Nat]]
        BY <1>1, ReadsTyped DEF Types
    <2> QED BY <1>1, <1>4, <2>1, <2>2, <2>3 DEF Types, Moved
<1>7. EarlyReads'
    <2> SUFFICES ASSUME NEW l \in Layers, NEW e \in DOMAIN early'[l]
                 PROVE  ReadsEarly(early[l][e], e)' /\ task'[early'[l][e]].layer = l
        BY DEF EarlyReads
    <2> DEFINE j == early'[l][e]
    <2>1. CASE early'[l] # early[l]
        <3>1. j \in Range(r) /\ e \in table[j].ids /\ table[j].layer = l
            BY <1>2, <2>1 DEF Announced
        <3>2. task'[j] = table[j] /\ table[j].st = "queued" /\ table[j].kind = "early"
            BY <1>3, <1>4, <3>1
        <3> QED BY <3>1, <3>2 DEF ReadsEarly
    <2>2. CASE early'[l] = early[l]
        <3>1. ReadsEarly(early[l][e], e) /\ task[early[l][e]].layer = l /\ early[l][e] = j
            BY <2>2 DEF EarlyReads
        <3>2. j \in Tasks /\ j \in Range(early[l])
            BY <2>2, EarlyTasks
        <3>3. j \in Referenced /\ j \in Referenced'
            BY <2>2, <3>2, HeldTasks
        <3>4. task'[j] = task[j]
            BY <1>3, <1>4, <3>2, <3>3, HeldTasks
        <3> QED BY <3>1, <3>4 DEF ReadsEarly
    <2> QED BY <2>1, <2>2
<1>8. SweepReads'
    BY <1>1 DEF SweepReads, NoCall
<1>9. Calm'
    <2> SUFFICES ASSUME raises = 0 PROVE Calm'
        BY <1>1 DEF Calm
    <2>1. \A j \in Tasks : task'[j].st # "raised"
        BY <1>3, <1>4 DEF Calm, Blank
    <2>2. \A e \in DOMAIN call.kept : task[call.kept[e]].st = "done"
        <3> SUFFICES ASSUME NEW e \in DOMAIN call.kept PROVE task[call.kept[e]].st = "done"
            OBVIOUS
        <3>1. e \in call.routed /\ call.routed \in SUBSET Experts
            BY <1>1, EarlyTasks DEF SweepReads
        <3>2. BatchOf(call.routed, e) \in 1 .. call.batch /\ call.batch \in Nat
            BY <1>1, <3>1, BatchNumbers
        <3>3. CASE BatchOf(call.routed, e) < call.batch
            BY <1>1, <3>3 DEF Calm
        <3>4. CASE BatchOf(call.routed, e) = call.batch
            <4>1. call.kept[e] \in BatchFutures
                BY <3>1, <3>4 DEF BatchFutures, Batch
            <4> QED BY <1>1, <4>1
        <3> QED BY <3>2, <3>3, <3>4
    <2>3. ASSUME NEW y \in Executors, NEW j \in Range(queue'[y]),
                 task'[j].kind = "early", task'[j].st = "queued"
          PROVE  j \in EarlyHeld'
        <3>1. CASE j \in Range(r)
            <4>1. PICK l \in Layers : j \in Range(early'[l])
                BY <1>2, <3>1 DEF Announced
            <4> QED BY <4>1 DEF EarlyHeld
        <3>2. CASE j \notin Range(r)
            <4>1. j \in Range(queue[y]) /\ task'[j] = task[j]
                BY <1>4, <3>2 DEF Moved
            <4>2. j \in EarlyHeld
                BY <2>3, <4>1 DEF Calm
            <4>3. j \notin Range(call.kept)
                BY <2>2, <2>3, <4>1 DEF Range
            <4>4. PICK l \in Layers : j \in Range(early[l])
                BY <4>2, <4>3 DEF EarlyHeld
            <4>5. early'[l] = early[l]
                BY <1>2, <4>4, NoFutures DEF Announced
            <4> QED BY <4>4, <4>5 DEF EarlyHeld
        <3> QED BY <3>1, <3>2
    <2> QED BY <1>1, <2>1, <2>3 DEF Calm, NoCall
<1> QED BY <1>5, <1>6, <1>7, <1>8, <1>9

\* What a call gives up: reads of its own layer's, waiting in the shared queue.
LEMMA GivenUp ==
    ASSUME RInv, NEW S, NEW gone, gone = Cancelled(Untaken(at, S))
    PROVE  /\ gone \subseteq Tasks /\ gone \subseteq Range(early[at])
           /\ \A j \in gone : task[j].st = "queued" /\ task[j].kind = "early"
           /\ \A e \in DOMAIN Restricted(early[at], S) : Restricted(early[at], S)[e] \notin gone
           /\ \A l \in Layers : l # at => gone \cap Range(early[l]) = {}
           /\ \A l \in Layers : gone \cap Range(queue[l]) = {}
           /\ \A j \in Range(early[at]) :
                 task[j].st = "queued" /\ j \notin gone => j \in Range(Restricted(early[at], S))
           /\ CancelTasks(gone) \in Tables
           /\ \A j \in Tasks : CancelTasks(gone)[j] =
                 IF j \in gone THEN [task[j] EXCEPT !.st = "cancelled"] ELSE task[j]
           /\ \A j \in gone : CancelTasks(gone)[j].st = "cancelled"
<1> USE DEF RInv
<1> DEFINE kept == Restricted(early[at], S)
<1>1. at \in Layers /\ early[at] \in FutureMaps /\ task \in Tables
    BY DEF Types
<1>2. \A l \in Layers : \A j \in Range(early[l]) :
         j \in Tasks /\ task[j].kind = "early" /\ task[j].layer = l
    BY EarlyTasks DEF EarlyReads, ReadsEarly, Range
<1>3. \A j \in gone : j \in Range(early[at]) /\ j \notin Range(kept) /\ task[j].st = "queued"
    BY DEF Cancelled, Untaken
<1>4. gone \subseteq Tasks /\ \A j \in gone : task[j].kind = "early" /\ task[j].layer = at
    BY <1>1, <1>2, <1>3
<1>5. \A e \in DOMAIN kept : kept[e] \notin gone
    BY <1>3 DEF Range
<1>6. \A l \in Layers : l # at => gone \cap Range(early[l]) = {}
    BY <1>2, <1>4
<1>7. \A l \in Layers : gone \cap Range(queue[l]) = {}
    <2>1. \A l \in Layers : l \in Executors /\ l # 0
        BY ReadAheadAssumption DEF Layers, Executors
    <2> QED BY <2>1, <1>4 DEF Queues, Waits
<1>8. \A j \in Range(early[at]) : task[j].st = "queued" /\ j \notin gone => j \in Range(kept)
    BY DEF Cancelled, Untaken
<1>9. \A j \in Tasks : CancelTasks(gone)[j] =
         IF j \in gone THEN [task[j] EXCEPT !.st = "cancelled"] ELSE task[j]
    BY DEF CancelTasks
<1>10. \A j \in Tasks : task[j] \in Entries /\ [task[j] EXCEPT !.st = "cancelled"] \in Entries
                        /\ [task[j] EXCEPT !.st = "cancelled"].st = "cancelled"
    BY <1>1 DEF Tables, Entries, States
<1>11. CancelTasks(gone) \in Tables
    BY <1>10 DEF CancelTasks, Tables
<1> HIDE DEF RInv
<1>12. gone \subseteq Range(early[at])
    BY <1>3
<1>13. ASSUME NEW j \in gone PROVE CancelTasks(gone)[j].st = "cancelled"
    <2>1. j \in Tasks
        BY <1>4
    <2> QED BY <1>9, <1>10, <2>1
<1> QED BY <1>3, <1>4, <1>5, <1>6, <1>7, <1>8, <1>9, <1>11, <1>12, <1>13

\* A call that gives up early reads of its layer and puts tasks into its queue.
Cancels(S, gone, new, table) ==
    /\ call.op = "none" /\ gone = Cancelled(Untaken(at, S)) /\ new \subseteq FreeTasks
    /\ queue' \in [Executors -> Seq(Tasks)]
    /\ \A y \in Executors :
        /\ IsInjective(queue'[y])
        /\ Range(queue'[y]) = (Range(queue[y]) \ gone) \cup (IF y = at THEN new ELSE {})
        /\ queue[y] # <<>> /\ Head(queue[y]) \in Range(queue'[y])
              => Head(queue'[y]) = Head(queue[y])
    /\ table \in Tables /\ Kept(table)
    /\ \A j \in Tasks \ (gone \cup new) : table[j] = task[j]
    /\ \A j \in new : table[j].st = "queued" /\ table[j].kind = "own"
    /\ \A j \in gone : table[j].st = "cancelled"
    /\ early' = [early EXCEPT ![at] = NoFuture] /\ call'.kept = Restricted(early[at], S)
    /\ raises' = raises

LEMMA Cancelling ==
    ASSUME RInv, NEW S, NEW gone, NEW new, NEW table, Cancels(S, gone, new, table)
    PROVE  /\ Queues' /\ EarlyReads' /\ task' \in Tables
           /\ \A e \in DOMAIN call'.kept : ReadsEarly(call.kept[e], e)'
           /\ \A j \in new : task'[j] = table[j]
           /\ raises = 0 =>
                /\ \A j \in Tasks : task'[j].st # "raised"
                /\ \A x \in Executors : \A j \in Range(queue'[x]) :
                      task'[j].kind = "early" /\ task'[j].st = "queued" => j \in EarlyHeld'
<1> USE DEF RInv
<1> DEFINE kept == Restricted(early[at], S)
<1>1. /\ call.op = "none" /\ gone = Cancelled(Untaken(at, S)) /\ new \subseteq FreeTasks
      /\ queue' \in [Executors -> Seq(Tasks)] /\ table \in Tables /\ Kept(table)
      /\ \A j \in Tasks \ (gone \cup new) : table[j] = task[j]
      /\ \A j \in new : table[j].st = "queued" /\ table[j].kind = "own"
      /\ \A j \in gone : table[j].st = "cancelled"
      /\ early' = [early EXCEPT ![at] = NoFuture] /\ call'.kept = kept /\ raises' = raises
    BY DEF Cancels
<1>2. /\ at \in Layers /\ at \in Executors /\ at # 0 /\ early \in [Layers -> FutureMaps]
      /\ call.kept = NoFuture
    BY <1>1, ReadAheadAssumption DEF Types, Layers, Executors, SweepReads
<1>3. /\ gone \subseteq Tasks /\ gone \subseteq Range(early[at])
      /\ \A j \in gone : task[j].st = "queued" /\ task[j].kind = "early"
      /\ \A e \in DOMAIN kept : kept[e] \notin gone
      /\ \A l \in Layers : l # at => gone \cap Range(early[l]) = {}
      /\ \A j \in Range(early[at]) :
            task[j].st = "queued" /\ j \notin gone => j \in Range(kept)
    BY <1>1, GivenUp
<1>4. \A y \in Executors :
        /\ IsInjective(queue'[y])
        /\ Range(queue'[y]) = (Range(queue[y]) \ gone) \cup (IF y = at THEN new ELSE {})
        /\ queue[y] # <<>> /\ Head(queue[y]) \in Range(queue'[y])
              => Head(queue'[y]) = Head(queue[y])
    BY DEF Cancels
<1>5. /\ task' \in Tables /\ \A j \in Tasks : task'[j] = table[j] \/ task'[j] = Blank
      /\ \A j \in Tasks \cap (Queued' \cup Referenced') : task'[j] = table[j]
    BY <1>1, KeptTable
<1>6. \A y \in Executors : Range(queue[y]) \subseteq Tasks /\ Range(queue[y]) \cap new = {}
    BY <1>1, QueueFacts, HeldTasks
<1>7. \A j \in new : j \in Tasks /\ task'[j] = table[j]
    <2>1. \A j \in new : j \in Tasks /\ j \in Range(queue'[at])
        BY <1>1, <1>2, <1>4, HeldTasks
    <2>2. \A j \in new : j \in Queued'
        BY <1>2, <2>1, HeldTasks
    <2> QED BY <1>5, <2>1, <2>2
<1>8. \A y \in Executors : \A j \in Range(queue'[y]) \ new : task'[j] = task[j]
    <2>1. ASSUME NEW y \in Executors, NEW j \in Range(queue'[y]) \ new PROVE task'[j] = task[j]
        <3>1. j \in Range(queue[y]) /\ j \notin gone /\ j \in Tasks
            BY <1>4, <1>6, <2>1
        <3>2. j \in Queued'
            BY HeldTasks
        <3> QED BY <1>1, <1>5, <3>1, <3>2
    <2> QED BY <2>1
<1>9. Queues'
    <2>1. Moved(at, new)
        BY <1>1, <1>4, <1>7, <1>8 DEF Moved
    <2> QED BY <1>2, <2>1, QueuesMoved
<1>10. /\ early'[at] = NoFuture /\ \A l \in Layers : l # at => early'[l] = early[l]
    BY <1>1, <1>2
<1>11. EarlyReads'
    <2>1. ASSUME NEW l \in Layers, l # at, NEW j \in Range(early[l]) PROVE SameEnd(j)
        <3>1. j \in Tasks /\ j \in Referenced /\ j \in Range(early'[l])
            BY <1>10, <2>1, EarlyTasks, HeldTasks
        <3>2. j \notin gone /\ j \notin new /\ j \in Referenced'
            BY <1>1, <1>3, <2>1, <3>1, HeldTasks
        <3>3. task'[j] = task[j]
            BY <1>1, <1>5, <3>1, <3>2
        <3> QED BY <3>3 DEF SameEnd, Same
    <2>2. \A l \in Layers : early'[l] \in {early[l], NoFuture}
        BY <1>10
    <2>3. ASSUME early'[at] = early[at] PROVE \A j \in Range(early[at]) : SameEnd(j)
        BY <1>10, <2>3, NoFutures
    <2>4. \A l \in Layers : early'[l] = early[l] => \A j \in Range(early[l]) : SameEnd(j)
        BY <2>1, <2>3
    <2> QED BY <2>2, <2>4, EarlyStay
<1>12. /\ DOMAIN kept \subseteq DOMAIN early[at] /\ kept \in FutureMaps
       /\ \A e \in DOMAIN kept : /\ kept[e] = early[at][e] /\ kept[e] \in Range(early[at])
                                 /\ kept[e] \in Tasks /\ kept[e] \in Range(kept)
    <2>1. early[at] \in FutureMaps
        BY <1>2
    <2>2. /\ kept \in FutureMaps /\ DOMAIN kept = DOMAIN early[at] \cap S
          /\ \A e \in DOMAIN early[at] \cap S : kept[e] = early[at][e]
        BY <2>1, FutureMap
    <2>3. \A e \in DOMAIN early[at] : early[at][e] \in Range(early[at]) /\ early[at][e] \in Tasks
        BY <2>1, FutureMap
    <2> QED BY <2>2, <2>3 DEF Range
<1> HIDE DEF kept
<1>13. ASSUME NEW e \in DOMAIN kept PROVE task'[kept[e]] = task[kept[e]]
    <2>1. kept[e] \in Tasks /\ kept[e] \in Referenced /\ kept[e] \in Referenced'
        BY <1>1, <1>2, <1>12, HeldTasks
    <2>2. kept[e] \notin gone /\ kept[e] \notin new
        BY <1>1, <1>3, <2>1, HeldTasks
    <2> QED BY <1>1, <1>5, <2>1, <2>2
<1>14. \A e \in DOMAIN call'.kept : ReadsEarly(call.kept[e], e)'
    BY <1>1, <1>2, <1>12, <1>13 DEF EarlyReads, ReadsEarly
<1>15. ASSUME raises = 0
       PROVE  /\ \A j \in Tasks : task'[j].st # "raised"
              /\ \A x \in Executors : \A j \in Range(queue'[x]) :
                    task'[j].kind = "early" /\ task'[j].st = "queued" => j \in EarlyHeld'
    <2>1. \A j \in Tasks : task'[j].st # "raised"
        <3>1. \A j \in Tasks : task[j].st # "raised"
            BY <1>15 DEF Calm
        <3>2. \A j \in Tasks : table[j].st # "raised"
            BY <1>1, <3>1
        <3> QED BY <1>5, <3>2 DEF Blank
    <2>2. ASSUME NEW x \in Executors, NEW j \in Range(queue'[x]),
                 task'[j].kind = "early", task'[j].st = "queued"
          PROVE  j \in EarlyHeld'
        <3>1. j \notin new
            BY <1>1, <1>7, <2>2
        <3>2. j \in Range(queue[x]) /\ j \notin gone /\ task'[j] = task[j]
            BY <1>4, <1>8, <3>1
        <3>3. j \in EarlyHeld
            BY <1>15, <2>2, <3>2 DEF Calm
        <3>4. PICK l \in Layers : j \in Range(early[l])
            BY <1>2, <3>3, NoFutures DEF EarlyHeld
        <3>5. CASE l = at
            <4>1. j \in Range(kept)
                BY <1>3, <2>2, <3>2, <3>4, <3>5
            <4> QED BY <1>1, <4>1 DEF EarlyHeld
        <3>6. CASE l # at
            <4>1. j \in Range(early'[l])
                BY <1>10, <3>4, <3>6
            <4> QED BY <4>1 DEF EarlyHeld
        <3> QED BY <3>5, <3>6
    <2> QED BY <2>1, <2>2
<1> QED BY <1>5, <1>7, <1>9, <1>11, <1>14, <1>15

LEMMA PoolCallCancels ==
    ASSUME RInv, PoolCall
    PROVE  \E gone, table : Cancels({}, gone, {}, table)
<1> USE DEF RInv
<1> DEFINE gone == Cancelled(Untaken(at, {}))
           table == CancelTasks(gone)
<1>1. /\ call.op = "none" /\ early' = [early EXCEPT ![at] = NoFuture]
      /\ queue' = [queue EXCEPT ![0] = Without(@, gone)] /\ raises' = raises /\ Kept(table)
    BY DEF PoolCall
<1>2. call'.kept = NoFuture
    <2>1. CASE UNCHANGED <<pf, call>>
        BY <1>1, <2>1 DEF SweepReads
    <2>2. CASE \E fut \in {None, pf[at]} : call' = [NoCall EXCEPT !.op = "decode", !.fut = fut]
        BY <2>2 DEF NoCall
    <2> QED BY <2>1, <2>2 DEF PoolCall
<1>3. /\ gone \subseteq Tasks /\ table \in Tables
      /\ \A j \in Tasks \ gone : table[j] = task[j]
      /\ \A j \in gone : table[j].st = "cancelled"
      /\ \A l \in Layers : gone \cap Range(queue[l]) = {}
    BY GivenUp
<1>4. Restricted(early[at], {}) = NoFuture
    BY DEF Restricted, NoFuture
<1> HIDE DEF gone, table
<1>5. /\ queue' \in [Executors -> Seq(Tasks)]
      /\ \A y \in Executors :
            /\ IsInjective(queue'[y])
            /\ Range(queue'[y]) = Range(queue[y]) \ gone
            /\ queue[y] # <<>> /\ Head(queue[y]) \in Range(queue'[y])
                  => Head(queue'[y]) = Head(queue[y])
    <2>1. queue \in [Executors -> Seq(Tasks)] /\ 0 \in Executors /\ Executors = {0} \cup Layers
        BY DEF Types, Executors
    <2>2. queue[0] \in Seq(Tasks) /\ IsInjective(queue[0])
        BY <2>1 DEF Queues
    <2>3. /\ Without(queue[0], gone) \in Seq(Tasks) /\ IsInjective(Without(queue[0], gone))
          /\ Range(Without(queue[0], gone)) = Range(queue[0]) \ gone
          /\ queue[0] # <<>> /\ Head(queue[0]) \notin gone
                => Head(Without(queue[0], gone)) = Head(queue[0])
        BY <2>2, WithoutTasks
    <2>4. queue' \in [Executors -> Seq(Tasks)] /\ queue'[0] = Without(queue[0], gone)
          /\ \A y \in Executors : y # 0 => queue'[y] = queue[y]
        BY <1>1, <2>1, <2>3
    <2>5. \A y \in Executors : y # 0 => Range(queue[y]) = Range(queue[y]) \ gone
        BY <1>3, <2>1
    <2>6. \A y \in Executors : IsInjective(queue'[y])
        BY <2>3, <2>4 DEF Queues
    <2>7. \A y \in Executors : Range(queue'[y]) = Range(queue[y]) \ gone
        BY <2>3, <2>4, <2>5
    <2> QED BY <2>3, <2>4, <2>6, <2>7
<1>6. Cancels({}, gone, {}, table)
    BY <1>1, <1>2, <1>3, <1>4, <1>5 DEF Cancels, gone
<1> QED BY <1>6

LEMMA PoolCallKeeps ==
    ASSUME RInv, PoolCall
    PROVE  RInv'
<1> USE DEF RInv
<1>1. /\ call.op = "none" /\ early' = [early EXCEPT ![at] = NoFuture]
      /\ reads' = [reads EXCEPT ![at] = Unread] /\ raises' = raises
    BY DEF PoolCall
<1>2. /\ at' \in Layers /\ pf' \in [Layers -> Tasks \cup {None}]
      /\ call' \in Calls /\ call'.op # "sweep" /\ call'.kept = NoFuture
    <2>1. /\ at \in Layers /\ pf \in [Layers -> Tasks \cup {None}] /\ call \in Calls
          /\ pf[at] \in Tasks \cup {None}
        BY DEF Types
    <2>2. CASE AfterLayer /\ UNCHANGED <<pf, call>>
        BY <1>1, <2>1, <2>2, ReadAheadAssumption DEF AfterLayer, Layers, SweepReads
    <2>3. CASE /\ pf' = [pf EXCEPT ![at] = None]
               /\ \E fut \in {None, pf[at]} :
                     call' = [NoCall EXCEPT !.op = "decode", !.fut = fut]
               /\ UNCHANGED at
        <3>1. PICK fut \in {None, pf[at]} : call' = [NoCall EXCEPT !.op = "decode", !.fut = fut]
            BY <2>3
        <3>2. fut \in Tasks \cup {None}
            BY <2>1
        <3>3. call' \in Calls /\ call'.op # "sweep" /\ call'.kept = NoFuture
            BY <3>1, <3>2, NoFutures DEF NoCall, Calls
        <3> QED BY <2>1, <2>3, <3>3
    <2> QED BY <2>2, <2>3 DEF PoolCall
<1>3. PICK gone, table : Cancels({}, gone, {}, table)
    BY PoolCallCancels
<1>4. Queues' /\ EarlyReads' /\ task' \in Tables
    BY <1>3, Cancelling
<1>5. Types'
    <2>1. early' \in [Layers -> FutureMaps]
        BY <1>1, NoFutures DEF Types
    <2>2. reads' \in [Layers -> [Experts -> Nat]]
        BY <1>1, ReadsTyped DEF Types
    <2> QED BY <1>1, <1>2, <1>3, <1>4, <2>1, <2>2 DEF Types, Cancels
<1>6. SweepReads'
    BY <1>2 DEF SweepReads
<1>7. Calm'
    <2>1. raises = 0 =>
            /\ \A j \in Tasks : task'[j].st # "raised"
            /\ \A x \in Executors : \A j \in Range(queue'[x]) :
                  task'[j].kind = "early" /\ task'[j].st = "queued" => j \in EarlyHeld'
        BY <1>3, Cancelling
    <2> QED BY <1>1, <1>2, <2>1 DEF Calm
<1> QED BY <1>4, <1>5, <1>6, <1>7

\* A sweep begins: it takes early reads, gives the others up, and puts what
\* its first batch still needs into the layer's queue.
Begins(routed, gone, fut, table) ==
    LET kept == Restricted(early[at], routed)
        need == Need(Batch(routed, 1), kept)
    IN  /\ Cancels(routed, gone, {fut} \ {None}, table)
        /\ call' = [op |-> "sweep", routed |-> routed, batch |-> 1, kept |-> kept, fut |-> fut]
        /\ kept \in FutureMaps /\ DOMAIN kept \subseteq routed
        /\ fut \in Tasks \cup {None} /\ (fut = None <=> need = {})
        /\ fut # None => table[fut] = Submitted("own", at, need)

LEMMA SweepBegins ==
    ASSUME RInv, NEW routed \in SUBSET Experts, Sweep(routed)
    PROVE  \E gone, fut, table : Begins(routed, gone, fut, table)
<1> USE DEF RInv
<1> DEFINE kept == Restricted(early[at], routed)
           gone == Cancelled(Untaken(at, routed))
           need == Need(Batch(routed, 1), kept)
           fut == IF need = {} THEN None ELSE Fresh(1)[1]
           new == {fut} \ {None}
           table == IF fut = None THEN CancelTasks(gone)
                    ELSE [CancelTasks(gone) EXCEPT ![fut] = Submitted("own", at, need)]
<1>1. /\ call.op = "none" /\ (need # {} => Room(1))
      /\ call' = [op |-> "sweep", routed |-> routed, batch |-> 1, kept |-> kept,
                  fut |-> fut]
      /\ early' = [early EXCEPT ![at] = NoFuture]
      /\ queue' = [x \in Executors |->
                     IF x = at /\ fut # None THEN Append(queue[x], fut)
                     ELSE Without(queue[x], gone)]
      /\ UNCHANGED <<pf, at, raises>> /\ Kept(table)
    BY DEF Sweep
<1>2. /\ at \in Layers /\ at \in Executors /\ at # 0 /\ at \in 0 .. NLayers
      /\ queue \in [Executors -> Seq(Tasks)] /\ early \in [Layers -> FutureMaps]
      /\ need \in SUBSET Experts
    BY ReadAheadAssumption DEF Types, Executors, Layers, Need, Batch
<1>3. /\ need # {} => fut \in FreeTasks /\ fut \in Tasks /\ fut # None
      /\ need = {} => fut = None
    <2>1. need # {} => Fresh(1)[1] \in FreeTasks
        <3> HIDE DEF need
        <3> QED BY <1>1, FreshFutures
    <2>2. \A j \in FreeTasks : j \in Tasks /\ j # None
        BY HeldTasks DEF Tasks, None
    <2> HIDE DEF need
    <2> QED BY <2>1, <2>2
<1>4. /\ gone \subseteq Tasks /\ CancelTasks(gone) \in Tables
      /\ \A j \in Tasks \ gone : CancelTasks(gone)[j] = task[j]
      /\ \A j \in gone : CancelTasks(gone)[j].st = "cancelled"
      /\ \A l \in Layers : gone \cap Range(queue[l]) = {}
      /\ gone \subseteq Range(early[at])
    <2>1. gone = Cancelled(Untaken(at, routed))
        OBVIOUS
    <2> HIDE DEF gone, kept, need, fut, new, table
    <2>2. /\ gone \subseteq Tasks /\ gone \subseteq Range(early[at])
          /\ \A l \in Layers : gone \cap Range(queue[l]) = {}
        BY <2>1, GivenUp
    <2>3. /\ CancelTasks(gone) \in Tables
          /\ \A j \in Tasks : CancelTasks(gone)[j] =
                IF j \in gone THEN [task[j] EXCEPT !.st = "cancelled"] ELSE task[j]
          /\ \A j \in gone : CancelTasks(gone)[j].st = "cancelled"
        BY <2>1, GivenUp
    <2> QED BY <2>2, <2>3
<1>5. kept \in FutureMaps /\ DOMAIN kept \subseteq routed
    <2>1. early[at] \in FutureMaps
        BY <1>2
    <2>2. kept \in FutureMaps /\ DOMAIN kept = DOMAIN early[at] \cap routed
        BY <2>1, FutureMap
    <2> QED BY <2>2
<1> HIDE DEF kept, gone, need, fut
<1>6. /\ new \subseteq FreeTasks /\ new \subseteq Tasks /\ new \cap gone = {}
      /\ (fut # None => new = {fut}) /\ (fut = None => new = {})
    BY <1>2, <1>3, <1>4, HeldTasks
<1>7. /\ table \in Tables /\ \A j \in Tasks \ (gone \cup new) : table[j] = task[j]
      /\ \A j \in new : table[j] = Submitted("own", at, need)
      /\ \A j \in gone : table[j].st = "cancelled"
    <2>1. CASE fut = None
        BY <1>4, <1>6, <2>1
    <2>2. CASE fut # None
        <3> DEFINE entry == Submitted("own", at, need)
                   before == CancelTasks(gone)
        <3>1. entry \in Entries
            BY <1>2 DEF Submitted, Entries, States, Kinds
        <3>2. table = [before EXCEPT ![fut] = entry] /\ fut \in Tasks /\ before \in Tables
            BY <1>3, <1>4, <2>2
        <3> HIDE DEF entry, before, table
        <3>3. table \in Tables /\ table[fut] = entry
              /\ \A j \in Tasks : j # fut => table[j] = before[j]
            BY <3>1, <3>2 DEF Tables
        <3> QED BY <1>4, <1>6, <2>2, <3>3 DEF entry, before
    <2> QED BY <2>1, <2>2
<1>8. \A j \in new : table[j].st = "queued" /\ table[j].kind = "own" /\ table[j].ids = need
    BY <1>7 DEF Submitted
<1>9. Kept(table)
    BY <1>1
<1> HIDE DEF table
<1>10. /\ queue' \in [Executors -> Seq(Tasks)]
       /\ \A y \in Executors :
            /\ IsInjective(queue'[y])
            /\ Range(queue'[y]) = (Range(queue[y]) \ gone) \cup (IF y = at THEN new ELSE {})
            /\ queue[y] # <<>> /\ Head(queue[y]) \in Range(queue'[y])
                  => Head(queue'[y]) = Head(queue[y])
    <2>1. ASSUME NEW y \in Executors
          PROVE  /\ queue'[y] \in Seq(Tasks) /\ IsInjective(queue'[y])
                 /\ Range(queue'[y]) = (Range(queue[y]) \ gone) \cup (IF y = at THEN new ELSE {})
                 /\ queue[y] # <<>> /\ Head(queue[y]) \in Range(queue'[y])
                       => Head(queue'[y]) = Head(queue[y])
        <3>1. queue[y] \in Seq(Tasks) /\ IsInjective(queue[y])
            BY <1>2 DEF Queues
        <3>2. CASE y = at /\ fut # None
            <4> DEFINE r == <<fut>>
                       q == queue[y]
            <4>1. fut \in Tasks /\ fut \in FreeTasks
                BY <1>3, <3>2
            <4>2. r \in Seq(Tasks) /\ IsInjective(r) /\ Range(r) = {fut}
                BY <4>1 DEF Range, IsInjective
            <4>3. Range(q) \cap Range(r) = {}
                BY <4>1, <4>2, HeldTasks
            <4>4. queue'[y] = q \o r
                BY <1>1, <3>1, <3>2, <4>1, AppendIsConcat
            <4>5. Range(q) = Range(q) \ gone
                BY <1>2, <1>4, <3>2
            <4>6. q \in Seq(Tasks) /\ IsInjective(q)
                BY <3>1
            <4> HIDE DEF r, q
            <4>7. /\ q \o r \in Seq(Tasks) /\ IsInjective(q \o r)
                  /\ Range(q \o r) = Range(q) \cup Range(r) /\ (q # <<>> => Head(q \o r) = Head(q))
                BY <4>2, <4>3, <4>6, WithMore
            <4> QED BY <1>6, <3>2, <4>2, <4>4, <4>5, <4>7 DEF q
        <3>3. CASE ~(y = at /\ fut # None)
            <4>1. queue'[y] = Without(queue[y], gone)
                BY <1>1, <3>3
            <4>2. /\ Without(queue[y], gone) \in Seq(Tasks) /\ IsInjective(Without(queue[y], gone))
                  /\ Range(Without(queue[y], gone)) = Range(queue[y]) \ gone
                  /\ queue[y] # <<>> /\ Head(queue[y]) \notin gone
                        => Head(Without(queue[y], gone)) = Head(queue[y])
                BY <3>1, WithoutTasks
            <4>3. y = at => new = {}
                BY <1>6, <3>3
            <4> QED BY <4>1, <4>2, <4>3
        <3> QED BY <3>2, <3>3
    <2>2. queue' = [y \in Executors |-> queue'[y]]
        BY <1>1
    <2>3. queue' \in [Executors -> Seq(Tasks)]
        BY <2>1, <2>2
    <2> QED BY <2>1, <2>3
<1> HIDE DEF new
<1>11. Cancels(routed, gone, new, table)
    BY <1>1, <1>6, <1>7, <1>8, <1>9, <1>10 DEF Cancels, gone, kept
<1>12. fut # None => table[fut] = Submitted("own", at, need)
    BY <1>6, <1>7
<1>13. Begins(routed, gone, fut, table)
    BY <1>1, <1>3, <1>5, <1>11, <1>12 DEF Begins, kept, need, new
<1> QED BY <1>13

LEMMA SweepKeeps ==
    ASSUME RInv, NEW routed \in SUBSET Experts, Sweep(routed)
    PROVE  RInv'
<1> USE DEF RInv
<1> DEFINE kept == Restricted(early[at], routed)
           need == Need(Batch(routed, 1), kept)
<1>1. /\ early' = [early EXCEPT ![at] = NoFuture] /\ UNCHANGED <<pf, at, raises, reads>>
    BY DEF Sweep
<1>2. PICK gone, fut, table : Begins(routed, gone, fut, table)
    BY SweepBegins
<1> DEFINE new == {fut} \ {None}
<1>3. /\ Cancels(routed, gone, new, table)
      /\ call' = [op |-> "sweep", routed |-> routed, batch |-> 1, kept |-> kept, fut |-> fut]
      /\ kept \in FutureMaps /\ DOMAIN kept \subseteq routed
      /\ fut \in Tasks \cup {None} /\ (fut = None <=> need = {})
      /\ fut # None => table[fut] = Submitted("own", at, need)
    BY <1>2 DEF Begins
<1>4. fut # None => fut \in new
    OBVIOUS
<1> HIDE DEF kept, need, new
<1>5. queue' \in [Executors -> Seq(Tasks)]
    BY <1>3 DEF Cancels
<1>12. /\ Queues' /\ EarlyReads' /\ task' \in Tables
       /\ \A e \in DOMAIN call'.kept : ReadsEarly(call.kept[e], e)'
       /\ \A j \in new : task'[j] = table[j]
       /\ raises = 0 =>
             /\ \A j \in Tasks : task'[j].st # "raised"
             /\ \A x \in Executors : \A j \in Range(queue'[x]) :
                   task'[j].kind = "early" /\ task'[j].st = "queued" => j \in EarlyHeld'
    BY <1>3, Cancelling
<1>13. /\ call'.op = "sweep" /\ call'.routed = routed /\ call'.batch = 1 /\ call'.kept = kept
       /\ call'.fut = fut /\ call' \in Calls
    BY <1>3 DEF Calls
<1>14. Types'
    <2>1. early' \in [Layers -> FutureMaps]
        BY <1>1, NoFutures DEF Types
    <2> QED BY <1>1, <1>5, <1>12, <1>13, <2>1 DEF Types
<1>15. SweepReads'
    <2>1. Needed' = need
        BY <1>13 DEF Needed, need
    <2>3. call'.fut # None => ReadsOwn(call.fut, Needed)'
        <3>1. ASSUME fut # None
              PROVE  /\ task'[fut].kind = "own" /\ task'[fut].ids = need
                     /\ task'[fut].st # "cancelled"
            BY <1>3, <1>4, <1>12, <3>1 DEF Submitted
        <3> QED BY <1>13, <2>1, <3>1 DEF ReadsOwn
    <2> QED BY <1>3, <1>12, <1>13, <2>1, <2>3 DEF SweepReads
<1>16. Calm'
    <2>1. ASSUME NEW e \in DOMAIN kept PROVE ~(BatchOf(routed, e) < 1)
        <3>1. e \in routed
            BY <1>3
        <3>2. BatchOf(routed, e) \in 1 .. NBatches(routed) /\ NBatches(routed) \in Nat
            BY <3>1, BatchNumbers
        <3> QED BY <3>2
    <2> QED BY <1>1, <1>12, <1>13, <2>1 DEF Calm
<1> QED BY <1>12, <1>14, <1>15, <1>16

-----------------------------------------------------------------------------
(* The invariant, and what it says of the properties.                      *)
LEMMA NextRInv ==
    ASSUME RInv, [Next]_vars
    PROVE  RInv'
<1>1. CASE Next
    <2>1. ASSUME NEW x \in Executors, Start(x) PROVE RInv'
        BY <2>1, StartKeeps
    <2>2. ASSUME NEW x \in Executors, Finish(x) PROVE RInv'
        BY <2>2, FinishKeeps
    <2>3. ASSUME NEW routed \in SUBSET Experts, Sweep(routed) PROVE RInv'
        BY <2>3, SweepKeeps
    <2>4. CASE Proceed
        BY <2>4, NextBatchKeeps, LastBatchKeeps, SweepRaisesKeeps, DecodeDoneKeeps DEF Proceed
    <2>5. CASE PoolCall
        BY <2>5, PoolCallKeeps
    <2>6. CASE StreamCall \/ Leave
        BY <2>6, HostKeeps
    <2> QED BY <1>1, <2>1, <2>2, <2>3, <2>4, <2>5, <2>6 DEF Next
<1>2. CASE UNCHANGED vars
    BY <1>2 DEF vars, RInv, Types, Queues, Waits, EarlyReads, ReadsEarly, SweepReads, ReadsOwn, Needed,
                Calm, EarlyHeld
<1> QED BY <1>1, <1>2

LEMMA AlwaysRInv == Spec => []RInv
<1>1. Init => RInv
    BY InitRInv
<1>2. RInv /\ [Next]_vars => RInv'
    BY NextRInv
<1> QED BY <1>1, <1>2, PTL DEF Spec

LEMMA TypeOKHolds ==
    ASSUME RInv
    PROVE  TypeOK
<1> USE DEF RInv
<1>1. ASSUME NEW j \in Tasks
      PROVE  /\ task[j].st \in {"free", "queued", "running", "done", "raised", "cancelled"}
             /\ task[j].ids \subseteq Experts
             /\ j \in Queued => task[j].st \in {"queued", "running"}
    <2>1. task[j] \in Entries
        BY DEF Types, Tables
    <2>2. j \in Queued => task[j].st \in {"queued", "running"}
        BY DEF Queued, Queues, Waits
    <2> QED BY <2>1, <2>2 DEF Entries, States
<1>2. ASSUME NEW x \in Executors
      PROVE  /\ Range(queue[x]) \subseteq Tasks /\ IsInjective(queue[x])
             /\ \A i \in 2 .. Len(queue[x]) : task[queue[x][i]].st = "queued"
    <2>1. Range(queue[x]) \subseteq Tasks /\ IsInjective(queue[x]) /\ queue[x] \in Seq(Tasks)
        BY QueueFacts
    <2>2. ASSUME NEW i \in 2 .. Len(queue[x]) PROVE task[queue[x][i]].st = "queued"
        <3> DEFINE q == queue[x]
        <3>1. /\ Len(q) \in Nat /\ DOMAIN q = 1 .. Len(q) /\ i \in DOMAIN q /\ 1 \in DOMAIN q
              /\ i # 1 /\ Head(q) = q[1]
            BY <2>1, LenProperties, HeadTailProperties
        <3>2. q[i] # Head(q) /\ q[i] \in Range(q)
            BY <2>1, <3>1 DEF IsInjective, Range
        <3> QED BY <3>2 DEF Queues, Waits
    <2> QED BY <2>1, <2>2
<1>3. \A l \in Layers : DOMAIN early[l] \subseteq Experts /\ pf[l] \in Tasks \cup {None}
    BY FutureMap DEF Types
<1>4. /\ at \in Layers /\ call.op \in {"none", "sweep", "decode", "left"}
      /\ raises \in 0 .. MaxRaises
    BY DEF Types, Calls
<1> QED BY <1>1, <1>2, <1>3, <1>4 DEF TypeOK

LEMMA WholeHolds ==
    ASSUME RInv
    PROVE  TakenAlive /\ RowsComplete
<1> USE DEF RInv
<1>1. TakenAlive
    BY NoFutures DEF TakenAlive, SweepReads, ReadsEarly
<1>2. RowsComplete
    <2> SUFFICES ASSUME Ready, NEW e \in Batch(call.routed, call.batch)
                 PROVE  \E j \in BatchFutures : e \in task[j].ids
        BY DEF RowsComplete, Rows
    <2>1. call.op = "sweep"
        BY DEF Ready
    <2>2. CASE e \in DOMAIN call.kept
        <3>1. call.kept[e] \in BatchFutures
            BY <2>2 DEF BatchFutures
        <3>2. e \in task[call.kept[e]].ids
            BY <2>1, <2>2 DEF SweepReads, ReadsEarly
        <3> QED BY <3>1, <3>2
    <2>3. CASE e \notin DOMAIN call.kept
        <3>1. e \in Needed
            BY <2>3 DEF Need, Needed
        <3>2. call.fut # None /\ task[call.fut].ids = Needed
            BY <2>1, <3>1 DEF SweepReads, ReadsOwn
        <3>3. call.fut \in BatchFutures
            BY <3>2 DEF BatchFutures
        <3> QED BY <3>1, <3>2, <3>3
    <2> QED BY <2>2, <2>3
<1> QED BY <1>1, <1>2

-----------------------------------------------------------------------------
(* How often an expert is read.  Conjuncts of an invariant of their own:   *)
(* while no read raises, an expert is read or asked for at most once for a *)
(* layer's next answer, and what has been read or asked is what the layer  *)
(* holds or its sweep has come to.                                         *)

\* A task that waits will read e for layer l.
Asks(j, l, e) == task[j].st = "queued" /\ task[j].layer = l /\ e \in task[j].ids
Sweeps(l) == call.op = "sweep" /\ l = at

\* e has been read for l, or will be by a task that waits.
Touched(l, e) == reads[l][e] # 0 \/ \E j \in Tasks : Asks(j, l, e)

\* Nothing is read twice: who waits to read an expert is alone, and first.
Alone ==
    \A l \in Layers : \A e \in Experts :
        /\ reads[l][e] \in {0, 1}
        /\ \A j \in Tasks : Asks(j, l, e) => reads[l][e] = 0
        /\ \A j, k \in Tasks : Asks(j, l, e) /\ Asks(k, l, e) => j = k

\* A future is of a read that waits or has begun.
EarlyBegun ==
    \A l \in Layers : \A e \in DOMAIN early[l] :
        task[early[l][e]].st # "queued" => reads[l][e] = 1

\* What is read ahead for a layer is what it holds.
HeldAhead ==
    \A l \in Layers : ~Sweeps(l) => \A e \in Experts :
        /\ reads[l][e] # 0 => e \in DOMAIN early[l]
        /\ \A j \in Tasks : Asks(j, l, e) => e \in DOMAIN early[l] /\ early[l][e] = j

\* The batches behind a sweep are read; of what it routes, nothing before its
\* turn but what it has taken.
SweptOnce ==
    call.op = "sweep" =>
        /\ early[at] = NoFuture
        /\ \A e \in DOMAIN call.kept :
              /\ task[call.kept[e]].layer = at
              /\ task[call.kept[e]].st # "queued" => reads[at][e] = 1
        /\ call.fut # None =>
              /\ task[call.fut].layer = at
              /\ \A e \in Needed : task[call.fut].st # "queued" => reads[at][e] = 1
        /\ \A e \in call.routed : BatchOf(call.routed, e) < call.batch => reads[at][e] = 1
        /\ \A e \in call.routed :
              Touched(at, e) => e \in DOMAIN call.kept \/ BatchOf(call.routed, e) <= call.batch
        /\ \A j \in Tasks : \A e \in Experts :
              Asks(j, at, e) => j = call.fut \/ j \in Range(call.kept)

Once == raises = 0 => Alone /\ EarlyBegun /\ HeldAhead /\ SweptOnce

\* The tasks a layer or a call holds.
HeldNow == (UNION {Range(early[l]) : l \in Layers}) \cup Range(call.kept) \cup ({call.fut} \ {None})

\* A step that begins no read and asks for none keeps the four.
LEMMA QuietOnce ==
    ASSUME RInv, Once, raises' = 0 => raises = 0, reads' = reads, early' = early,
           call.op = "sweep" => call' = call /\ at' = at,
           call.op # "sweep" => call'.op # "sweep",
           \A j \in Tasks : \A l \in Layers : \A e \in Experts : Asks(j, l, e)' => Asks(j, l, e),
           \A j \in HeldNow : /\ task'[j].layer = task[j].layer
                              /\ task'[j].st # "queued" => task[j].st # "queued"
    PROVE  Once'
<1> SUFFICES ASSUME raises' = 0 PROVE (Alone /\ EarlyBegun /\ HeldAhead /\ SweptOnce)'
    BY DEF Once
<1>1. Alone /\ EarlyBegun /\ HeldAhead /\ SweptOnce
    BY DEF Once
<1>2. Alone'
    BY <1>1 DEF Alone
<1>3. EarlyBegun'
    <2>1. \A l \in Layers : \A e \in DOMAIN early[l] : early[l][e] \in HeldNow
        BY EarlyTasks DEF HeldNow, RInv
    <2> QED BY <1>1, <2>1 DEF EarlyBegun
<1>4. HeldAhead'
    <2>1. \A l \in Layers : Sweeps(l)' <=> Sweeps(l)
        BY DEF Sweeps
    <2> QED BY <1>1, <2>1 DEF HeldAhead
<1>5. SweptOnce'
    <2> SUFFICES ASSUME call.op = "sweep" PROVE SweptOnce'
        BY DEF SweptOnce
    <2>1. call' = call /\ at' = at /\ at \in Layers
        BY DEF RInv, Types
    <2>2. /\ \A e \in DOMAIN call.kept : call.kept[e] \in HeldNow
          /\ call.fut # None => call.fut \in HeldNow
        BY EarlyTasks DEF HeldNow, RInv
    <2>3. Needed' = Needed
        BY <2>1 DEF Needed
    <2>4. \A e \in Experts : Touched(at, e)' => Touched(at, e)
        BY <2>1 DEF Touched
    <2>5. call.routed \subseteq Experts
        BY EarlyTasks DEF RInv
    <2> QED BY <1>1, <2>1, <2>2, <2>3, <2>4, <2>5 DEF SweptOnce
<1> QED BY <1>2, <1>3, <1>4, <1>5

LEMMA InitOnce ==
    ASSUME Init
    PROVE  Once
<1>1. \A j \in Tasks : task[j].st = "free"
    BY DEF Init, Blank
<1>2. \A l \in Layers : early[l] = NoFuture /\ \A e \in Experts : reads[l][e] = 0
    BY DEF Init, Unread
<1>3. call.op = "none"
    BY DEF Init, NoCall
<1> QED BY <1>1, <1>2, <1>3, NoFutures DEF Once, Alone, EarlyBegun, HeldAhead, SweptOnce, Asks

\* A read begun is the one that waited for its experts.
LEMMA StartOnce ==
    ASSUME RInv, Once, NEW x \in Executors, Start(x)
    PROVE  Once'
<1> DEFINE h == Head(queue[x])
<1>1. /\ task[h].st = "queued" /\ h \in Tasks /\ ReadsBegun(h)
      /\ task' = [task EXCEPT ![h].st = "running"]
      /\ UNCHANGED <<early, at, call, raises>>
    BY QueueFacts DEF Start, RInv
<1> HIDE DEF h
<1> SUFFICES ASSUME raises = 0 PROVE (Alone /\ EarlyBegun /\ HeldAhead /\ SweptOnce)'
    BY <1>1 DEF Once
<1>2. Alone /\ EarlyBegun /\ HeldAhead /\ SweptOnce
    BY DEF Once
<1>3. /\ \A j \in Tasks : /\ task'[j].layer = task[j].layer /\ task'[j].ids = task[j].ids
                          /\ j # h => task'[j].st = task[j].st
      /\ task'[h].st = "running"
    BY <1>1 DEF RInv, Types, Tables, Entries
<1>4. \A l \in Layers : \A e \in Experts :
         /\ Asks(h, l, e) => reads[l][e] = 0 /\ reads'[l][e] = 1
         /\ ~Asks(h, l, e) => reads'[l][e] = reads[l][e]
    <2> SUFFICES ASSUME NEW l \in Layers, NEW e \in Experts
                 PROVE  /\ Asks(h, l, e) => reads[l][e] = 0 /\ reads'[l][e] = 1
                        /\ ~Asks(h, l, e) => reads'[l][e] = reads[l][e]
        OBVIOUS
    <2> DEFINE k == task[h].layer
               more == [f \in Experts |-> reads[k][f] + IF f \in task[h].ids THEN 1 ELSE 0]
    <2>1. reads' = [reads EXCEPT ![k] = more] /\ reads \in [Layers -> [Experts -> Nat]]
        BY <1>1 DEF ReadsBegun, RInv, Types
    <2>2. more[e] = reads[k][e] + IF e \in task[h].ids THEN 1 ELSE 0
        OBVIOUS
    <2> HIDE DEF more
    <2>3. CASE k = l
        <3>1. reads'[l] = more /\ reads[l][e] \in Nat
            BY <2>1, <2>3
        <3>2. Asks(h, l, e) <=> e \in task[h].ids
            BY <1>1, <2>3 DEF Asks
        <3>3. Asks(h, l, e) => reads[l][e] = 0
            BY <1>1, <1>2 DEF Alone
        <3> QED BY <2>2, <2>3, <3>1, <3>2, <3>3
    <2>4. CASE k # l
        <3>1. reads'[l] = reads[l] /\ ~Asks(h, l, e)
            BY <2>1, <2>4 DEF Asks
        <3> QED BY <3>1
    <2> QED BY <2>3, <2>4
<1>5. \A j \in Tasks : \A l \in Layers : \A e \in Experts :
         Asks(j, l, e)' <=> Asks(j, l, e) /\ j # h
    BY <1>1, <1>3 DEF Asks
<1>6. Alone'
    BY <1>1, <1>2, <1>4, <1>5 DEF Alone
<1>7. EarlyBegun'
    <2> SUFFICES ASSUME NEW l \in Layers, NEW e \in DOMAIN early[l],
                        task'[early[l][e]].st # "queued"
                 PROVE  reads'[l][e] = 1
        BY <1>1 DEF EarlyBegun
    <2>1. e \in Experts /\ early[l][e] \in Tasks
        BY FutureMap DEF RInv, Types
    <2>2. CASE early[l][e] = h
        <3>1. Asks(h, l, e)
            BY <1>1, <2>2 DEF Asks, RInv, EarlyReads, ReadsEarly
        <3> QED BY <1>4, <2>1, <3>1
    <2>3. CASE early[l][e] # h
        <3>1. reads[l][e] = 1
            BY <1>2, <1>3, <2>1, <2>3 DEF EarlyBegun
        <3> QED BY <1>4, <2>1, <3>1
    <2> QED BY <2>2, <2>3
<1>8. HeldAhead'
    <2> SUFFICES ASSUME NEW l \in Layers, ~Sweeps(l), NEW e \in Experts
                 PROVE  /\ reads'[l][e] # 0 => e \in DOMAIN early[l]
                        /\ \A j \in Tasks : Asks(j, l, e)' => e \in DOMAIN early[l] /\ early[l][e] = j
        BY <1>1 DEF HeldAhead, Sweeps
    <2>1. /\ reads[l][e] # 0 => e \in DOMAIN early[l]
          /\ \A j \in Tasks : Asks(j, l, e) => e \in DOMAIN early[l] /\ early[l][e] = j
        BY <1>2 DEF HeldAhead
    <2> QED BY <1>1, <1>4, <1>5, <2>1
<1>9. SweptOnce'
    <2> SUFFICES ASSUME call.op = "sweep" PROVE SweptOnce'
        BY <1>1 DEF SweptOnce
    <2>1. /\ at \in Layers /\ call.routed \in SUBSET Experts /\ Needed' = Needed
          /\ call.kept \in FutureMaps /\ call.fut \in Tasks \cup {None}
        BY <1>1, EarlyTasks DEF RInv, Types, Needed
    <2>2. ASSUME NEW e \in DOMAIN call.kept
          PROVE  /\ task'[call.kept[e]].layer = at
                 /\ task'[call.kept[e]].st # "queued" => reads'[at][e] = 1
        <3>1. e \in Experts /\ call.kept[e] \in Tasks /\ e \in task[call.kept[e]].ids
            BY <2>1, FutureMap DEF RInv, SweepReads, ReadsEarly
        <3>2. /\ task[call.kept[e]].layer = at
              /\ task[call.kept[e]].st # "queued" => reads[at][e] = 1
            BY <1>2 DEF SweptOnce
        <3>3. call.kept[e] = h => Asks(h, at, e)
            BY <1>1, <3>1, <3>2 DEF Asks
        <3> QED BY <1>3, <1>4, <2>1, <3>1, <3>2, <3>3
    <2>3. ASSUME call.fut # None
          PROVE  /\ task'[call.fut].layer = at
                 /\ \A e \in Needed : task'[call.fut].st # "queued" => reads'[at][e] = 1
        <3>1. /\ task[call.fut].layer = at /\ task[call.fut].ids = Needed /\ call.fut \in Tasks
              /\ \A e \in Needed : task[call.fut].st # "queued" => reads[at][e] = 1
            BY <1>2, <2>1, <2>3 DEF SweptOnce, RInv, SweepReads, ReadsOwn
        <3>2. Needed \subseteq Experts
            BY <2>1 DEF Needed, Need, Batch
        <3>3. call.fut = h => \A e \in Needed : Asks(h, at, e)
            BY <1>1, <3>1 DEF Asks
        <3> QED BY <1>3, <1>4, <2>1, <3>1, <3>2, <3>3
    <2>4. ASSUME NEW e \in call.routed, BatchOf(call.routed, e) < call.batch
          PROVE  reads'[at][e] = 1
        <3>1. reads[at][e] = 1
            BY <1>2, <2>4 DEF SweptOnce
        <3> QED BY <1>4, <2>1, <3>1
    <2>5. \A e \in Experts : Touched(at, e)' => Touched(at, e)
        BY <1>1, <1>4, <1>5, <2>1 DEF Touched
    <2>6. \A j \in Tasks : \A e \in Experts :
             Asks(j, at, e)' => j = call.fut \/ j \in Range(call.kept)
        BY <1>1, <1>2, <1>5, <2>1 DEF SweptOnce, Asks
    <2> QED BY <1>1, <1>2, <2>1, <2>2, <2>3, <2>4, <2>5, <2>6 DEF SweptOnce
<1> QED BY <1>6, <1>7, <1>8, <1>9

\* A finished read leaves the others as they are.
LEMMA FinishOnce ==
    ASSUME RInv, Once, NEW x \in Executors, Finish(x)
    PROVE  Once'
<1> DEFINE h == Head(queue[x])
<1>1. /\ task[h].st = "running" /\ h \in Tasks /\ UNCHANGED <<early, pf, at, call, reads>>
    BY QueueFacts DEF Finish, Running, RInv
<1>2. PICK st \in {"done", "raised"} : Kept([task EXCEPT ![h].st = st])
    BY DEF Finish
<1>3. raises' = 0 => raises = 0
    BY ReadAheadAssumption DEF Finish, RInv, Types
<1> DEFINE table == [task EXCEPT ![h].st = st]
<1>4. /\ table \in Tables /\ table[h].st = st
      /\ \A j \in Tasks : /\ table[j].ids = task[j].ids /\ table[j].layer = task[j].layer
                          /\ j # h => table[j] = task[j]
    BY <1>1, TableExcept DEF States, RInv
<1>5. Kept(table)
    BY <1>2
<1> HIDE DEF h, table
<1>6. /\ \A j \in Tasks : task'[j] = table[j] \/ task'[j] = Blank
      /\ \A j \in Tasks \cap (Queued' \cup Referenced') : task'[j] = table[j]
    BY <1>4, <1>5, KeptTable
<1>7. \A j \in Tasks : \A l \in Layers : \A e \in Experts : Asks(j, l, e)' => Asks(j, l, e)
    BY <1>4, <1>6 DEF Asks, Blank
<1>8. \A j \in HeldNow : j \in Tasks /\ task'[j] = table[j]
    <2>1. HeldNow \subseteq Tasks /\ HeldNow \subseteq Referenced'
        BY <1>1, EarlyTasks, HeldTasks DEF HeldNow, RInv
    <2> QED BY <1>6, <2>1
<1>9. \A j \in HeldNow : /\ task'[j].layer = task[j].layer
                         /\ task'[j].st # "queued" => task[j].st # "queued"
    BY <1>1, <1>4, <1>8
<1> QED BY <1>1, <1>3, <1>7, <1>9, QuietOnce

LEMMA HostOnce ==
    ASSUME RInv, Once, StreamCall \/ Leave
    PROVE  Once'
<1>1. /\ UNCHANGED <<task, early, raises, reads>> /\ call.op # "sweep" /\ call'.op # "sweep"
    BY DEF StreamCall, Leave, RInv, Types, Calls
<1>2. \A j \in Tasks : \A l \in Layers : \A e \in Experts : Asks(j, l, e)' => Asks(j, l, e)
    BY <1>1 DEF Asks
<1> QED BY <1>1, <1>2, QuietOnce

\* A prediction's read is of no sweep's experts.
Predicts(new, table) ==
    /\ new \subseteq FreeTasks /\ table \in Tables /\ Kept(table)
    /\ \A j \in Tasks \ new : table[j] = task[j]
    /\ \A j \in new : table[j].ids = {}

LEMMA DecodeDoneOnce ==
    ASSUME RInv, Once, DecodeDone
    PROVE  Once'
<1>1. /\ call.op = "decode" /\ call' = NoCall /\ UNCHANGED <<early, raises, reads>>
    BY DEF DecodeDone
<1>2. \E new, table : Predicts(new, table)
    <2>1. task \in Tables
        BY DEF RInv, Types
    <2>2. CASE Kept(task)
        <3>1. Predicts({}, task)
            BY <2>1, <2>2 DEF Predicts
        <3> QED BY <3>1
    <2>3. CASE /\ Room(1) /\ at < NLayers
               /\ Kept([task EXCEPT ![Fresh(1)[1]] = Submitted("prefetch", at + 1, {})])
        <3> DEFINE f == Fresh(1)[1]
                   entry == Submitted("prefetch", at + 1, {})
                   table == [task EXCEPT ![f] = entry]
        <3>1. f \in FreeTasks /\ f \in Tasks
            BY <2>3, FreshFutures, HeldTasks
        <3>2. entry \in Entries /\ entry.ids = {}
            BY <2>3, ReadAheadAssumption DEF Submitted, Entries, States, Kinds, Layers, RInv, Types
        <3>3. Kept(table)
            BY <2>3
        <3> HIDE DEF f, entry
        <3>4. table \in Tables /\ table[f] = entry /\ \A j \in Tasks \ {f} : table[j] = task[j]
            BY <2>1, <3>1, <3>2 DEF Tables
        <3>5. {f} \subseteq FreeTasks /\ \A j \in {f} : table[j].ids = {}
            BY <3>1, <3>2, <3>4
        <3>6. Predicts({f}, table)
            BY <3>3, <3>4, <3>5 DEF Predicts
        <3> QED BY <3>6
    <2> QED BY <2>2, <2>3 DEF DecodeDone
<1>8. PICK new, table : Predicts(new, table)
    BY <1>2
<1>3. /\ new \subseteq FreeTasks /\ table \in Tables /\ Kept(table)
      /\ \A j \in Tasks \ new : table[j] = task[j]
      /\ \A j \in new : table[j].ids = {}
    BY <1>8 DEF Predicts
<1>4. /\ \A j \in Tasks : task'[j] = table[j] \/ task'[j] = Blank
      /\ \A j \in Tasks \cap (Queued' \cup Referenced') : task'[j] = table[j]
    BY <1>3, KeptTable
<1>5. \A j \in Tasks : \A l \in Layers : \A e \in Experts : Asks(j, l, e)' => Asks(j, l, e)
    BY <1>3, <1>4 DEF Asks, Blank
<1>6. /\ call.kept = NoFuture /\ call.op # "sweep" /\ call'.op # "sweep"
    BY <1>1 DEF RInv, SweepReads, NoCall
<1>7. ASSUME raises = 0 PROVE EarlyBegun' /\ HeldAhead' /\ SweptOnce' /\ Alone'
    <2>1. Alone /\ EarlyBegun /\ HeldAhead
        BY <1>7 DEF Once
    <2>2. \A l \in Layers : \A e \in DOMAIN early[l] : task'[early[l][e]] = task[early[l][e]]
        <3> SUFFICES ASSUME NEW l \in Layers, NEW e \in DOMAIN early[l]
                     PROVE  task'[early[l][e]] = task[early[l][e]]
            OBVIOUS
        <3> DEFINE j == early[l][e]
        <3>1. j \in Tasks /\ j \in Referenced /\ j \in Referenced'
            BY <1>1, EarlyTasks, HeldTasks DEF RInv
        <3>2. j \notin new
            BY <1>3, <3>1, HeldTasks
        <3> QED BY <1>3, <1>4, <3>1, <3>2
    <2>3. EarlyBegun'
        BY <1>1, <2>1, <2>2 DEF EarlyBegun
    <2>4. HeldAhead'
        BY <1>1, <1>5, <1>6, <2>1 DEF HeldAhead, Sweeps
    <2>5. Alone'
        BY <1>1, <1>5, <2>1 DEF Alone
    <2> QED BY <1>6, <2>3, <2>4, <2>5 DEF SweptOnce
<1> QED BY <1>1, <1>7 DEF Once

\* A batch's own read is of experts no one has read or waits to read.
LEMMA NextBatchOnce ==
    ASSUME RInv, Once, NextBatch
    PROVE  Once'
<1> DEFINE i == call.batch + 1
           need == Need(Batch(call.routed, i), call.kept)
<1>1. /\ call.op = "sweep" /\ \A j \in BatchFutures : task[j].st = "done"
      /\ UNCHANGED <<early, at, raises, reads>> /\ at \in Layers
    BY DEF NextBatch, Ready, RInv, Types
<1> SUFFICES ASSUME raises = 0 PROVE (Alone /\ EarlyBegun /\ HeldAhead /\ SweptOnce)'
    BY <1>1 DEF Once
<1>2. Alone /\ EarlyBegun /\ HeldAhead /\ SweptOnce
    BY DEF Once
<1>3. PICK fut, r, table : ReadsBatch(fut, r, table)
    BY NextBatchReads
<1>4. /\ Puts(at, r, table, "own") /\ call' = [call EXCEPT !.batch = i, !.fut = fut]
      /\ fut \in FreeTasks \cup {None} /\ (fut # None => fut \in Range(r))
      /\ \A j \in Range(r) : j = fut /\ table[j] = Submitted("own", at, need)
    BY <1>3 DEF ReadsBatch
<1>5. /\ \A j \in Tasks \ Range(r) : table[j] = task[j]
      /\ Range(r) \subseteq FreeTasks /\ \A j \in Range(r) : j \in Tasks /\ task'[j] = table[j]
      /\ \A j \in Tasks : /\ task'[j] = table[j] \/ task'[j] = Blank
                          /\ j \in Queued' \cup Referenced' => task'[j] = table[j]
    <2>1. at \in Executors /\ at # 0
        BY <1>1, ReadAheadAssumption DEF Executors, Layers
    <2>2. Types /\ Queues
        BY DEF RInv
    <2>3. \A j \in Tasks \ Range(r) : table[j] = task[j]
        BY <1>4 DEF Puts
    <2> QED BY <1>4, <2>1, <2>2, <2>3, Submitting
<1>6. /\ call.routed \in SUBSET Experts /\ call.batch \in Nat /\ call.kept \in FutureMaps
      /\ call'.op = "sweep" /\ call'.kept = call.kept /\ call'.routed = call.routed
      /\ call'.batch = i /\ call'.fut = fut
    BY <1>1, <1>4, EarlyTasks DEF RInv, Types, Calls
<1>7. need \subseteq Experts /\ \A e \in need : /\ e \in call.routed /\ e \notin DOMAIN call.kept
                                                /\ BatchOf(call.routed, e) = i
    BY <1>6 DEF Need, Batch
<1>8. \A e \in need : ~Touched(at, e)
    BY <1>1, <1>2, <1>6, <1>7 DEF SweptOnce
<1> HIDE DEF need
<1>9. \A j \in Tasks : \A l \in Layers : \A e \in Experts :
         Asks(j, l, e)' => Asks(j, l, e) \/ (j = fut /\ l = at /\ e \in need)
    <2> SUFFICES ASSUME NEW j \in Tasks, NEW l \in Layers, NEW e \in Experts, Asks(j, l, e)'
                 PROVE  Asks(j, l, e) \/ (j = fut /\ l = at /\ e \in need)
        OBVIOUS
    <2>1. task'[j] = table[j]
        BY <1>5 DEF Asks, Blank
    <2>2. CASE j \in Range(r)
        BY <1>4, <2>1, <2>2 DEF Asks, Submitted
    <2>3. CASE j \notin Range(r)
        BY <1>5, <2>1, <2>3 DEF Asks
    <2> QED BY <2>2, <2>3
<1>10. Alone'
    <2> SUFFICES ASSUME NEW l \in Layers, NEW e \in Experts
                 PROVE  /\ reads[l][e] \in {0, 1}
                        /\ \A j \in Tasks : Asks(j, l, e)' => reads[l][e] = 0
                        /\ \A j, k \in Tasks : Asks(j, l, e)' /\ Asks(k, l, e)' => j = k
        BY <1>1 DEF Alone
    <2>1. /\ reads[l][e] \in {0, 1}
          /\ \A j \in Tasks : Asks(j, l, e) => reads[l][e] = 0
          /\ \A j, k \in Tasks : Asks(j, l, e) /\ Asks(k, l, e) => j = k
        BY <1>2 DEF Alone
    <2>2. CASE l = at /\ e \in need
        <3>1. reads[l][e] = 0 /\ \A j \in Tasks : ~Asks(j, l, e)
            BY <1>8, <2>2 DEF Touched
        <3> QED BY <1>9, <3>1
    <2>3. CASE ~(l = at /\ e \in need)
        BY <1>9, <2>1, <2>3
    <2> QED BY <2>2, <2>3
<1>11. \A j \in Tasks \cap Referenced : j \in Referenced' => task'[j] = task[j]
    BY <1>5, HeldTasks
<1>12. EarlyBegun'
    <2>1. \A l \in Layers : \A e \in DOMAIN early[l] :
             early[l][e] \in Tasks \cap Referenced /\ early[l][e] \in Referenced'
        BY <1>1, EarlyTasks, HeldTasks DEF RInv
    <2> QED BY <1>1, <1>2, <1>11, <2>1 DEF EarlyBegun
<1>13. HeldAhead'
    BY <1>1, <1>2, <1>6, <1>9 DEF HeldAhead, Sweeps
<1>14. SweptOnce'
    <2>1. ASSUME NEW e \in DOMAIN call.kept
          PROVE  /\ call.kept[e] \in Tasks /\ task'[call.kept[e]] = task[call.kept[e]]
        <3>1. call.kept[e] \in Tasks /\ call.kept[e] \in Referenced /\ call.kept[e] \in Referenced'
            BY <1>6, EarlyTasks, HeldTasks DEF RInv
        <3> QED BY <1>11, <3>1
    <2>2. \A e \in DOMAIN call.kept : /\ task'[call.kept[e]].layer = at
                                      /\ task'[call.kept[e]].st # "queued" => reads[at][e] = 1
        BY <1>1, <1>2, <2>1 DEF SweptOnce
    <2>3. fut # None => /\ task'[fut].layer = at /\ task'[fut].st = "queued"
        BY <1>4, <1>5 DEF Submitted
    <2>4. ASSUME NEW e \in call.routed, BatchOf(call.routed, e) < i PROVE reads[at][e] = 1
        <3>1. BatchOf(call.routed, e) \in Nat
            BY <1>6, BatchNumbers
        <3>2. CASE BatchOf(call.routed, e) < call.batch
            BY <1>1, <1>2, <3>2 DEF SweptOnce
        <3>3. CASE BatchOf(call.routed, e) = call.batch /\ e \in DOMAIN call.kept
            <4>1. call.kept[e] \in BatchFutures
                BY <3>3 DEF BatchFutures, Batch
            <4> QED BY <1>1, <1>2, <3>3, <4>1 DEF SweptOnce
        <3>4. CASE BatchOf(call.routed, e) = call.batch /\ e \notin DOMAIN call.kept
            <4>1. e \in Needed
                BY <3>4 DEF Needed, Need, Batch
            <4>2. call.fut # None
                BY <1>1, <4>1 DEF RInv, SweepReads
            <4>3. call.fut \in BatchFutures
                BY <4>2 DEF BatchFutures
            <4> QED BY <1>1, <1>2, <4>1, <4>2, <4>3 DEF SweptOnce
        <3> QED BY <1>6, <2>4, <3>1, <3>2, <3>3, <3>4
    <2>5. ASSUME NEW e \in call.routed, Touched(at, e)'
          PROVE  e \in DOMAIN call.kept \/ BatchOf(call.routed, e) <= i
        <3>0. BatchOf(call.routed, e) \in 1 .. NBatches(call.routed) /\ NBatches(call.routed) \in Nat
            BY <1>6, BatchNumbers
        <3>1. BatchOf(call.routed, e) \in Nat /\ e \in Experts
            BY <1>6, <3>0
        <3>2. CASE Touched(at, e)
            BY <1>1, <1>2, <1>6, <3>1, <3>2 DEF SweptOnce
        <3>3. CASE ~Touched(at, e)
            <4>1. e \in need
                BY <1>1, <1>9, <2>5, <3>1, <3>3 DEF Touched
            <4> QED BY <1>6, <1>7, <4>1
        <3> QED BY <3>2, <3>3
    <2>6. ASSUME NEW j \in Tasks, NEW e \in Experts, Asks(j, at, e)'
          PROVE  j = fut \/ j \in Range(call.kept)
        <3>1. CASE j = fut
            BY <3>1
        <3>2. CASE j # fut
            <4>1. Asks(j, at, e)
                BY <1>1, <1>9, <2>6, <3>2
            <4>2. j = call.fut \/ j \in Range(call.kept)
                BY <1>1, <1>2, <4>1 DEF SweptOnce
            <4>3. j # call.fut
                <5>1. call.fut # None => call.fut \in BatchFutures
                    BY DEF BatchFutures
                <5>2. j # None
                    BY DEF Tasks, None
                <5> QED BY <1>1, <4>1, <5>1, <5>2 DEF Asks
            <4> QED BY <4>2, <4>3
        <3> QED BY <3>1, <3>2
    <2>7. early[at] = NoFuture
        BY <1>1, <1>2 DEF SweptOnce
    <2> HIDE DEF i
    <2>8. \A j \in Tasks : \A e \in Experts :
             Asks(j, at, e)' => j = call'.fut \/ j \in Range(call'.kept)
        BY <1>6, <2>6
    <2>9. \A e \in call'.routed :
             Touched(at, e)' => e \in DOMAIN call'.kept \/ BatchOf(call'.routed, e) <= call'.batch
        BY <1>6, <2>5
    <2>10. \A e \in call'.routed : BatchOf(call'.routed, e) < call'.batch => reads'[at][e] = 1
        BY <1>1, <1>6, <2>4
    <2>11. call'.fut # None =>
              /\ task'[call'.fut].layer = at
              /\ \A e \in Needed' : task'[call'.fut].st # "queued" => reads'[at][e] = 1
        BY <1>6, <2>3
    <2>12. \A e \in DOMAIN call'.kept : /\ task'[call'.kept[e]].layer = at
                                        /\ task'[call'.kept[e]].st # "queued" => reads'[at][e] = 1
        BY <1>1, <1>6, <2>2
    <2>13. at' = at /\ early'[at] = NoFuture
        BY <1>1, <2>7
    <2> QED BY <2>8, <2>9, <2>10, <2>11, <2>12, <2>13 DEF SweptOnce, Touched, Asks
<1> QED BY <1>10, <1>12, <1>13, <1>14

\* A sweep that ends has read what it routed; the reads it starts for the next
\* layer are the first of that layer's.
LEMMA LastBatchOnce ==
    ASSUME RInv, Once, LastBatch
    PROVE  Once'
<1>1. /\ call.op = "sweep" /\ \A j \in BatchFutures : task[j].st = "done"
      /\ call.batch = NBatches(call.routed) /\ call' = NoCall /\ UNCHANGED raises
      /\ reads' = [reads EXCEPT ![at] = Unread] /\ at \in Layers
    BY DEF LastBatch, Ready, RInv, Types
<1> SUFFICES ASSUME raises = 0 PROVE (Alone /\ EarlyBegun /\ HeldAhead /\ SweptOnce)'
    BY <1>1 DEF Once
<1>2. Alone /\ EarlyBegun /\ HeldAhead /\ SweptOnce
    BY DEF Once
<1>3. PICK r, table : Puts(0, r, table, "early") /\ Announced(r, table)
    BY SweepAnnounces
<1>4. /\ \A j \in Tasks \ Range(r) : table[j] = task[j]
      /\ \A j \in Range(r) : table[j].st = "queued"
      /\ Range(r) \subseteq FreeTasks /\ \A j \in Range(r) : j \in Tasks /\ task'[j] = table[j]
      /\ \A j \in Tasks : /\ task'[j] = table[j] \/ task'[j] = Blank
                          /\ j \in Queued' \cup Referenced' => task'[j] = table[j]
    <2>1. Types /\ Queues /\ 0 \in Executors
        BY DEF RInv, Executors
    <2>2. \A j \in Tasks \ Range(r) : table[j] = task[j]
        BY <1>3 DEF Puts
    <2>3. \A j \in Range(r) : table[j].st = "queued"
        BY <1>3 DEF Puts
    <2> QED BY <1>3, <2>1, <2>2, <2>3, Submitting
<1>5. /\ \A e \in Experts : reads'[at][e] = 0
      /\ \A l \in Layers : l # at => reads'[l] = reads[l]
    BY <1>1 DEF RInv, Types, Unread
\* All the sweep waited for is done.
<1>6. \A j \in Tasks : \A e \in Experts : ~Asks(j, at, e)
    <2> SUFFICES ASSUME NEW j \in Tasks, NEW e \in Experts, Asks(j, at, e) PROVE FALSE
        OBVIOUS
    <2>1. j = call.fut \/ j \in Range(call.kept)
        BY <1>1, <1>2 DEF SweptOnce
    <2>2. CASE j = call.fut
        <3>1. j \in BatchFutures
            BY <2>2 DEF BatchFutures, Tasks, None
        <3> QED BY <1>1, <3>1 DEF Asks
    <2>3. CASE j \in Range(call.kept)
        <3>1. PICK f \in DOMAIN call.kept : j = call.kept[f]
            BY <2>3 DEF Range
        <3>2. f \in call.routed /\ call.routed \in SUBSET Experts /\ call.batch \in Nat
            BY <1>1, <3>1, EarlyTasks DEF SweepReads, RInv
        <3>3. BatchOf(call.routed, f) \in 1 .. call.batch
            BY <1>1, <3>2, BatchNumbers
        <3>4. CASE BatchOf(call.routed, f) < call.batch
            BY <1>1, <3>1, <3>4 DEF Calm, RInv, Asks
        <3>5. CASE BatchOf(call.routed, f) = call.batch
            <4>1. j \in BatchFutures
                BY <3>1, <3>2, <3>5 DEF BatchFutures, Batch
            <4> QED BY <1>1, <4>1 DEF Asks
        <3> QED BY <3>2, <3>3, <3>4, <3>5
    <2> QED BY <2>1, <2>2, <2>3
\* Who asks is a new task, which the layer holds, or asked before.
<1>7. ASSUME NEW j \in Tasks, NEW l \in Layers, NEW e \in Experts, Asks(j, l, e)'
      PROVE  \/ Asks(j, l, e) /\ l # at /\ j \notin Range(r)
             \/ /\ early[l] = NoFuture /\ l # at
                /\ e \in DOMAIN early'[l] /\ early'[l][e] = j
    <2>1. task'[j] = table[j]
        BY <1>4, <1>7 DEF Asks, Blank
    <2>2. CASE j \in Range(r)
        BY <1>3, <1>7, <2>1, <2>2 DEF Asks, Announced
    <2>3. CASE j \notin Range(r)
        <3>1. Asks(j, l, e)
            BY <1>4, <1>7, <2>1, <2>3 DEF Asks
        <3> QED BY <1>6, <2>3, <3>1
    <2> QED BY <2>2, <2>3
<1>8. \A l \in Layers : early'[l] # early[l] => early[l] = NoFuture /\ l # at
    BY <1>3 DEF Announced
<1>9. \A l \in Layers : l # at /\ early[l] = NoFuture =>
         \A e \in Experts : reads[l][e] = 0 /\ \A j \in Tasks : ~Asks(j, l, e)
    BY <1>2, NoFutures DEF HeldAhead, Sweeps
<1>10. HeldAhead'
    <2> SUFFICES ASSUME NEW l \in Layers, NEW e \in Experts
                 PROVE  /\ reads'[l][e] # 0 => e \in DOMAIN early'[l]
                        /\ \A j \in Tasks : Asks(j, l, e)'
                              => e \in DOMAIN early'[l] /\ early'[l][e] = j
        BY DEF HeldAhead
    <2>1. CASE l = at
        BY <1>5, <1>7, <2>1
    <2>2. CASE l # at
        <3>1. /\ reads[l][e] # 0 => e \in DOMAIN early[l]
              /\ \A j \in Tasks : Asks(j, l, e) => e \in DOMAIN early[l] /\ early[l][e] = j
            BY <1>2, <2>2 DEF HeldAhead, Sweeps
        <3>2. CASE early'[l] = early[l]
            BY <1>5, <1>7, <2>2, <3>1, <3>2
        <3>3. CASE early'[l] # early[l]
            <4>1. reads[l][e] = 0 /\ \A j \in Tasks : ~Asks(j, l, e)
                BY <1>8, <1>9, <3>3
            <4> QED BY <1>5, <1>7, <2>2, <4>1
        <3> QED BY <3>2, <3>3
    <2> QED BY <2>1, <2>2
<1>11. Alone'
    <2> SUFFICES ASSUME NEW l \in Layers, NEW e \in Experts
                 PROVE  /\ reads'[l][e] \in {0, 1}
                        /\ \A j \in Tasks : Asks(j, l, e)' => reads'[l][e] = 0
                        /\ \A j, k \in Tasks : Asks(j, l, e)' /\ Asks(k, l, e)' => j = k
        BY DEF Alone
    <2>1. \A j, k \in Tasks : Asks(j, l, e)' /\ Asks(k, l, e)' => j = k
        BY <1>1, <1>10 DEF HeldAhead, Sweeps, NoCall
    <2>2. CASE l = at
        BY <1>5, <1>7, <2>2
    <2>3. CASE l # at
        <3>1. /\ reads[l][e] \in {0, 1} /\ \A j \in Tasks : Asks(j, l, e) => reads[l][e] = 0
            BY <1>2 DEF Alone
        <3>2. \A j \in Tasks : Asks(j, l, e)' => Asks(j, l, e) \/ early[l] = NoFuture
            BY <1>7
        <3> QED BY <1>5, <1>9, <2>1, <2>3, <3>1, <3>2
    <2> QED BY <2>1, <2>2, <2>3
<1>12. EarlyBegun'
    <2> SUFFICES ASSUME NEW l \in Layers, NEW e \in DOMAIN early'[l],
                        task'[early'[l][e]].st # "queued"
                 PROVE  reads'[l][e] = 1
        BY DEF EarlyBegun
    <2>1. CASE early'[l] # early[l]
        <3>1. early'[l][e] \in Range(r)
            BY <1>3, <2>1 DEF Announced
        <3> QED BY <1>4, <3>1
    <2>2. CASE early'[l] = early[l]
        <3>1. l # at
            BY <1>1, <1>2, <2>2, NoFutures DEF SweptOnce
        <3>2. early[l][e] \in Tasks /\ early[l][e] \in Referenced /\ early'[l][e] \in Referenced'
            <4>1. early[l][e] \in Range(early[l]) /\ early[l][e] \in Tasks
                BY <2>2, EarlyTasks DEF RInv
            <4> QED BY <2>2, <4>1, HeldTasks
        <3>3. task'[early[l][e]] = task[early[l][e]]
            BY <1>4, <2>2, <3>2, HeldTasks
        <3>4. reads[l][e] = 1
            BY <1>2, <2>2, <3>3 DEF EarlyBegun
        <3> QED BY <1>5, <3>1, <3>4
    <2> QED BY <2>1, <2>2
<1>13. SweptOnce'
    BY <1>1 DEF SweptOnce, NoCall
<1> QED BY <1>10, <1>11, <1>12, <1>13

\* A call that gives up early reads leaves those of the other layers as they
\* are, and its own layer with what it takes.
LEMMA CancelsOnce ==
    ASSUME RInv, Alone, EarlyBegun, HeldAhead,
           NEW S, NEW gone, NEW new, NEW table, Cancels(S, gone, new, table)
    PROVE  /\ \A j \in Tasks : \A l \in Layers : \A e \in Experts :
                 Asks(j, l, e)' /\ j \notin new => Asks(j, l, e)
           /\ \A j \in Tasks : \A l \in {at} : \A e \in Experts : Asks(j, l, e)' /\ j \notin new =>
                 /\ j \in Range(Restricted(early[at], S))
                 /\ e \in DOMAIN early[at] /\ early[at][e] = j
           /\ \A l \in Layers : l # at => \A e \in DOMAIN early[l] :
                 early'[l] = early[l] /\ task'[early[l][e]] = task[early[l][e]]
           /\ early'[at] = NoFuture
           /\ \A e \in DOMAIN Restricted(early[at], S) :
                 LET j == early[at][e]
                 IN  /\ e \in DOMAIN early[at] /\ Restricted(early[at], S)[e] = j
                     /\ task'[j] = task[j] /\ task[j].layer = at
                     /\ task[j].st # "queued" => reads[at][e] = 1
<1> DEFINE kept == Restricted(early[at], S)
<1>1. /\ gone = Cancelled(Untaken(at, S)) /\ new \subseteq FreeTasks /\ call.op = "none"
      /\ table \in Tables /\ Kept(table)
      /\ \A j \in Tasks \ (gone \cup new) : table[j] = task[j]
      /\ \A j \in gone : table[j].st = "cancelled"
      /\ early' = [early EXCEPT ![at] = NoFuture] /\ call'.kept = kept
      /\ at \in Layers /\ early \in [Layers -> FutureMaps]
    BY DEF Cancels, RInv, Types
<1>2. /\ gone \subseteq Tasks /\ \A e \in DOMAIN kept : kept[e] \notin gone
      /\ \A l \in Layers : l # at => gone \cap Range(early[l]) = {}
      /\ \A j \in Range(early[at]) :
            task[j].st = "queued" /\ j \notin gone => j \in Range(kept)
    BY <1>1, GivenUp
<1>3. /\ \A j \in Tasks : task'[j] = table[j] \/ task'[j] = Blank
      /\ \A j \in Tasks \cap (Queued' \cup Referenced') : task'[j] = table[j]
    BY <1>1, KeptTable
<1>4. ASSUME NEW j \in Tasks, NEW l \in Layers, NEW e \in Experts, Asks(j, l, e)', j \notin new
      PROVE  Asks(j, l, e) /\ j \notin gone
    BY <1>1, <1>3, <1>4 DEF Asks, Blank
<1>5. early'[at] = NoFuture /\ \A l \in Layers : l # at => early'[l] = early[l]
    BY <1>1
<1>6. ASSUME NEW j \in Tasks \cap Referenced, j \notin gone, j \in Referenced'
      PROVE  task'[j] = task[j]
    <2>1. j \notin new
        BY <1>1, HeldTasks
    <2> QED BY <1>1, <1>3, <1>6, <2>1
<1>7. ASSUME NEW l \in Layers, l # at, NEW e \in DOMAIN early[l]
      PROVE  early'[l] = early[l] /\ task'[early[l][e]] = task[early[l][e]]
    <2>1. early[l][e] \in Range(early[l]) /\ early[l][e] \in Tasks
        BY EarlyTasks DEF RInv
    <2>2. early[l][e] \in Referenced /\ early[l][e] \in Referenced' /\ early[l][e] \notin gone
        BY <1>2, <1>5, <1>7, <2>1, HeldTasks
    <2> QED BY <1>5, <1>6, <1>7, <2>1, <2>2
<1>8. ASSUME NEW j \in Tasks, NEW l \in {at}, NEW e \in Experts, Asks(j, l, e)', j \notin new
      PROVE  j \in Range(kept) /\ e \in DOMAIN early[at] /\ early[at][e] = j
    <2>0. l \in Layers
        BY <1>1
    <2>1. Asks(j, at, e) /\ j \notin gone
        BY <1>4, <1>8, <2>0
    <2>2. e \in DOMAIN early[at] /\ early[at][e] = j
        BY <1>1, <2>1 DEF HeldAhead, Sweeps
    <2>3. j \in Range(early[at])
        BY <1>1, <2>2, EarlyTasks DEF RInv
    <2> QED BY <1>2, <2>1, <2>2, <2>3 DEF Asks
<1>9. ASSUME NEW e \in DOMAIN kept
      PROVE  /\ e \in DOMAIN early[at] /\ kept[e] = early[at][e]
             /\ task'[kept[e]] = task[kept[e]] /\ task[kept[e]].layer = at
             /\ task[kept[e]].st # "queued" => reads[at][e] = 1
    <2>0. early[at] \in FutureMaps
        BY <1>1
    <2>1. /\ kept \in FutureMaps /\ e \in DOMAIN early[at] /\ kept[e] = early[at][e]
          /\ kept[e] \in Range(kept)
        <3>1. /\ kept \in FutureMaps /\ DOMAIN kept = DOMAIN early[at] \cap S
              /\ \A f \in DOMAIN early[at] \cap S : kept[f] = early[at][f]
            BY <2>0, FutureMap
        <3> HIDE DEF kept
        <3>2. kept[e] \in Range(kept)
            BY <3>1, FutureMap
        <3> QED BY <3>1, <3>2
    <2> HIDE DEF kept
    <2>2. kept[e] \in Tasks /\ kept[e] \in Range(early[at])
        BY <1>1, <2>1, EarlyTasks DEF RInv
    <2>3. kept[e] \in Referenced /\ kept[e] \in Referenced'
        BY <1>1, <2>1, <2>2, HeldTasks
    <2>4. task'[kept[e]] = task[kept[e]]
        BY <1>2, <1>6, <2>2, <2>3
    <2> QED BY <1>1, <2>1, <2>4 DEF EarlyBegun, RInv, EarlyReads
<1> QED BY <1>4, <1>5, <1>7, <1>8, <1>9

LEMMA PoolCallOnce ==
    ASSUME RInv, Once, PoolCall
    PROVE  Once'
<1>1. /\ call.op = "none" /\ reads' = [reads EXCEPT ![at] = Unread] /\ raises' = raises
      /\ at \in Layers /\ call'.op # "sweep"
    BY DEF PoolCall, RInv, Types, NoCall
<1> SUFFICES ASSUME raises = 0 PROVE (Alone /\ EarlyBegun /\ HeldAhead /\ SweptOnce)'
    BY <1>1 DEF Once
<1>2. Alone /\ EarlyBegun /\ HeldAhead
    BY DEF Once
<1>3. PICK gone, table : Cancels({}, gone, {}, table)
    BY PoolCallCancels
<1>4. Range(Restricted(early[at], {})) = {}
    BY DEF Restricted, Range
<1>5. /\ \A j \in Tasks : \A l \in Layers : \A e \in Experts : Asks(j, l, e)' => Asks(j, l, e)
      /\ \A j \in Tasks : \A l \in {at} : \A e \in Experts : ~Asks(j, l, e)'
      /\ \A l \in Layers : l # at => \A e \in DOMAIN early[l] :
            early'[l] = early[l] /\ task'[early[l][e]] = task[early[l][e]]
      /\ early'[at] = NoFuture
    BY <1>2, <1>3, <1>4, CancelsOnce
<1>6. /\ \A e \in Experts : reads'[at][e] = 0
      /\ \A l \in Layers : l # at => reads'[l] = reads[l] /\ early'[l] = early[l]
    BY <1>1, <1>3 DEF RInv, Types, Unread, Cancels
<1>7. Alone'
    <2> SUFFICES ASSUME NEW l \in Layers, NEW e \in Experts
                 PROVE  /\ reads'[l][e] \in {0, 1}
                        /\ \A j \in Tasks : Asks(j, l, e)' => reads'[l][e] = 0
                        /\ \A j, k \in Tasks : Asks(j, l, e)' /\ Asks(k, l, e)' => j = k
        BY DEF Alone
    <2>1. CASE l = at
        BY <1>5, <1>6, <2>1
    <2>2. CASE l # at
        BY <1>2, <1>5, <1>6, <2>2 DEF Alone
    <2> QED BY <2>1, <2>2
<1>8. EarlyBegun'
    <2> SUFFICES ASSUME NEW l \in Layers, NEW e \in DOMAIN early'[l],
                        task'[early'[l][e]].st # "queued"
                 PROVE  reads'[l][e] = 1
        BY DEF EarlyBegun
    <2>1. l # at
        BY <1>5, NoFutures
    <2> QED BY <1>2, <1>5, <1>6, <2>1 DEF EarlyBegun
<1>9. HeldAhead'
    <2> SUFFICES ASSUME NEW l \in Layers, NEW e \in Experts
                 PROVE  /\ reads'[l][e] # 0 => e \in DOMAIN early'[l]
                        /\ \A j \in Tasks : Asks(j, l, e)'
                              => e \in DOMAIN early'[l] /\ early'[l][e] = j
        BY DEF HeldAhead
    <2>1. CASE l = at
        BY <1>5, <1>6, <2>1
    <2>2. CASE l # at
        <3>1. /\ reads[l][e] # 0 => e \in DOMAIN early[l]
              /\ \A j \in Tasks : Asks(j, l, e) => e \in DOMAIN early[l] /\ early[l][e] = j
            BY <1>1, <1>2 DEF HeldAhead, Sweeps
        <3> QED BY <1>5, <1>6, <2>2, <3>1
    <2> QED BY <2>1, <2>2
<1>10. SweptOnce'
    BY <1>1 DEF SweptOnce
<1> QED BY <1>7, <1>8, <1>9, <1>10

\* What a sweep needs of its first batch no one has read or waits to read.
LEMMA SweepOnce ==
    ASSUME RInv, Once, NEW routed \in SUBSET Experts, Sweep(routed)
    PROVE  Once'
<1> DEFINE kept == Restricted(early[at], routed)
           need == Need(Batch(routed, 1), kept)
<1>1. /\ call.op = "none" /\ UNCHANGED <<at, raises, reads>> /\ at \in Layers
      /\ early \in [Layers -> FutureMaps]
    BY DEF Sweep, RInv, Types
<1> SUFFICES ASSUME raises = 0 PROVE (Alone /\ EarlyBegun /\ HeldAhead /\ SweptOnce)'
    BY <1>1 DEF Once
<1>2. Alone /\ EarlyBegun /\ HeldAhead
    BY DEF Once
<1>3. PICK gone, fut, table : Begins(routed, gone, fut, table)
    BY SweepBegins
<1> DEFINE new == {fut} \ {None}
<1>4. /\ Cancels(routed, gone, new, table)
      /\ call' = [op |-> "sweep", routed |-> routed, batch |-> 1, kept |-> kept, fut |-> fut]
      /\ kept \in FutureMaps /\ DOMAIN kept \subseteq routed
      /\ fut # None => table[fut] = Submitted("own", at, need)
    BY <1>3 DEF Begins
<1>5. /\ call'.op = "sweep" /\ call'.routed = routed /\ call'.batch = 1 /\ call'.kept = kept
      /\ call'.fut = fut
    BY <1>4
<1>6. \A j \in new : j = fut /\ task'[j] = Submitted("own", at, need)
    <2>1. \A j \in new : task'[j] = table[j]
        BY <1>4, Cancelling
    <2> QED BY <1>4, <2>1
<1>7. need \subseteq routed /\ need \subseteq Experts /\ \A e \in need : e \notin DOMAIN early[at]
    <2>1. DOMAIN kept = DOMAIN early[at] \cap routed
        BY <1>1, FutureMap
    <2> HIDE DEF kept
    <2> QED BY <2>1 DEF Need, Batch
<1>16. DOMAIN kept = DOMAIN early[at] \cap routed
    BY <1>1, FutureMap
<1> HIDE DEF kept, need
<1>8. \A e \in need : reads[at][e] = 0 /\ \A j \in Tasks : ~Asks(j, at, e)
    BY <1>1, <1>2, <1>7 DEF HeldAhead, Sweeps
<1>9. /\ \A j \in Tasks : \A l \in Layers : \A e \in Experts :
            Asks(j, l, e)' /\ j \notin new => Asks(j, l, e)
      /\ \A j \in Tasks : \A l \in {at} : \A e \in Experts : Asks(j, l, e)' /\ j \notin new =>
            j \in Range(kept) /\ e \in DOMAIN early[at] /\ early[at][e] = j
      /\ \A l \in Layers : l # at => \A e \in DOMAIN early[l] :
            early'[l] = early[l] /\ task'[early[l][e]] = task[early[l][e]]
      /\ early'[at] = NoFuture
      /\ \A e \in DOMAIN kept :
            /\ task'[kept[e]] = task[kept[e]] /\ task[kept[e]].layer = at
            /\ task[kept[e]].st # "queued" => reads[at][e] = 1
    BY <1>2, <1>4, CancelsOnce DEF kept
<1>10. \A j \in Tasks : \A l \in Layers : \A e \in Experts :
          Asks(j, l, e)' /\ j \in new => l = at /\ e \in need
    BY <1>6 DEF Asks, Submitted
<1>11. \A l \in Layers : l # at => early'[l] = early[l]
    BY <1>1, <1>4 DEF Cancels
<1>12. Alone'
    <2> SUFFICES ASSUME NEW l \in Layers, NEW e \in Experts
                 PROVE  /\ reads[l][e] \in {0, 1}
                        /\ \A j \in Tasks : Asks(j, l, e)' => reads[l][e] = 0
                        /\ \A j, k \in Tasks : Asks(j, l, e)' /\ Asks(k, l, e)' => j = k
        BY <1>1 DEF Alone
    <2>1. CASE l = at /\ e \in need
        BY <1>6, <1>8, <1>9, <2>1
    <2>2. CASE ~(l = at /\ e \in need)
        BY <1>2, <1>9, <1>10, <2>2 DEF Alone
    <2> QED BY <2>1, <2>2
<1>13. EarlyBegun'
    <2> SUFFICES ASSUME NEW l \in Layers, NEW e \in DOMAIN early'[l],
                        task'[early'[l][e]].st # "queued"
                 PROVE  reads[l][e] = 1
        BY <1>1 DEF EarlyBegun
    <2>1. l # at
        BY <1>9, NoFutures
    <2> QED BY <1>2, <1>9, <1>11, <2>1 DEF EarlyBegun
<1>14. HeldAhead'
    <2> SUFFICES ASSUME NEW l \in Layers, l # at, NEW e \in Experts
                 PROVE  /\ reads[l][e] # 0 => e \in DOMAIN early[l]
                        /\ \A j \in Tasks : Asks(j, l, e)' => e \in DOMAIN early[l] /\ early[l][e] = j
        BY <1>1, <1>5, <1>11 DEF HeldAhead, Sweeps
    <2>1. /\ reads[l][e] # 0 => e \in DOMAIN early[l]
          /\ \A j \in Tasks : Asks(j, l, e) => e \in DOMAIN early[l] /\ early[l][e] = j
        BY <1>1, <1>2 DEF HeldAhead, Sweeps
    <2> QED BY <1>9, <1>10, <2>1
<1>15. SweptOnce'
    <2>1. \A e \in routed : /\ BatchOf(routed, e) \in Nat /\ BatchOf(routed, e) >= 1
                            /\ e \in Experts
        BY BatchNumbers
    <2>2. ASSUME NEW e \in routed, Touched(at, e)'
          PROVE  e \in DOMAIN kept \/ BatchOf(routed, e) <= 1
        <3>1. CASE reads[at][e] # 0
            <4>1. e \in DOMAIN early[at]
                BY <1>1, <1>2, <2>1, <3>1 DEF HeldAhead, Sweeps
            <4> QED BY <1>16, <4>1
        <3>2. ASSUME NEW j \in Tasks, Asks(j, at, e)' PROVE e \in DOMAIN kept \/ BatchOf(routed, e) <= 1
            <4>1. CASE j \in new
                <5>1. e \in need
                    BY <1>1, <1>10, <2>1, <3>2, <4>1
                <5> QED BY <2>1, <5>1 DEF need, Need, Batch
            <4>2. CASE j \notin new
                <5>1. e \in DOMAIN early[at]
                    BY <1>1, <1>9, <2>1, <3>2, <4>2
                <5> QED BY <1>16, <5>1
            <4> QED BY <4>1, <4>2
        <3> QED BY <1>1, <2>2, <3>1, <3>2 DEF Touched, Asks
    <2>3. \A j \in Tasks : \A e \in Experts :
             Asks(j, at, e)' => j = call'.fut \/ j \in Range(call'.kept)
        BY <1>1, <1>5, <1>6, <1>9 DEF Asks
    <2>4. \A e \in call'.routed :
             Touched(at, e)' => e \in DOMAIN call'.kept \/ BatchOf(call'.routed, e) <= call'.batch
        BY <1>5, <2>2
    <2>5. \A e \in call'.routed : BatchOf(call'.routed, e) < call'.batch => reads'[at][e] = 1
        BY <1>5, <2>1
    <2>6. call'.fut # None =>
             /\ task'[call'.fut].layer = at
             /\ \A e \in Needed' : task'[call'.fut].st # "queued" => reads'[at][e] = 1
        BY <1>5, <1>6 DEF Submitted
    <2>7. \A e \in DOMAIN call'.kept : /\ task'[call'.kept[e]].layer = at
                                       /\ task'[call'.kept[e]].st # "queued" => reads'[at][e] = 1
        BY <1>1, <1>5, <1>9
    <2>8. at' = at /\ early'[at] = NoFuture
        BY <1>1, <1>9
    <2> QED BY <2>3, <2>4, <2>5, <2>6, <2>7, <2>8 DEF SweptOnce, Touched, Asks
<1> QED BY <1>12, <1>13, <1>14, <1>15

LEMMA SweepRaisesOnce ==
    ASSUME RInv, Once, SweepRaises
    PROVE  Once'
<1>1. PICK j \in BatchFutures : task[j].st \in {"raised", "cancelled"}
    BY DEF SweepRaises
<1>2. raises # 0 /\ raises' = raises
    BY <1>1, BatchTasks DEF SweepRaises
<1> QED BY <1>2 DEF Once

LEMMA NextOnce ==
    ASSUME RInv, Once, [Next]_vars
    PROVE  Once'
<1>1. CASE Next
    <2>1. ASSUME NEW x \in Executors, Start(x) PROVE Once'
        BY <2>1, StartOnce
    <2>2. ASSUME NEW x \in Executors, Finish(x) PROVE Once'
        BY <2>2, FinishOnce
    <2>3. ASSUME NEW routed \in SUBSET Experts, Sweep(routed) PROVE Once'
        BY <2>3, SweepOnce
    <2>4. CASE Proceed
        BY <2>4, NextBatchOnce, LastBatchOnce, SweepRaisesOnce, DecodeDoneOnce DEF Proceed
    <2>5. CASE PoolCall
        BY <2>5, PoolCallOnce
    <2>6. CASE StreamCall \/ Leave
        BY <2>6, HostOnce
    <2> QED BY <1>1, <2>1, <2>2, <2>3, <2>4, <2>5, <2>6 DEF Next
<1>2. CASE UNCHANGED vars
    BY <1>2 DEF vars, Once, Alone, EarlyBegun, HeldAhead, SweptOnce, Asks, Sweeps, Touched, Needed
<1> QED BY <1>1, <1>2

LEMMA OnceHolds ==
    ASSUME RInv, Once
    PROVE  ReadOnce
<1> SUFFICES ASSUME raises = 0
             PROVE  /\ \A l \in Layers : \A e \in Experts : reads[l][e] <= 1
                    /\ Ready => \A e \in call.routed :
                          BatchOf(call.routed, e) <= call.batch => reads[at][e] = 1
    BY DEF ReadOnce
<1>1. Alone /\ SweptOnce
    BY DEF Once
<1>2. ASSUME Ready, NEW e \in call.routed, BatchOf(call.routed, e) <= call.batch
      PROVE  reads[at][e] = 1
    <2>1. call.op = "sweep" /\ \A j \in BatchFutures : Over(j)
        BY <1>2 DEF Ready
    <2>2. \A j \in BatchFutures : task[j].st # "queued"
        BY <2>1 DEF Over
    <2>7. call.routed \in SUBSET Experts /\ call.batch \in Nat
        BY EarlyTasks DEF RInv
    <2>8. BatchOf(call.routed, e) \in 1 .. NBatches(call.routed) /\ NBatches(call.routed) \in Nat
        BY <2>7, BatchNumbers
    <2>3. BatchOf(call.routed, e) \in Nat /\ call.batch \in Nat
        BY <2>7, <2>8
    <2>4. CASE BatchOf(call.routed, e) < call.batch
        BY <1>1, <2>1, <2>4 DEF SweptOnce
    <2>5. CASE BatchOf(call.routed, e) = call.batch /\ e \in DOMAIN call.kept
        <3>1. call.kept[e] \in BatchFutures
            BY <2>5 DEF BatchFutures, Batch
        <3> QED BY <1>1, <2>1, <2>2, <2>5, <3>1 DEF SweptOnce
    <2>6. CASE BatchOf(call.routed, e) = call.batch /\ e \notin DOMAIN call.kept
        <3>1. e \in Needed
            BY <2>6 DEF Needed, Need, Batch
        <3>2. call.fut # None
            BY <2>1, <3>1 DEF RInv, SweepReads
        <3>3. call.fut \in BatchFutures
            BY <3>2 DEF BatchFutures
        <3> QED BY <1>1, <2>1, <2>2, <3>1, <3>2, <3>3 DEF SweptOnce
    <2> QED BY <1>2, <2>3, <2>4, <2>5, <2>6
<1> QED BY <1>1, <1>2 DEF Alone

\* Every variable keeps its type, a sweep cancels no read it has taken, and a
\* batch whose futures are done has the rows of all its experts
\* (integrate.py, _expert_sweep and _take_early).
THEOREM BatchesAlwaysWhole == Spec => []BatchesWhole
<1>1. RInv => BatchesWhole
    BY TypeOKHolds, WholeHolds DEF BatchesWhole
<1> QED BY <1>1, AlwaysRInv, PTL

\* While no read raises, the threads begin no read of an expert twice for one
\* answer of its layer, whoever asked, and when the rows of a batch are there
\* each of its experts, and of the batches before it, has been read
\* (_expert_sweep: "each read exactly once per chunk").
THEOREM ReadAlwaysOnce == Spec => []ReadOnce
<1>1. Init => RInv /\ Once
    BY InitRInv, InitOnce
<1>2. RInv /\ Once /\ [Next]_vars => (RInv /\ Once)'
    BY NextRInv, NextOnce
<1>3. RInv /\ Once => ReadOnce
    BY OnceHolds
<1> QED BY <1>1, <1>2, <1>3, PTL DEF Spec

\* While no read raises, no early read waits on the shared thread that neither
\* a layer nor a sweep holds (_take_early cancels those it leaves).
THEOREM NoOrphanAlways == Spec => []NoOrphanWaits
<1>1. ASSUME RInv PROVE NoOrphanWaits
    <2>1. EarlyHeld \subseteq Referenced
        BY DEF EarlyHeld, Referenced
    <2> QED BY <1>1, <2>1 DEF RInv, Calm, NoOrphanWaits, Queued
<1> QED BY <1>1, AlwaysRInv, PTL

-----------------------------------------------------------------------------
(* The slice loop: TokenSlices.                                            *)
Slots == 1 .. SliceSlots
Bound == Slices!Entries
Held(p) == {x.e : x \in Range(p)}
Bounds(p) ==
    /\ p \in Seq(Bound) /\ IsInjective(p)
    /\ \A x, y \in Range(p) : x.e = y.e \/ x.slot = y.slot => x = y

LEMMA SliceOperators ==
    /\ \A p, S : Slices!Only(p, S) = Only(p, S)
    /\ \A p : Slices!Range(p) = Range(p) /\ Slices!Resident(p) = Held(p)
    /\ \A f, b, p : Slices!Fold(f, b, p) = Fold(f, b, p)
    /\ \A p : Slices!IsInjective(p) <=> IsInjective(p)
    /\ \A S : Slices!Cardinality(S) = Cardinality(S)
<1>1. \A p : Slices!Range(p) = Range(p)
    BY DEF Slices!Range, Range
<1>2. \A p, S : Slices!Only(p, S) = Only(p, S)
    BY DEF Slices!Only, Only, Slices!Fold, Fold, Slices!Range, Range
<1>3. \A f, b, p : Slices!Fold(f, b, p) = Fold(f, b, p)
    BY DEF Slices!Fold, Fold
<1>4. \A S : Slices!Cardinality(S) = Cardinality(S)
    BY DEF Slices!Cardinality, Cardinality
<1> QED BY <1>1, <1>2, <1>3, <1>4 DEF Slices!Resident, Held, Slices!IsInjective, IsInjective

\* The largest of some of the first numbers.
LEMMA LargestIn ==
    ASSUME NEW n \in Nat, NEW S \in SUBSET (1 .. n), S # {}
    PROVE  Slices!Max(S) \in S
<1> DEFINE T == {n - x : x \in S}
<1>0. \A x \in S : x \in Nat /\ x <= n
    OBVIOUS
<1>1. T \in SUBSET Nat /\ T # {}
    <2>1. \A x \in S : n - x \in Nat
        BY <1>0
    <2> QED BY <2>1
<1>2. PICK t \in T : \A u \in T : t <= u
    BY <1>1, LeastNatural
<1>3. PICK x \in S : t = n - x
    BY <1>2
<1>4. \A y \in S : x >= y
    <2> SUFFICES ASSUME NEW y \in S PROVE x >= y
        OBVIOUS
    <2>1. n - y \in T /\ n - x <= n - y
        BY <1>2, <1>3
    <2> QED BY <1>0, <2>1
<1> QED BY <1>4 DEF Slices!Max

\* Slots and experts, each bound once.
LEMMA EnsureOneBounds ==
    ASSUME SliceSlots \in Nat \ {0}, NEW p, Bounds(p), NEW e \in SliceExperts
    PROVE  Bounds(Slices!EnsureOne(p, e))
<1> DEFINE u == Slices!EnsureOne(p, e)
<1>1. p \in Seq(Bound) /\ IsInjective(p) /\ Range(p) \subseteq Bound
    BY RangeOfSeq DEF Bounds
<1>2. \A x \in Bound : x.e \in SliceExperts /\ x.slot \in Slots /\ x = [e |-> x.e, slot |-> x.slot]
    BY DEF Bound, Slices!Entries, Slots
<1>3. \A x : x \in Range(p) => x \in Bound
    BY <1>1
<1>4. CASE e \in Held(p)
    <2>1. PICK x \in Range(p) : x.e = e
        BY <1>4 DEF Held
    <2>2. Slices!Holders(p, e) = {x}
        BY <2>1, SliceOperators DEF Slices!Holders, Bounds
    <2>3. Slices!Entry(e, Slices!SlotOf(p, e)) = x
        BY <1>2, <1>3, <2>1, <2>2 DEF Slices!Entry, Slices!SlotOf
    <2> DEFINE S == Bound \ {x}
               o == Only(p, S)
    <2>4. u = Append(o, x)
        BY <1>4, <2>2, <2>3, SliceOperators DEF Slices!EnsureOne, Bound
    <2>5. o \in Seq(Bound) /\ Range(o) = Range(p) \cap S /\ IsInjective(o)
        <3> HIDE DEF S
        <3> QED BY <1>1, OnlyProperties
    <2> HIDE DEF o
    <2>6. Range(Append(o, x)) = Range(o) \cup {x} /\ IsInjective(Append(o, x)) /\ Append(o, x) \in Seq(Bound)
        BY <1>3, <2>1, <2>5, AppendRange, AppendProperties
    <2>7. Range(Append(o, x)) = Range(p)
        BY <1>1, <2>1, <2>5, <2>6
    <2> QED BY <2>4, <2>6, <2>7 DEF Bounds
<1> DEFINE Unused == Slices!FreeSlots(p)
<1>5. Unused = Slots \ {x.slot : x \in Range(p)}
    BY SliceOperators DEF Slices!FreeSlots, Slots
<1>6. CASE e \notin Held(p) /\ Unused # {}
    <2> DEFINE m == Slices!Max(Unused)
               x == [e |-> e, slot |-> m]
    <2>1. m \in Unused
        <3>1. Unused \in SUBSET (1 .. SliceSlots)
            BY <1>5 DEF Slots
        <3> QED BY <1>6, <3>1, LargestIn
    <2> HIDE DEF m
    <2>2. u = Append(p, x)
        BY <1>6, SliceOperators DEF Slices!EnsureOne, Slices!Entry, m
    <2>3. x \in Bound /\ x.e = e /\ x.slot = m
        BY <1>5, <2>1 DEF Bound, Slices!Entries, Slots
    <2>4. \A y \in Range(p) : y.e # e /\ y.slot # m
        BY <1>5, <1>6, <2>1 DEF Held
    <2> HIDE DEF x, u
    <2>5. x \notin Range(p)
        BY <2>3, <2>4
    <2>6. Range(Append(p, x)) = Range(p) \cup {x} /\ IsInjective(Append(p, x)) /\ Append(p, x) \in Seq(Bound)
        BY <1>1, <2>3, <2>5, AppendRange, AppendProperties
    <2> QED BY <2>2, <2>3, <2>4, <2>6 DEF Bounds, u
<1>7. CASE e \notin Held(p) /\ Unused = {}
    <2>1. p # <<>>
        <3>1. 1 \in Slots
            BY DEF Slots
        <3>2. PICK y \in Range(p) : y.slot = 1
            BY <1>5, <1>7, <3>1
        <3> QED BY <3>2 DEF Range
    <2> DEFINE h == Head(p)
               t == Tail(p)
               x == [e |-> e, slot |-> h.slot]
    <2>2. u = Append(t, x)
        BY <1>7, SliceOperators DEF Slices!EnsureOne, Slices!Entry
    <2>3. /\ t \in Seq(Bound) /\ IsInjective(t) /\ Range(t) \subseteq Range(p)
          /\ p = <<h>> \o t /\ <<h>> \in Seq(Bound)
        BY <1>1, <2>1, TailProperties
    <2>4. h \in Range(p) /\ h \notin Range(t)
        <3> HIDE DEF t
        <3>1. Range(<<h>>) \cap Range(t) = {} /\ Range(p) = Range(<<h>>) \cup Range(t)
            <4> DEFINE g == <<h>>
            <4>1. g \in Seq(Bound) /\ p = g \o t
                BY <2>3
            <4> HIDE DEF g
            <4>2. IsInjective(g \o t)
                BY <1>1, <4>1
            <4>3. Range(g) \cap Range(t) = {}
                BY <2>3, <4>1, <4>2, InjectiveConcat
            <4>4. Range(p) = Range(g) \cup Range(t)
                BY <2>3, <4>1, RangeConcatenation
            <4> QED BY <4>3, <4>4 DEF g
        <3>2. h \in Range(<<h>>)
            BY DEF Range
        <3> QED BY <3>1, <3>2
    <2> HIDE DEF h, t
    <2>5. x \in Bound /\ x.e = e /\ x.slot = h.slot
        BY <1>2, <1>3, <2>4 DEF Bound, Slices!Entries, Slots
    <2>6. \A y \in Range(t) : y \in Range(p) /\ y.e # e /\ y.slot # h.slot
        BY <1>7, <2>3, <2>4 DEF Held, Bounds
    <2> HIDE DEF x, u
    <2>7. x \notin Range(t)
        BY <2>5, <2>6
    <2>8. Range(Append(t, x)) = Range(t) \cup {x} /\ IsInjective(Append(t, x)) /\ Append(t, x) \in Seq(Bound)
        BY <2>3, <2>5, <2>7, AppendRange, AppendProperties
    <2> QED BY <2>2, <2>5, <2>6, <2>8 DEF Bounds, u
<1> QED BY <1>4, <1>6, <1>7

\* An expert ensured comes last, and those ensured before it, fewer than there
\* are slots, stay where they were.
LEMMA EnsureOneLast ==
    ASSUME SliceSlots \in Nat \ {0}, NEW q \in Seq(Bound), NEW r \in Seq(Bound), Bounds(q \o r),
           NEW e \in SliceExperts, e \notin Held(r), Len(r) < SliceSlots
    PROVE  \E v \in Seq(Bound), x \in Bound :
              x.e = e /\ Slices!EnsureOne(q \o r, e) = v \o Append(r, x)
<1> DEFINE p == q \o r
           u == Slices!EnsureOne(p, e)
           Unused == Slices!FreeSlots(p)
<1>1. p \in Seq(Bound) /\ IsInjective(p) /\ Range(p) = Range(q) \cup Range(r)
    BY RangeConcatenation DEF Bounds
<1>2. \A x \in Bound : x.e \in SliceExperts /\ x.slot \in Slots /\ x = [e |-> x.e, slot |-> x.slot]
    BY DEF Bound, Slices!Entries, Slots
<1>3. Range(p) \subseteq Bound /\ Range(r) \subseteq Bound
    BY <1>1, RangeOfSeq
<1>4. Unused = Slots \ {x.slot : x \in Range(p)}
    BY SliceOperators DEF Slices!FreeSlots, Slots
<1> HIDE DEF p
<1>5. CASE e \in Held(p)
    <2>1. PICK x \in Range(p) : x.e = e
        BY <1>5 DEF Held
    <2>2. Slices!Holders(p, e) = {x}
        BY <2>1, SliceOperators DEF Slices!Holders, Bounds, p
    <2>3. Slices!Entry(e, Slices!SlotOf(p, e)) = x /\ x \in Bound
        BY <1>2, <1>3, <2>1, <2>2 DEF Slices!Entry, Slices!SlotOf
    <2> DEFINE S == Bound \ {x}
               v == Only(q, S)
    <2>4. u = Append(Only(p, S), x)
        BY <1>5, <2>2, <2>3, SliceOperators DEF Slices!EnsureOne, Bound
    <2>5. Range(r) \subseteq S
        BY <1>3, <2>1 DEF Held
    <2>6. Only(p, S) = v \o r /\ v \in Seq(Bound)
        <3> HIDE DEF S
        <3>1. Only(p, S) = Only(q, S) \o Only(r, S)
            BY OnlyConcat DEF p
        <3>2. Only(r, S) = r
            BY <2>5, OnlyAll
        <3> QED BY <3>1, <3>2, OnlyType
    <2> HIDE DEF v
    <2>7. u = v \o Append(r, x)
        <3>1. v \o Append(r, x) = Append(v \o r, x)
            BY <2>3, <2>6, AppendConcat
        <3> QED BY <2>4, <2>6, <3>1
    <2> QED BY <2>1, <2>3, <2>6, <2>7 DEF p
<1>6. CASE e \notin Held(p) /\ Unused # {}
    <2> DEFINE m == Slices!Max(Unused)
               x == [e |-> e, slot |-> m]
    <2>1. m \in Unused
        <3>1. Unused \in SUBSET (1 .. SliceSlots)
            BY <1>4 DEF Slots
        <3> QED BY <1>6, <3>1, LargestIn
    <2> HIDE DEF m
    <2>2. u = Append(p, x)
        BY <1>6, SliceOperators DEF Slices!EnsureOne, Slices!Entry, m
    <2>3. x \in Bound /\ x.e = e
        BY <1>4, <2>1 DEF Bound, Slices!Entries, Slots
    <2> HIDE DEF x, u
    <2>4. u = q \o Append(r, x)
        <3>1. q \o Append(r, x) = Append(q \o r, x)
            BY <2>3, AppendConcat
        <3> QED BY <2>2, <3>1 DEF p
    <2> QED BY <2>3, <2>4 DEF u, p
<1>7. CASE e \notin Held(p) /\ Unused = {}
    <2>1. q # <<>>
        <3> SUFFICES ASSUME q = <<>> PROVE FALSE
            OBVIOUS
        <3>1. p = r
            BY ConcatEmptySeq DEF p
        <3> DEFINE sl == [i \in 1 .. Len(r) |-> r[i].slot]
        <3>2. Len(r) \in Nat /\ \A i \in 1 .. Len(r) : r[i] \in Bound /\ r[i] \in Range(r)
            BY <1>3, LenProperties DEF Range
        <3>3. sl \in [1 .. Len(r) -> Slots]
            BY <1>2, <3>2
        <3>4. sl \in Seq(Slots) /\ Len(sl) = Len(r)
            BY <3>2, <3>3
        <3>5. IsInjective(sl)
            <4> SUFFICES ASSUME NEW i \in 1 .. Len(r), NEW j \in 1 .. Len(r), r[i].slot = r[j].slot
                         PROVE  i = j
                BY DEF IsInjective
            <4>1. r[i] = r[j]
                BY <3>1, <3>2 DEF Bounds, p
            <4>2. IsInjective(r) /\ DOMAIN r = 1 .. Len(r)
                BY <1>1, <3>1, LenProperties
            <4> QED BY <4>1, <4>2 DEF IsInjective
        <3>6. Slots \subseteq Range(sl)
            <4> SUFFICES ASSUME NEW k \in Slots PROVE k \in Range(sl)
                OBVIOUS
            <4>1. PICK x \in Range(r) : x.slot = k
                BY <1>4, <1>7, <3>1
            <4>2. PICK i \in 1 .. Len(r) : r[i] = x
                BY LenProperties DEF Range
            <4> QED BY <4>1, <4>2 DEF Range
        <3> HIDE DEF sl
        <3>7. IsFiniteSet(Range(sl)) /\ Cardinality(Range(sl)) = Len(r)
            BY <3>4, <3>5, InjectiveLen
        <3>8. Cardinality(Slots) <= Cardinality(Range(sl))
            BY <3>6, <3>7, FS_Subset
        <3>9. Cardinality(Slots) = SliceSlots
            <4>1. 1 \in Int /\ SliceSlots \in Int
                OBVIOUS
            <4>2. Cardinality(1 .. SliceSlots) = IF 1 > SliceSlots THEN 0 ELSE SliceSlots - 1 + 1
                BY <4>1, FS_Interval
            <4> QED BY <4>2 DEF Slots
        <3> QED BY <3>2, <3>7, <3>8, <3>9
    <2> DEFINE x == [e |-> e, slot |-> Head(p).slot]
               t == Tail(q)
    <2>2. t \in Seq(Bound) /\ q = <<Head(q)>> \o t /\ Head(q) \in Bound /\ Len(t) = Len(q) - 1
        BY <2>1, TailProperties, HeadTailProperties
    <2>3. Tail(p) = t \o r /\ Head(p) = Head(q)
        <3>1. /\ Len(q) \in Nat \ {0} /\ Len(r) \in Nat /\ Len(p) = Len(q) + Len(r)
              /\ \A i \in 1 .. Len(q) + Len(r) : p[i] = IF i <= Len(q) THEN q[i] ELSE r[i - Len(q)]
            BY <2>1, ConcatProperties, LenProperties, EmptySeq DEF p
        <3>2. p # <<>> /\ Head(p) = p[1] /\ Head(q) = q[1]
            BY <1>1, <2>1, <3>1, EmptySeq
        <3>3. /\ Tail(p) \in Seq(Bound) /\ Len(Tail(p)) = Len(p) - 1
              /\ \A i \in 1 .. Len(Tail(p)) : Tail(p)[i] = p[i + 1]
            BY <1>1, <3>2, HeadTailProperties
        <3>4. \A i \in 1 .. Len(t) : t[i] = q[i + 1]
            BY <2>1, HeadTailProperties
        <3> HIDE DEF t
        <3>5. /\ t \o r \in Seq(Bound) /\ Len(t \o r) = Len(t) + Len(r)
              /\ \A i \in 1 .. Len(t) + Len(r) : (t \o r)[i] = IF i <= Len(t) THEN t[i] ELSE r[i - Len(t)]
            BY <2>2, ConcatProperties
        <3> DEFINE a == Tail(p)
                   b == t \o r
        <3>6. \A i \in 1 .. Len(a) : a[i] = b[i]
            BY <2>2, <3>1, <3>3, <3>4, <3>5
        <3>7. a \in Seq(Bound) /\ b \in Seq(Bound) /\ Len(a) = Len(b)
            BY <2>2, <3>1, <3>3, <3>5
        <3> HIDE DEF a, b
        <3>8. a = b
            BY <3>6, <3>7, SeqEqual
        <3> QED BY <3>1, <3>2, <3>8 DEF a, b
    <2>4. u = Append(Tail(p), x)
        BY <1>7, SliceOperators DEF Slices!EnsureOne, Slices!Entry
    <2>5. x \in Bound /\ x.e = e
        BY <1>2, <2>2, <2>3 DEF Bound, Slices!Entries, Slots
    <2> HIDE DEF x, t, u
    <2>6. u = t \o Append(r, x)
        <3>1. t \o Append(r, x) = Append(t \o r, x)
            BY <2>2, <2>5, AppendConcat
        <3> QED BY <2>3, <2>4, <3>1
    <2> QED BY <2>2, <2>5, <2>6 DEF u, p
<1> QED BY <1>5, <1>6, <1>7

LEMMA ExpertsFinite == IsFiniteSet(SliceExperts)
BY PartsAssumption DEF Slices!SlicesAssumption, Slices!IsFiniteSet, IsFiniteSet

\* What each expert of a sequence has been ensured, in turn.
LEMMA EnsureAppend ==
    ASSUME SliceSlots \in Nat \ {0}, NEW p, Bounds(p), NEW ids \in Seq(SliceExperts), NEW e \in SliceExperts
    PROVE  /\ Bounds(Slices!Ensure(p, ids))
           /\ Slices!Ensure(p, Append(ids, e)) = Slices!EnsureOne(Slices!Ensure(p, ids), e)
<1> DEFINE step == [x \in SliceExperts |-> [t \in Seq(Bound) |-> Slices!EnsureOne(t, x)]]
           V == {t \in Seq(Bound) : Bounds(t)}
<1>1. Closed(step, SliceExperts, V) /\ p \in V
    BY EnsureOneBounds DEF Closed, Bounds
<1>2. \A t : Slices!Ensure(p, t) = Fold(step, p, t)
    BY SliceOperators DEF Slices!Ensure, Bound
<1>3. /\ Fold(step, p, ids) \in V
      /\ Fold(step, p, Append(ids, e)) = step[e][Fold(step, p, ids)]
    <2> HIDE DEF step, V
    <2> QED BY <1>1, FoldType, FoldAppend
<1>4. step[e][Fold(step, p, ids)] = Slices!EnsureOne(Fold(step, p, ids), e)
    <2> DEFINE t == Fold(step, p, ids)
    <2>1. t \in Seq(Bound)
        BY <1>3
    <2> HIDE DEF t
    <2> QED BY <2>1 DEF t
<1> HIDE DEF step
<1> QED BY <1>2, <1>3, <1>4

\* SliceExperts that fit the pool are all there once ensured, in any order.
LEMMA EnsureHolds ==
    ASSUME SliceSlots \in Nat \ {0}, NEW p, Bounds(p), NEW S \in SUBSET SliceExperts,
           Cardinality(S) <= SliceSlots, NEW ids \in Slices!Orders(S)
    PROVE  Bounds(Slices!Ensure(p, ids)) /\ S \subseteq Held(Slices!Ensure(p, ids))
<1> DEFINE Latest(t) == \E v, r \in Seq(Bound) : /\ Slices!Ensure(p, t) = v \o r
                                               /\ Held(r) = Range(t) /\ Len(r) = Len(t)
           Good(t) == IsInjective(t) /\ Len(t) <= SliceSlots => Latest(t)
           T == {t \in Seq(SliceExperts) : Good(t)}
<1>1. <<>> \in T
    <2>1. Slices!Ensure(p, <<>>) = p
        BY SliceOperators, FoldEmpty DEF Slices!Ensure
    <2>2. p \in Seq(Bound) /\ <<>> \in Seq(Bound) /\ p \o <<>> = p
        BY EmptySeq, ConcatEmptySeq DEF Bounds
    <2>3. Range(<<>>) = {} /\ Held(<<>>) = {}
        BY DEF Range, Held
    <2>4. Latest(<<>>)
        BY <2>1, <2>2, <2>3
    <2> QED BY <2>4, EmptySeq
<1>2. ASSUME NEW t \in Seq(SliceExperts), NEW e \in SliceExperts, t \in T PROVE Append(t, e) \in T
    <2> DEFINE u == Append(t, e)
    <2>1. /\ u \in Seq(SliceExperts) /\ Len(u) = Len(t) + 1 /\ Len(t) \in Nat
          /\ Range(u) = Range(t) \cup {e}
          /\ IsInjective(u) <=> IsInjective(t) /\ e \notin Range(t)
        BY AppendProperties, AppendRange, LenProperties
    <2>2. /\ Bounds(Slices!Ensure(p, t))
          /\ Slices!Ensure(p, u) = Slices!EnsureOne(Slices!Ensure(p, t), e)
        BY EnsureAppend
    <2> HIDE DEF u
    <2>3. ASSUME IsInjective(u), Len(u) <= SliceSlots PROVE Latest(u)
        <3>1. Latest(t) /\ Len(t) < SliceSlots
            <4>1. IsInjective(t) /\ Len(t) < SliceSlots
                BY <2>1, <2>3
            <4>2. Good(t)
                BY <1>2
            <4> HIDE DEF Latest
            <4> QED BY <4>1, <4>2
        <3>2. PICK v \in Seq(Bound), r \in Seq(Bound) :
                  Slices!Ensure(p, t) = v \o r /\ Held(r) = Range(t) /\ Len(r) = Len(t)
            BY <3>1
        <3>3. PICK w \in Seq(Bound), x \in Bound :
                  x.e = e /\ Slices!EnsureOne(v \o r, e) = w \o Append(r, x)
            <4>1. e \notin Held(r) /\ Len(r) < SliceSlots /\ Bounds(v \o r)
                BY <2>1, <2>2, <2>3, <3>1, <3>2
            <4> QED BY <4>1, EnsureOneLast
        <3>4. Append(r, x) \in Seq(Bound) /\ Len(Append(r, x)) = Len(r) + 1
              /\ Range(Append(r, x)) = Range(r) \cup {x}
            BY AppendProperties, AppendRange
        <3>5. Held(Append(r, x)) = Range(u)
            BY <2>1, <3>2, <3>3, <3>4 DEF Held
        <3> QED BY <2>1, <2>2, <3>2, <3>3, <3>4, <3>5
    <2> QED BY <2>1, <2>3 DEF u
<1>3. Seq(SliceExperts) \subseteq T
    <2> HIDE DEF T
    <2> QED BY <1>1, <1>2, SequenceInduction
<1>4. IsFiniteSet(S) /\ Cardinality(S) \in Nat
    BY ExpertsFinite, FS_Subset, FS_CardinalityType
<1> DEFINE n == Cardinality(S)
<1>5. ids \in [1 .. n -> S] /\ IsInjective(ids)
    <2>1. ids \in [1 .. n -> S] /\ Slices!IsInjective(ids)
        BY SliceOperators DEF Slices!Orders
    <2> QED BY <2>1, SliceOperators
<1>6. ids \in Seq(S) /\ ids \in Seq(SliceExperts) /\ Len(ids) = n
    BY <1>4, <1>5
<1>7. Range(ids) = S
    <2>1. Range(ids) \subseteq S
        BY <1>6, RangeOfSeq
    <2>2. Cardinality(Range(ids)) = n
        BY <1>5, <1>6, InjectiveLen
    <2> QED BY <1>4, <2>1, <2>2, FS_Subset
<1>8. PICK v \in Seq(Bound), r \in Seq(Bound) : Slices!Ensure(p, ids) = v \o r /\ Held(r) = Range(ids)
    BY <1>3, <1>5, <1>6
<1>9. Range(v \o r) = Range(v) \cup Range(r)
    BY RangeConcatenation
<1>10. Bounds(Slices!Ensure(p, ids))
    <2>1. CASE ids = <<>>
        <3>1. Slices!Ensure(p, <<>>) = p
            BY SliceOperators, FoldEmpty DEF Slices!Ensure
        <3> QED BY <2>1, <3>1
    <2>2. CASE ids # <<>>
        <3>1. Head(ids) \in SliceExperts
            BY <1>6, <2>2, HeadTailProperties
        <3> QED BY <1>6, <3>1, EnsureAppend
    <2> QED BY <2>1, <2>2
<1> QED BY <1>7, <1>8, <1>9, <1>10 DEF Held

LEMMA FirstFinite == \A n \in Nat : IsFiniteSet(1 .. n)
<1> TAKE n \in Nat
<1>1. 1 \in Int /\ n \in Int
    OBVIOUS
<1> QED BY <1>1, FS_Interval

\* g cuts the first m rows into runs that fit.
CutTo(g, m) ==
    /\ g \in SUBSET (1 .. m) /\ (m > 0 => m \in g)
    /\ \A a, b \in 1 .. m :
          a <= b /\ ~Slices!Apart(g, a, b) => Cardinality(Slices!Union(a, b)) <= SliceSlots

\* A gather that is built reads its own experts' slots while they are bound to
\* them; what is not built is computed.
Built ==
    IF pc = "eval"
    THEN /\ DOMAIN got \cup DOMAIN graph = 1 .. sliced
         /\ \A i \in DOMAIN graph : \A e \in flat[i] :
               \E x \in Range(pool) : x.e = e /\ x.slot = graph[i][e]
    ELSE graph = <<>> /\ DOMAIN got = 1 .. sliced

\* The runs so far are a cut of their rows, and any other has as many.
Fewest ==
    /\ \E g : CutTo(g, sliced) /\ Cardinality(g) = slices
    /\ \A c \in Slices!Cuts : Slices!Fits(c) => slices <= Cardinality(c \cap (1 .. sliced))

SlInv ==
    /\ flat \in [1 .. SliceRows -> SUBSET SliceExperts] /\ Bounds(pool)
    /\ sliced \in 0 .. SliceRows /\ slices \in Nat /\ pc \in {"slice", "eval", "done", "raised"}
    /\ Built /\ Slices!OwnExperts
    /\ pc = "done" => sliced = SliceRows
    /\ Fewest

LEMMA FewestStays ==
    ASSUME Fewest, flat' = flat, sliced' = sliced, slices' = slices
    PROVE  Fewest'
<1>1. \A a, b : Slices!Union(a, b)' = Slices!Union(a, b)
    BY DEF Slices!Union
<1>2. \A c : Slices!Fits(c)' <=> Slices!Fits(c)
    BY <1>1 DEF Slices!Fits, Slices!Apart
<1>3. \E g : CutTo(g, sliced)' /\ Cardinality(g) = slices'
    <2>1. PICK g : CutTo(g, sliced) /\ Cardinality(g) = slices
        BY DEF Fewest
    <2>2. CutTo(g, sliced)'
        BY <1>1, <2>1 DEF CutTo, Slices!Apart
    <2> QED BY <2>1, <2>2
<1>4. \A c \in Slices!Cuts' : Slices!Fits(c)' => slices' <= Cardinality(c \cap (1 .. sliced'))
    BY <1>2 DEF Fewest, Slices!Cuts
<1> QED BY <1>3, <1>4 DEF Fewest

\* The experts of some rows.
LEMMA UnionOfRows ==
    ASSUME SlInv, NEW a \in Nat, NEW b \in Nat, b <= SliceRows, a > 0, SliceRows \in Nat
    PROVE  /\ Slices!Union(a, b) \subseteq SliceExperts /\ IsFiniteSet(Slices!Union(a, b))
           /\ \A i \in a .. b : flat[i] \subseteq Slices!Union(a, b)
           /\ \A c, d \in a .. b : /\ Slices!Union(c, d) \subseteq Slices!Union(a, b)
                                   /\ Cardinality(Slices!Union(c, d)) <= Cardinality(Slices!Union(a, b))
<1>1. \A i \in a .. b : flat[i] \subseteq SliceExperts
    BY DEF SlInv
<1>2. Slices!Union(a, b) \subseteq SliceExperts
    BY <1>1 DEF Slices!Union
<1>3. IsFiniteSet(Slices!Union(a, b))
    BY <1>2, ExpertsFinite, FS_Subset
<1>4. \A c, d \in a .. b : Slices!Union(c, d) \subseteq Slices!Union(a, b)
    BY DEF Slices!Union
<1>5. \A i \in a .. b : flat[i] \subseteq Slices!Union(a, b)
    BY DEF Slices!Union
<1> QED BY <1>2, <1>3, <1>4, <1>5, FS_Subset

\* A run ends before the first row whose experts would not fit.
LEMMA SliceEnds ==
    ASSUME SliceRows \in Nat, SliceSlots \in Nat, sliced \in 0 .. SliceRows,
           flat \in [1 .. SliceRows -> SUBSET SliceExperts]
    PROVE  /\ Slices!SliceEnd \in sliced .. SliceRows
           /\ Slices!SliceEnd > sliced =>
                  Cardinality(Slices!Union(sliced + 1, Slices!SliceEnd)) <= SliceSlots
           /\ Slices!SliceEnd = SliceRows
                  \/ Cardinality(Slices!Union(sliced + 1, Slices!SliceEnd + 1)) > SliceSlots
<1> DEFINE C(e) == Cardinality(Slices!Union(sliced + 1, e + 1))
           Ends == {e \in sliced .. SliceRows : e = SliceRows \/ C(e) > SliceSlots}
           end == Slices!SliceEnd
<1>1. Ends \in SUBSET Nat /\ SliceRows \in Ends
    OBVIOUS
<1>2. PICK m \in Ends : \A e \in Ends : m <= e
    BY <1>1, LeastNatural
<1>3. end \in Ends /\ \A e \in Ends : end <= e
    <2>1. end = Slices!Min(Ends)
        BY SliceOperators DEF Slices!SliceEnd
    <2> HIDE DEF Ends
    <2>2. Slices!Min(Ends) \in Ends /\ \A e \in Ends : Slices!Min(Ends) <= e
        BY <1>2 DEF Slices!Min
    <2> QED BY <2>1, <2>2
<1> HIDE DEF end
<1>4. ASSUME end > sliced PROVE Cardinality(Slices!Union(sliced + 1, end)) <= SliceSlots
    <2>1. end - 1 \in sliced .. SliceRows /\ end - 1 # SliceRows /\ ~(end <= end - 1) /\ (end - 1) + 1 = end
        BY <1>3, <1>4
    <2>2. ~(C(end - 1) > SliceSlots)
        BY <1>3, <2>1
    <2>3. C(end - 1) = Cardinality(Slices!Union(sliced + 1, end))
        BY <2>1
    <2>4. Slices!Union(sliced + 1, end) \subseteq SliceExperts
        <3>1. \A i \in sliced + 1 .. end : flat[i] \subseteq SliceExperts
            BY <1>3
        <3> QED BY <3>1 DEF Slices!Union
    <2>5. C(end - 1) \in Nat
        BY <2>3, <2>4, ExpertsFinite, FS_Subset, FS_CardinalityType
    <2> HIDE DEF C
    <2> QED BY <2>2, <2>3, <2>5
<1> QED BY <1>3, <1>4 DEF end

LEMMA SliceInit ==
    ASSUME Slices!SlicesAssumption, Slices!Init
    PROVE  SlInv
<1>1. SliceRows \in Nat \ {0} /\ SliceSlots \in Nat \ {0}
    BY DEF Slices!SlicesAssumption
<1>2. flat \in [1 .. SliceRows -> SUBSET SliceExperts]
    <2>1. PICK k \in Ks : flat \in [1 .. SliceRows -> Slices!Routed(k)]
        BY DEF Slices!Init
    <2>2. Slices!Routed(k) \subseteq SUBSET SliceExperts
        BY DEF Slices!Routed
    <2> QED BY <2>1, <2>2
<1>3. Bounds(<<>>)
    <2>1. \A x : x \notin Range(<<>>)
        BY DEF Range
    <2>2. <<>> \in Seq(Bound) /\ IsInjective(<<>>)
        BY EmptySeq DEF IsInjective
    <2> QED BY <2>1, <2>2 DEF Bounds
<1>4. Bounds(pool)
    <2>1. PICK held \in SUBSET SliceExperts : /\ Cardinality(held) <= SliceSlots
                                         /\ \E ids \in Slices!Orders(held) : pool = Slices!Ensure(<<>>, ids)
        BY SliceOperators DEF Slices!Init
    <2>2. PICK ids \in Slices!Orders(held) : pool = Slices!Ensure(<<>>, ids)
        BY <2>1
    <2> QED BY <1>1, <1>3, <2>1, <2>2, EnsureHolds
<1>5. sliced = 0 /\ graph = <<>> /\ got = <<>> /\ slices = 0 /\ pc = "slice"
    BY DEF Slices!Init
<1>6. Fewest
    <2>1. CutTo({}, 0) /\ Cardinality({}) = 0
        BY FS_EmptySet DEF CutTo
    <2>2. \A c : c \cap (1 .. 0) = {}
        OBVIOUS
    <2> QED BY <1>5, <2>1, <2>2 DEF Fewest
<1>7. Built /\ Slices!OwnExperts
    BY <1>5 DEF Built, Slices!OwnExperts
<1> QED BY <1>1, <1>2, <1>4, <1>5, <1>6, <1>7 DEF SlInv

\* A run: its experts fit, so they are all in the pool when its gather is
\* built, and one row more would not, so that every cut ends a run in it.
LEMMA SliceStep ==
    ASSUME Slices!SlicesAssumption, SlInv, Slices!Slice
    PROVE  SlInv'
<1> DEFINE first == sliced + 1
<1>1. /\ SliceRows \in Nat \ {0} /\ SliceSlots \in Nat \ {0} /\ sliced \in 0 .. SliceRows
      /\ flat \in [1 .. SliceRows -> SUBSET SliceExperts] /\ slices \in Nat /\ Bounds(pool)
    BY DEF Slices!SlicesAssumption, SlInv
<1>0. PICK end : end = Slices!SliceEnd
    OBVIOUS
<1> DEFINE U == Slices!Union(first, end)
<1>2. /\ pc = "slice" /\ sliced < SliceRows /\ end > sliced
      /\ \E ids \in Slices!Orders(U) : pool' = Slices!Ensure(pool, ids)
      /\ graph' = Slices!Joined(graph, [i \in first .. end |-> [e \in flat[i] |-> Slices!SlotOf(pool', e)]])
      /\ sliced' = end /\ slices' = slices + 1 /\ pc' = "eval" /\ flat' = flat /\ got' = got
    BY <1>0 DEF Slices!Slice, Slices!AfterSlice
<1>3. /\ end \in sliced .. SliceRows /\ Cardinality(U) <= SliceSlots
      /\ end = SliceRows \/ Cardinality(Slices!Union(first, end + 1)) > SliceSlots
    BY <1>0, <1>1, <1>2, SliceEnds
<1>4. /\ U \subseteq SliceExperts /\ IsFiniteSet(U) /\ \A i \in first .. end : flat[i] \subseteq U
      /\ \A c, d \in first .. end : Cardinality(Slices!Union(c, d)) <= Cardinality(U)
    <2>1. first \in Nat /\ first > 0 /\ end \in Nat /\ end <= SliceRows
        BY <1>1, <1>3
    <2> HIDE DEF first
    <2> QED BY <1>1, <2>1, UnionOfRows
<1>5. Bounds(pool') /\ U \subseteq Held(pool')
    <2>1. PICK ids \in Slices!Orders(U) : pool' = Slices!Ensure(pool, ids)
        BY <1>2
    <2> HIDE DEF U
    <2> QED BY <1>1, <1>3, <1>4, <2>1, EnsureHolds
<1>6. graph = <<>> /\ DOMAIN got = 1 .. sliced
    BY <1>2 DEF SlInv, Built
<1>7. graph' = [i \in first .. end |-> [e \in flat[i] |-> Slices!SlotOf(pool', e)]]
    BY <1>2, <1>6 DEF Slices!Joined
<1>8. Built'
    <2>1. DOMAIN got' \cup DOMAIN graph' = 1 .. sliced'
        <3>1. DOMAIN graph' = first .. end /\ DOMAIN got' = 1 .. sliced
            BY <1>2, <1>6, <1>7
        <3>2. (1 .. sliced) \cup (first .. end) = 1 .. end
            BY <1>1, <1>2, <1>3
        <3> QED BY <1>2, <3>1, <3>2
    <2>2. ASSUME NEW i \in first .. end, NEW e \in flat[i]
          PROVE  \E x \in Range(pool') : x.e = e /\ x.slot = graph'[i][e]
        <3>1. e \in Held(pool')
            BY <1>4, <1>5, <2>2
        <3>2. Slices!Holders(pool', e) # {} /\ Slices!Holders(pool', e) = {x \in Range(pool') : x.e = e}
            BY <3>1, SliceOperators DEF Slices!Holders, Held
        <3>3. graph'[i][e] = (CHOOSE x \in Slices!Holders(pool', e) : TRUE).slot
            BY <1>7, <2>2 DEF Slices!SlotOf
        <3> QED BY <3>2, <3>3
    <2> QED BY <1>2, <1>7, <2>1, <2>2 DEF Built
<1>9. Slices!OwnExperts'
    BY <1>2 DEF SlInv, Slices!OwnExperts
\* What the runs so far need, this one needs too.
<1>10. \E g : CutTo(g, sliced)' /\ Cardinality(g) = slices + 1
    <2>1. PICK g : CutTo(g, sliced) /\ Cardinality(g) = slices
        BY DEF SlInv, Fewest
    <2> DEFINE h == g \cup {end}
    <2>2. IsFiniteSet(g) /\ end \notin g /\ g \in SUBSET (1 .. sliced)
        <3>1. g \in SUBSET (1 .. sliced) /\ IsFiniteSet(1 .. sliced)
            BY <1>1, <2>1, FirstFinite DEF CutTo
        <3>2. IsFiniteSet(g)
            BY <3>1, FS_Subset
        <3>3. end \notin 1 .. sliced
            BY <1>1, <1>2, <1>3
        <3> QED BY <3>1, <3>2, <3>3
    <2>3. Cardinality(h) = slices + 1
        BY <2>1, <2>2, FS_AddElement
    <2>4. h \in SUBSET (1 .. end) /\ end \in h
        BY <1>1, <1>2, <1>3, <2>2
    <2>5. ASSUME NEW a \in 1 .. end, NEW b \in 1 .. end, a <= b, ~Slices!Apart(h, a, b)
          PROVE  Cardinality(Slices!Union(a, b)) <= SliceSlots
        <3>1. ~Slices!Apart(g, a, b)
            BY <2>5 DEF Slices!Apart
        <3>2. CASE b <= sliced
            <4>1. a \in 1 .. sliced /\ b \in 1 .. sliced
                BY <1>1, <2>5, <3>2
            <4> QED BY <2>1, <2>5, <3>1, <4>1 DEF CutTo
        <3>3. CASE a <= sliced /\ sliced < b
            <4>1. sliced \in g
                BY <1>1, <2>1, <3>3 DEF CutTo
            <4> QED BY <3>1, <3>3, <4>1 DEF Slices!Apart
        <3>4. CASE sliced < a
            <4>1. a \in first .. end /\ b \in first .. end
                BY <1>1, <2>5, <3>4
            <4>2. /\ Cardinality(Slices!Union(a, b)) <= Cardinality(U) /\ Slices!Union(a, b) \subseteq U
                <5>1. first \in Nat /\ first > 0 /\ end \in Nat /\ end <= SliceRows
                    BY <1>1, <1>3
                <5> HIDE DEF first
                <5> QED BY <1>1, <4>1, <5>1, UnionOfRows
            <4>3. Cardinality(Slices!Union(a, b)) \in Nat /\ Cardinality(U) \in Nat
                BY <1>4, <4>2, FS_Subset, FS_CardinalityType
            <4> QED BY <1>1, <1>3, <4>2, <4>3
        <3> QED BY <1>1, <1>3, <3>2, <3>3, <3>4
    <2>6. CutTo(h, end)
        <3> HIDE DEF h
        <3> QED BY <2>4, <2>5 DEF CutTo
    <2>7. PICK w : w = h
        OBVIOUS
    <2>8. CutTo(w, sliced)'
        <3> HIDE DEF h
        <3>1. \A a, b : Slices!Union(a, b)' = Slices!Union(a, b)
            BY <1>2 DEF Slices!Union
        <3> QED BY <1>2, <2>6, <2>7, <3>1 DEF CutTo, Slices!Apart
    <2> HIDE DEF h
    <2> QED BY <2>3, <2>7, <2>8
<1>11. ASSUME NEW c \in Slices!Cuts, Slices!Fits(c)
       PROVE  slices + 1 <= Cardinality(c \cap (1 .. end))
    <2> DEFINE before == c \cap (1 .. sliced)
               now == c \cap (1 .. end)
    <2>1. PICK x \in c : first <= x /\ x <= end
        <3>1. c \in SUBSET (1 .. SliceRows) /\ SliceRows \in c
            BY DEF Slices!Cuts
        <3>2. CASE end = SliceRows
            BY <1>1, <1>2, <3>1, <3>2
        <3>3. CASE end # SliceRows /\ Cardinality(Slices!Union(first, end + 1)) > SliceSlots
            <4>1. first \in 1 .. SliceRows /\ end + 1 \in 1 .. SliceRows /\ first <= end + 1
                BY <1>1, <1>2, <1>3, <3>3
            <4>2. ~(Cardinality(Slices!Union(first, end + 1)) <= SliceSlots)
                <5>1. Cardinality(Slices!Union(first, end + 1)) \in Nat
                    <6> DEFINE W == Slices!Union(first, end + 1)
                    <6>1. first \in Nat /\ first > 0 /\ end + 1 \in Nat /\ end + 1 <= SliceRows
                        BY <1>1, <1>3, <4>1
                    <6>2. IsFiniteSet(W)
                        <7> HIDE DEF first
                        <7> QED BY <1>1, <6>1, UnionOfRows
                    <6> HIDE DEF W
                    <6>3. Cardinality(W) \in Nat
                        BY <6>2, FS_CardinalityType
                    <6> QED BY <6>3 DEF W
                <5> QED BY <1>1, <3>3, <5>1
            <4>3. Slices!Apart(c, first, end + 1)
                BY <1>11, <4>1, <4>2, SliceOperators DEF Slices!Fits
            <4>4. PICK y \in c : first <= y /\ y < end + 1
                BY <4>3 DEF Slices!Apart
            <4>5. y \in 1 .. SliceRows
                BY <3>1, <4>4
            <4> QED BY <1>3, <4>4, <4>5
        <3> QED BY <1>3, <3>2, <3>3
    <2>2. IsFiniteSet(before) /\ IsFiniteSet(now)
        <3>1. IsFiniteSet(1 .. sliced) /\ IsFiniteSet(1 .. end)
            BY <1>1, <1>3, FirstFinite
        <3> QED BY <3>1, FS_Subset
    <2>3. before \cup {x} \subseteq now /\ x \notin before
        <3>1. x \in 1 .. SliceRows
            BY <2>1 DEF Slices!Cuts
        <3> QED BY <1>1, <1>2, <1>3, <2>1, <3>1
    <2> HIDE DEF before, now
    <2>4. /\ Cardinality(before \cup {x}) = Cardinality(before) + 1
          /\ Cardinality(before \cup {x}) <= Cardinality(now)
          /\ Cardinality(before) \in Nat /\ Cardinality(now) \in Nat
        BY <2>2, <2>3, FS_AddElement, FS_Subset, FS_CardinalityType
    <2>5. slices <= Cardinality(before)
        BY <1>11 DEF SlInv, Fewest, before
    <2>6. slices + 1 <= Cardinality(now)
        BY <1>1, <2>4, <2>5
    <2> QED BY <2>6 DEF now
<1>12. Fewest'
    <2>1. Slices!Cuts' = Slices!Cuts /\ \A c : Slices!Fits(c)' <=> Slices!Fits(c)
        BY <1>2 DEF Slices!Cuts, Slices!Fits, Slices!Apart, Slices!Union
    <2>2. \E g : CutTo(g, sliced)' /\ Cardinality(g) = slices'
        BY <1>2, <1>10
    <2> QED BY <1>2, <1>11, <2>1, <2>2 DEF Fewest
<1> QED BY <1>1, <1>2, <1>3, <1>5, <1>8, <1>9, <1>12 DEF SlInv

\* What is evaluated reads the slots its experts are still bound to.
LEMMA EvalStep ==
    ASSUME SliceRows \in Nat, SlInv, Slices!Eval
    PROVE  SlInv'
<1>1. pc = "eval"
    BY DEF SlInv, Built, Slices!Eval
<1>2. /\ got' = Slices!Joined(got, [i \in DOMAIN graph |-> [e \in flat[i] |-> Slices!Content(graph[i][e])]])
      /\ graph' = <<>> /\ pc' = "slice"
      /\ flat' = flat /\ pool' = pool /\ sliced' = sliced /\ slices' = slices
    BY DEF Slices!Eval
<1>3. /\ DOMAIN got \cup DOMAIN graph = 1 .. sliced
      /\ \A i \in DOMAIN graph : \A e \in flat[i] :
            \E x \in Range(pool) : x.e = e /\ x.slot = graph[i][e]
    BY <1>1 DEF SlInv, Built
<1>4. DOMAIN got' = 1 .. sliced
    BY <1>2, <1>3 DEF Slices!Joined
<1>5. ASSUME NEW i \in DOMAIN graph, NEW e \in flat[i]
      PROVE  Slices!Content(graph[i][e]) = e
    <2>1. PICK x \in Range(pool) : x.e = e /\ x.slot = graph[i][e]
        BY <1>3
    <2>2. \A y \in Range(pool) : y.slot = graph[i][e] => y = x
        BY <2>1 DEF SlInv, Bounds
    <2>3. (CHOOSE y \in Range(pool) : y.slot = graph[i][e]) = x
        BY <2>1, <2>2
    <2> QED BY <2>1, <2>3, SliceOperators DEF Slices!Content
<1>6. ASSUME NEW i \in DOMAIN got', NEW e \in flat[i]
      PROVE  got'[i][e] = e
    <2>1. CASE i \in DOMAIN got
        BY <1>2, <1>6, <2>1 DEF Slices!Joined, SlInv, Slices!OwnExperts
    <2>2. CASE i \notin DOMAIN got
        <3>1. i \in DOMAIN graph
            BY <1>3, <1>4, <1>6, <2>2
        <3>2. got'[i] = [x \in flat[i] |-> Slices!Content(graph[i][x])]
            BY <1>2, <1>6, <2>2, <3>1 DEF Slices!Joined
        <3> QED BY <1>5, <1>6, <3>1, <3>2
    <2> QED BY <2>1, <2>2
<1>7. Built' /\ Slices!OwnExperts'
    BY <1>2, <1>4, <1>6 DEF Built, Slices!OwnExperts
<1>8. Fewest'
    BY <1>2, FewestStays DEF SlInv
<1> QED BY <1>2, <1>7, <1>8 DEF SlInv

LEMMA SlicesStay == SlInv /\ UNCHANGED Slices!vars => SlInv'
<1> SUFFICES ASSUME SlInv, UNCHANGED Slices!vars PROVE SlInv'
    OBVIOUS
<1>1. /\ flat' = flat /\ pool' = pool /\ sliced' = sliced /\ graph' = graph /\ got' = got
      /\ slices' = slices /\ pc' = pc
    BY DEF Slices!vars
<1>2. Fewest'
    BY <1>1, FewestStays DEF SlInv
<1>3. Built' /\ Slices!OwnExperts'
    BY <1>1 DEF SlInv, Built, Slices!OwnExperts
<1> QED BY <1>1, <1>2, <1>3 DEF SlInv, Bounds

\* When the chunk is done the runs are a cut of all its rows.
LEMMA FewestHolds ==
    ASSUME SliceRows \in Nat \ {0}, SlInv
    PROVE  Slices!FewestRuns
<1> SUFFICES ASSUME pc = "done"
             PROVE  /\ DOMAIN got = 1 .. SliceRows
                    /\ slices \in Slices!RunCounts /\ \A n \in Slices!RunCounts : slices <= n
    BY DEF Slices!FewestRuns
<1>1. sliced = SliceRows /\ DOMAIN got = 1 .. SliceRows
    BY DEF SlInv, Built
<1>2. slices \in Slices!RunCounts
    <2>1. PICK g : CutTo(g, SliceRows) /\ Cardinality(g) = slices
        BY <1>1 DEF SlInv, Fewest
    <2>2. g \in Slices!Cuts /\ Slices!Fits(g)
        BY <2>1, SliceOperators DEF CutTo, Slices!Cuts, Slices!Fits
    <2> QED BY <2>1, <2>2, SliceOperators DEF Slices!RunCounts
<1>3. ASSUME NEW n \in Slices!RunCounts PROVE slices <= n
    <2>1. PICK c \in Slices!Cuts : Slices!Fits(c) /\ n = Cardinality(c)
        BY SliceOperators DEF Slices!RunCounts
    <2>2. c \cap (1 .. SliceRows) = c
        BY DEF Slices!Cuts
    <2>3. slices <= Cardinality(c \cap (1 .. SliceRows))
        BY <1>1, <2>1 DEF SlInv, Fewest
    <2> QED BY <2>1, <2>2, <2>3
<1> QED BY <1>1, <1>2, <1>3

\* The slices of a chunk too wide for the pool are computed from their own
\* experts, before their slots are refilled, and are as few as in any cut of
\* its rows whose slices fit the pool (integrate.py, the end of __call__).
THEOREM SlicesAlwaysExact == PartsSpec => []SlicesExact
<1> DEFINE SInv == part = "slices" => SlInv
           partsVars == <<part, planVars, rangeVars, chunkVars, sliceVars, touchVars, flat, pool, pc>>
<1>1. Slices!SlicesAssumption /\ SliceRows \in Nat \ {0}
    BY PartsAssumption DEF Slices!SlicesAssumption
<1>2. PartsInit => SInv
    BY <1>1, SliceInit DEF PartsInit
<1>3. ASSUME SlInv, Slices!Next PROVE SlInv'
    <2>1. CASE Slices!Slice
        BY <1>1, <1>3, <2>1, SliceStep
    <2>2. CASE Slices!Eval
        BY <1>1, <1>3, <2>2, EvalStep
    <2>3. CASE Slices!Done \/ Slices!TooWide
        <3>1. SlInv /\ flat' = flat /\ pool' = pool /\ sliced' = sliced /\ graph' = graph
                 /\ got' = got /\ slices' = slices /\ pc = "slice" /\ pc' \in {"done", "raised"}
                 /\ (pc' = "done" => sliced = SliceRows)
            BY <1>3, <2>3 DEF Slices!Done, Slices!TooWide
        <3>2. Built' /\ Slices!OwnExperts'
            BY <3>1 DEF SlInv, Built, Slices!OwnExperts
        <3>3. Fewest'
            BY <3>1, FewestStays DEF SlInv
        <3> QED BY <3>1, <3>2, <3>3 DEF SlInv
    <2> QED BY <1>3, <2>1, <2>2, <2>3 DEF Slices!Next
<1>4. SInv /\ [PartsNext]_partsVars => SInv'
    <2> SUFFICES ASSUME SInv, [PartsNext]_partsVars PROVE SInv'
        OBVIOUS
    <2>1. CASE PartsNext
        <3>1. part' = part /\ (part = "slices" => Slices!Next)
            BY <2>1 DEF PartsNext
        <3> QED BY <1>3, <3>1
    <2>2. CASE UNCHANGED partsVars
        BY <2>2, SlicesStay DEF sliceVars, Slices!vars
    <2> QED BY <2>1, <2>2
<1>5. SInv => SlicesExact
    BY <1>1, FewestHolds DEF SlInv, SlicesExact, Slices!SlicesExact
<1> QED BY <1>2, <1>4, <1>5, PTL DEF PartsSpec

-----------------------------------------------------------------------------
(* The hits first, then the misses: TouchFirst.                            *)
TouchOrders == LruOrders(TouchExperts)
TouchPools == LruPools(TouchExperts, TouchSlots)
Hits(o, es) == LruHits(TouchExperts, o, es)
Takes(o, es) == LruTakes(TouchExperts, TouchSlots, o, es)
RoutedOnce == {ids \in [1 .. TouchK -> TouchExperts] : IsInjective(ids)}

LEMMA TouchBounds == TouchSlots \in Nat \ {0} /\ TouchK \in 1 .. TouchSlots
BY PartsAssumption DEF Touch!TouchAssumption

\* TouchFirst's operators.
LEMMA TouchOperators ==
    ASSUME NEW p, NEW ids
    PROVE  /\ Touch!Ensure(p, ids) = Takes(p, ids)
           /\ Touch!Overlap(p, ids) \in
                  {Takes(p, ids),
                   Takes(Hits(p, Only(ids, Range(p))), Only(ids, TouchExperts \ Range(p)))}
           /\ Touch!Routings = RoutedOnce /\ Range(p) = Touch!Range(p)
<1>1. \A S, q : Touch!Only(q, S) = Only(q, S)
    BY DEF Touch!Only, Only, Touch!Fold, Fold, Touch!Range, Range
<1>2. \A q : Touch!Range(q) = Range(q)
    BY DEF Touch!Range, Range
<1>3. \A q, e : Touch!LruHit(TouchExperts, q, e) = LruHit(TouchExperts, q, e)
    BY <1>1 DEF Touch!LruHit, LruHit
<1>4. \A q, e : Touch!LruTake(TouchExperts, TouchSlots, q, e) = LruTake(TouchExperts, TouchSlots, q, e)
    BY <1>2, <1>3 DEF Touch!LruTake, LruTake
<1>5. \A step, base, q : Touch!Fold(step, base, q) = Fold(step, base, q)
    BY DEF Touch!Fold, Fold
<1>6. \A q, es : Touch!Touch(q, es) = Hits(q, es) /\ Touch!Ensure(q, es) = Takes(q, es)
    <2>1. [e \in TouchExperts |-> [o \in Seq(TouchExperts) |-> Touch!LruHit(TouchExperts, o, e)]] =
              [e \in TouchExperts |-> [o \in Seq(TouchExperts) |-> LruHit(TouchExperts, o, e)]]
        BY <1>3
    <2>2. [e \in TouchExperts |-> [o \in Seq(TouchExperts) |-> Touch!LruTake(TouchExperts, TouchSlots, o, e)]] =
              [e \in TouchExperts |-> [o \in Seq(TouchExperts) |-> LruTake(TouchExperts, TouchSlots, o, e)]]
        BY <1>4
    <2> QED BY <1>5, <2>1, <2>2 DEF Touch!Touch, Touch!Ensure, Touch!LruHits, Touch!LruTakes,
                                    LruHits, LruTakes, Hits, Takes
<1>7. Touch!Routings = RoutedOnce
    BY DEF Touch!Routings, RoutedOnce, IsInjective
<1> QED BY <1>1, <1>2, <1>6, <1>7 DEF Touch!Overlap

LEMMA TouchTypes ==
    ASSUME NEW o \in TouchPools, NEW es \in Seq(TouchExperts)
    PROVE  Hits(o, es) \in TouchOrders /\ Takes(o, es) \in TouchPools
<1>1. o \in TouchOrders /\ o \in LruPools(TouchExperts, TouchSlots) /\ TouchSlots \in Nat \ {0}
    BY TouchBounds DEF TouchPools, TouchOrders, LruPools
<1>2. CASE es = <<>>
    BY <1>1, <1>2, LruHitsEmpty, LruTakesEmpty DEF Hits, Takes, TouchPools
<1>3. CASE es # <<>>
    <2>1. Head(es) \in TouchExperts
        BY <1>3, HeadTailProperties
    <2> QED BY <1>1, <2>1, LruHitsAppend, LruTakesAppend DEF Hits, Takes, TouchPools, TouchOrders
<1> QED BY <1>2, <1>3

LEMMA HitsSplit ==
    ASSUME NEW o \in TouchPools, NEW es \in Seq(TouchExperts), IsInjective(es)
    PROVE  Hits(o, es) = Only(o, TouchExperts \ Range(es)) \o es
<1>1. o \in LruOrders(TouchExperts)
    BY DEF TouchPools, LruPools
<1> QED BY <1>1, LruHitsSplit DEF Hits

LEMMA TakesLast ==
    ASSUME NEW o \in TouchPools, NEW es \in Seq(TouchExperts)
    PROVE  Takes(o, es) = LastOf(Hits(o, es), TouchSlots)
<1>1. o \in LruPools(TouchExperts, TouchSlots) /\ TouchSlots \in Nat \ {0}
    BY TouchBounds DEF TouchPools
<1> QED BY <1>1, LruTakesLast DEF Hits, Takes

LEMMA HitsResident ==
    ASSUME NEW o \in TouchPools, NEW es \in Seq(TouchExperts), Range(es) \subseteq Range(o)
    PROVE  Hits(o, es) \in TouchPools
<1>1. o \in LruPools(TouchExperts, TouchSlots) /\ TouchSlots \in Nat \ {0}
    BY TouchBounds DEF TouchPools
<1> QED BY <1>1, LruHitsResident DEF Hits, TouchPools

\* A call's experts, the hits before the misses or as they are routed, come
\* after the same TouchSlots - TouchK others.
LEMMA CallAgrees ==
    ASSUME NEW o \in TouchPools, NEW ids \in RoutedOnce
    PROVE  LET hits == Only(ids, Range(o))
               misses == Only(ids, TouchExperts \ Range(o))
           IN  /\ Takes(o, ids) \in TouchPools /\ Takes(Hits(o, hits), misses) \in TouchPools
               /\ Range(Takes(Hits(o, hits), misses)) = Range(Takes(o, ids))
<1> DEFINE a == Only(ids, Range(o))
           b == Only(ids, TouchExperts \ Range(o))
           c == a \o b
           x == Only(o, TouchExperts \ Range(ids))
           ha == Hits(o, a)
           n == TouchSlots - TouchK
<1>1. /\ o \in TouchOrders /\ o \in Seq(TouchExperts) /\ Range(o) \subseteq TouchExperts
      /\ TouchSlots \in Nat /\ TouchK \in 1 .. TouchSlots /\ n \in Nat
    BY TouchBounds, RangeOfSeq DEF TouchPools, TouchOrders, LruPools, LruOrders
<1>2. ids \in Seq(TouchExperts) /\ IsInjective(ids) /\ Len(ids) = TouchK
    <2>1. ids \in [1 .. TouchK -> TouchExperts] /\ IsInjective(ids)
        BY DEF RoutedOnce
    <2> QED BY <1>1, <2>1
<1>3. Range(ids) \subseteq TouchExperts
    BY <1>2, RangeOfSeq
<1>4. /\ a \in Seq(TouchExperts) /\ IsInjective(a) /\ Range(a) = Range(ids) \cap Range(o)
      /\ b \in Seq(TouchExperts) /\ IsInjective(b) /\ Range(b) = Range(ids) \ Range(o)
    <2>1. Range(ids) \cap (TouchExperts \ Range(o)) = Range(ids) \ Range(o)
        BY <1>3
    <2> DEFINE M == TouchExperts \ Range(o)
    <2> HIDE DEF M
    <2>2. /\ Only(ids, M) \in Seq(TouchExperts) /\ IsInjective(Only(ids, M))
          /\ Range(Only(ids, M)) = Range(ids) \cap M
        BY <1>2, OnlyProperties
    <2>3. /\ a \in Seq(TouchExperts) /\ IsInjective(a) /\ Range(a) = Range(ids) \cap Range(o)
        BY <1>2, OnlyProperties
    <2> QED BY <2>1, <2>2, <2>3 DEF M
<1>5. x \in Seq(TouchExperts)
    <2> DEFINE S == TouchExperts \ Range(ids)
    <2> HIDE DEF S
    <2>1. Only(o, S) \in Seq(TouchExperts)
        BY <1>1, OnlyType
    <2> QED BY <2>1 DEF S
<1> HIDE DEF a, b
<1>6. c \in Seq(TouchExperts) /\ Range(c) = Range(ids) /\ ha \in TouchPools /\ ha \in TouchOrders
    <2>1. Range(a \o b) = Range(a) \cup Range(b) /\ a \o b \in Seq(TouchExperts)
        BY <1>4, RangeConcatenation, ConcatProperties
    <2> QED BY <1>4, <2>1, HitsResident DEF TouchPools, TouchOrders, LruPools
<1>7. Hits(ha, b) = x \o c
    <2>1. Range(a) \subseteq Range(o) /\ Range(a) \cap Range(b) = {}
        BY <1>4
    <2>2. a \in Seq(TouchExperts) /\ b \in Seq(TouchExperts) /\ IsInjective(a) /\ IsInjective(b)
        BY <1>4
    <2>3. LruHits(TouchExperts, LruHits(TouchExperts, o, a), b) =
              Only(o, TouchExperts \ Range(a \o b)) \o (a \o b)
        BY <1>1, <2>1, <2>2, LruHitsTwice DEF TouchOrders
    <2>4. Hits(ha, b) = Only(o, TouchExperts \ Range(c)) \o c
        BY <2>3 DEF Hits
    <2> QED BY <1>6, <2>4
<1>8. Hits(o, ids) = x \o ids
    BY <1>2, HitsSplit
<1>9. \A q \in TouchPools, es \in Seq(TouchExperts) : Hits(q, es) \in TouchOrders /\ Takes(q, es) \in TouchPools
    BY TouchTypes
<1> HIDE DEF x, ha
\* Both orders end in the call's experts, TouchK of them.
<1>10. Len(c) = TouchK
    <2>1. x \o c \in TouchOrders
        BY <1>4, <1>6, <1>7, <1>9
    <2>2. IsInjective(c)
        <3> HIDE DEF c
        <3> QED BY <1>5, <1>6, <2>1, InjectiveConcat DEF TouchOrders, LruOrders
    <2>3. Cardinality(Range(c)) = Len(c) /\ Cardinality(Range(ids)) = Len(ids)
        <3> HIDE DEF c
        <3> QED BY <1>2, <1>6, <2>2, InjectiveLen
    <2> QED BY <1>2, <1>6, <2>3
<1> DEFINE z == LastOf(x, n)
<1>11. z \in Seq(TouchExperts)
    <2> HIDE DEF n
    <2> QED BY <1>1, <1>5, LastOfSplit
<1> HIDE DEF c
<1>12. Takes(ha, b) = z \o c
    <2>1. Takes(ha, b) = LastOf(x \o c, TouchSlots)
        BY <1>4, <1>6, <1>7, TakesLast
    <2>2. Len(c) <= TouchSlots /\ TouchSlots - Len(c) = n
        BY <1>1, <1>6, <1>10
    <2>3. LastOf(x \o c, TouchSlots) = LastOf(x, TouchSlots - Len(c)) \o c
        BY <1>1, <1>5, <1>6, <1>10, <2>2, LastOfConcat
    <2> QED BY <2>1, <2>2, <2>3
<1>13. Takes(o, ids) = z \o ids
    <2>1. Takes(o, ids) = LastOf(x \o ids, TouchSlots)
        BY <1>2, <1>8, TakesLast
    <2>2. Len(ids) <= TouchSlots /\ TouchSlots - Len(ids) = n
        BY <1>1, <1>2
    <2>3. LastOf(x \o ids, TouchSlots) = LastOf(x, TouchSlots - Len(ids)) \o ids
        BY <1>1, <1>5, <1>2, <2>2, LastOfConcat
    <2> QED BY <2>1, <2>2, <2>3
<1> HIDE DEF z
<1>14. Range(z \o c) = Range(z) \cup Range(ids) /\ Range(z \o ids) = Range(z) \cup Range(ids)
    BY <1>2, <1>6, <1>11, RangeConcatenation
<1> QED BY <1>2, <1>4, <1>6, <1>9, <1>12, <1>13, <1>14 DEF a, b, ha

\* From pools in the same order, a call that touches its hits and then fetches
\* its misses leaves the experts that plain ensure leaves, whatever the order
\* they are routed in: the pools need only hold a token's experts.
THEOREM OneCallAlwaysAgrees == PartsSpec => OneCallAgrees
<1> DEFINE Both == part = "touch" => overlapped \in TouchPools /\ plain \in TouchPools
           Agrees == overlapped = plain => Touch!Range(overlapped') = Touch!Range(plain')
           partsVars == <<part, planVars, rangeVars, chunkVars, sliceVars, touchVars, flat, pool, pc>>
<1>1. PartsInit => Both
    <2>1. <<>> \in TouchPools
        BY TouchBounds, EmptySeq DEF TouchPools, LruPools, LruOrders, IsInjective
    <2> QED BY <2>1 DEF PartsInit, Touch!Init
<1>2. ASSUME overlapped \in TouchPools, plain \in TouchPools, Touch!Next
      PROVE  overlapped' \in TouchPools /\ plain' \in TouchPools /\ Agrees
    <2>1. PICK ids \in Touch!Routings : Touch!Call(ids)
        BY <1>2 DEF Touch!Next
    <2> DEFINE late(o) == Takes(Hits(o, Only(ids, Range(o))), Only(ids, TouchExperts \ Range(o)))
    <2>2. ids \in RoutedOnce
        BY <2>1, TouchOperators
    <2>3. plain' = Takes(plain, ids) /\ overlapped' \in {Takes(overlapped, ids), late(overlapped)}
        BY <2>1, TouchOperators DEF Touch!Call
    <2>4. \A o \in TouchPools : /\ Takes(o, ids) \in TouchPools /\ late(o) \in TouchPools
                                /\ Range(late(o)) = Range(Takes(o, ids))
        BY <2>2, CallAgrees
    <2> HIDE DEF late
    <2>5. Touch!Range(overlapped') = Range(overlapped') /\ Touch!Range(plain') = Range(plain')
        BY TouchOperators
    <2> QED BY <1>2, <2>3, <2>4, <2>5
<1>3. ASSUME Both, [PartsNext]_partsVars PROVE Both' /\ [Agrees]_Touch!vars
    <2>1. CASE PartsNext /\ part = "touch"
        BY <1>2, <1>3, <2>1 DEF PartsNext
    <2>2. CASE (PartsNext /\ part # "touch") \/ UNCHANGED partsVars
        <3>1. part' = part /\ overlapped' = overlapped /\ plain' = plain
            BY <2>2 DEF PartsNext, touchVars
        <3> QED BY <1>3, <3>1 DEF Touch!vars
    <2> QED BY <1>3, <2>1, <2>2
<1> QED BY <1>1, <1>3, PTL DEF PartsSpec, OneCallAgrees, Touch!OneCallAgrees

-----------------------------------------------------------------------------
(* The rows of a chunk, grouped by expert: SweepRows.                      *)
ChunkSet == 1 .. ChunkExperts
ChunkPools == LruPools(ChunkSet, ChunkSlots)

\* SweepRows' operators.
LEMMA ChunkOperators ==
    /\ \A p : Chunk!Range(p) = Range(p) /\ \A n : Chunk!LastOf(p, n) = LastOf(p, n)
    /\ \A p, S : Chunk!Only(p, S) = Only(p, S)
    /\ \A S : Chunk!Cardinality(S) = Cardinality(S)
    /\ \A p, es : /\ Chunk!LruHits(ChunkSet, p, es) = LruHits(ChunkSet, p, es)
                  /\ Chunk!LruTakes(ChunkSet, ChunkSlots, p, es) = LruTakes(ChunkSet, ChunkSlots, p, es)
<1>1. \A S : Chunk!Cardinality(S) = Cardinality(S)
    BY DEF Chunk!Cardinality, Cardinality
<1>2. \A p : Chunk!Range(p) = Range(p)
    BY DEF Chunk!Range, Range
<1>3. \A p, S : Chunk!Only(p, S) = Only(p, S)
    BY DEF Chunk!Only, Only, Chunk!Fold, Fold, Chunk!Range, Range
<1>4. \A p, n : Chunk!LastOf(p, n) = LastOf(p, n)
    BY DEF Chunk!LastOf, LastOf
<1>5. \A q, e : Chunk!LruHit(ChunkSet, q, e) = LruHit(ChunkSet, q, e)
    BY <1>3 DEF Chunk!LruHit, LruHit
<1>6. \A q, e : Chunk!LruTake(ChunkSet, ChunkSlots, q, e) = LruTake(ChunkSet, ChunkSlots, q, e)
    BY <1>2, <1>5 DEF Chunk!LruTake, LruTake
<1>7. \A step, base, q : Chunk!Fold(step, base, q) = Fold(step, base, q)
    BY DEF Chunk!Fold, Fold
<1>8. [e \in ChunkSet |-> [o \in Seq(ChunkSet) |-> Chunk!LruHit(ChunkSet, o, e)]] =
          [e \in ChunkSet |-> [o \in Seq(ChunkSet) |-> LruHit(ChunkSet, o, e)]]
    BY <1>5
<1>9. [e \in ChunkSet |-> [o \in Seq(ChunkSet) |-> Chunk!LruTake(ChunkSet, ChunkSlots, o, e)]] =
          [e \in ChunkSet |-> [o \in Seq(ChunkSet) |-> LruTake(ChunkSet, ChunkSlots, o, e)]]
    BY <1>6
<1>10. \A q, es : /\ Chunk!LruHits(ChunkSet, q, es) = LruHits(ChunkSet, q, es)
                  /\ Chunk!LruTakes(ChunkSet, ChunkSlots, q, es) = LruTakes(ChunkSet, ChunkSlots, q, es)
    BY <1>7, <1>8, <1>9 DEF Chunk!LruHits, Chunk!LruTakes, LruHits, LruTakes
<1> QED BY <1>1, <1>2, <1>3, <1>4, <1>10

\* Sorted by their numbers, equal ones by themselves.
LEMMA ArgsortedProperties ==
    ASSUME NEW D \in SUBSET Int, IsFiniteSet(D), NEW number \in [D -> Int], NEW s,
           s = Chunk!Argsorted(number)
    PROVE  /\ s \in Seq(D) /\ Len(s) = Cardinality(D) /\ IsInjective(s) /\ Range(s) = D
           /\ \A i, j \in 1 .. Len(s) : i < j => Chunk!Precedes(number, s[i], s[j])
           /\ \A i \in 1 .. Len(s) : Cardinality({a \in D : Chunk!Precedes(number, a, s[i])}) = i - 1
<1> DEFINE n == Cardinality(D)
           P(a, b) == Chunk!Precedes(number, a, b)
           below(b) == {a \in D : P(a, b)}
           rank == [b \in D |-> Cardinality(below(b))]
<1>1. n \in Nat /\ \A b \in D : IsFiniteSet(below(b)) /\ rank[b] \in Nat
    <2> SUFFICES ASSUME NEW b \in D PROVE IsFiniteSet(below(b)) /\ Cardinality(below(b)) \in Nat
        BY FS_CardinalityType
    <2> QED BY FS_Subset, FS_CardinalityType
<1>2. \A a, b \in D : number[a] \in Int /\ number[b] \in Int /\ a \in Int /\ b \in Int
    OBVIOUS
<1>3. /\ \A a \in D : ~P(a, a)
      /\ \A a, b \in D : a = b \/ P(a, b) \/ P(b, a)
      /\ \A a, b, c \in D : P(a, b) /\ P(b, c) => P(a, c)
    BY <1>2 DEF Chunk!Precedes
<1> HIDE DEF P
<1>4. ASSUME NEW a \in D, NEW b \in D, P(a, b) PROVE rank[a] < rank[b]
    <2> DEFINE T == below(a) \cup {a}
    <2>1. Cardinality(T) = rank[a] + 1
        BY <1>1, <1>3, FS_AddElement
    <2>2. T \in SUBSET below(b)
        BY <1>3, <1>4
    <2>3. Cardinality(T) <= rank[b]
        BY <1>1, <2>2, FS_Subset
    <2> QED BY <1>1, <2>1, <2>3
<1>5. \A a, b \in D : rank[a] = rank[b] => a = b
    <2> SUFFICES ASSUME NEW a \in D, NEW b \in D, a # b PROVE rank[a] # rank[b]
        OBVIOUS
    <2>1. rank[a] \in Nat /\ rank[b] \in Nat /\ (rank[a] < rank[b] \/ rank[b] < rank[a])
        BY <1>1, <1>3, <1>4
    <2> QED BY <2>1
<1>6. rank \in [D -> 0 .. n - 1]
    <2> SUFFICES ASSUME NEW b \in D PROVE rank[b] \in 0 .. n - 1
        OBVIOUS
    <2> DEFINE T == below(b) \cup {b}
    <2>1. Cardinality(T) = rank[b] + 1
        BY <1>1, <1>3, FS_AddElement
    <2>2. T \in SUBSET D
        OBVIOUS
    <2>3. Cardinality(T) <= n
        BY <2>2, FS_Subset
    <2> QED BY <1>1, <2>1, <2>3
<1> HIDE DEF rank
<1>7. \A r \in 0 .. n - 1 : \E b \in D : rank[b] = r
    <2> DEFINE T == 0 .. n - 1
    <2>1. IsFiniteSet(T) /\ Cardinality(T) = n
        <3>1. 0 \in Int /\ n - 1 \in Int
            BY <1>1
        <3>2. IsFiniteSet(0 .. n - 1) /\ Cardinality(0 .. n - 1) = IF 0 > n - 1 THEN 0 ELSE (n - 1) - 0 + 1
            BY <3>1, FS_Interval
        <3> QED BY <1>1, <3>2
    <2>2. rank \in Injection(D, T)
        BY <1>5, <1>6 DEF Injection, IsInjective
    <2>3. rank \in Surjection(D, T)
        <3> HIDE DEF T
        <3> QED BY <2>1, <2>2, FS_Injection
    <2> QED BY <2>3 DEF Surjection
<1>8. s = [i \in 1 .. n |-> CHOOSE b \in D : Chunk!Cardinality(below(b)) = i - 1]
    <2>1. DOMAIN number = D /\ Chunk!Cardinality(D) = n
        BY ChunkOperators
    <2>2. s = [i \in 1 .. Chunk!Cardinality(D) |->
                  CHOOSE b \in D : Chunk!Cardinality({a \in D : Chunk!Precedes(number, a, b)}) = i - 1]
        BY <2>1 DEF Chunk!Argsorted
    <2> QED BY <2>1, <2>2 DEF P
<1>9. \A i \in 1 .. n : s[i] \in D /\ rank[s[i]] = i - 1
    <2> SUFFICES ASSUME NEW i \in 1 .. n PROVE s[i] \in D /\ rank[s[i]] = i - 1
        OBVIOUS
    <2>1. i - 1 \in 0 .. n - 1
        BY <1>1
    <2>2. PICK b \in D : rank[b] = i - 1
        BY <1>7, <2>1
    <2>3. \A d \in D : rank[d] = Chunk!Cardinality(below(d))
        BY ChunkOperators DEF rank
    <2>4. s[i] = CHOOSE d \in D : Chunk!Cardinality(below(d)) = i - 1
        BY <1>8
    <2> HIDE DEF below
    <2> QED BY <2>2, <2>3, <2>4
<1>10. s \in Seq(D) /\ Len(s) = n /\ DOMAIN s = 1 .. n
    <2>1. s \in [1 .. n -> D]
        <3>1. DOMAIN s = 1 .. n /\ s = [i \in 1 .. n |-> s[i]]
            BY <1>8
        <3> QED BY <1>9, <3>1
    <2> HIDE DEF n
    <2> QED BY <1>1, <2>1
<1>11. IsInjective(s)
    BY <1>1, <1>9, <1>10 DEF IsInjective
<1>12. Range(s) = D
    <2>1. ASSUME NEW b \in D PROVE b \in Range(s)
        <3>1. rank[b] + 1 \in 1 .. n /\ (rank[b] + 1) - 1 = rank[b]
            BY <1>1, <1>6
        <3>2. s[rank[b] + 1] = b
            BY <1>5, <1>9, <3>1
        <3> QED BY <1>10, <3>1, <3>2 DEF Range
    <2> QED BY <1>10, <2>1, RangeOfSeq
<1>13. ASSUME NEW i \in 1 .. n, NEW j \in 1 .. n, i < j PROVE P(s[i], s[j])
    <2>1. s[i] # s[j] /\ ~(rank[s[j]] < rank[s[i]])
        BY <1>9, <1>13
    <2> QED BY <1>3, <1>4, <1>9, <2>1
<1>14. \A i \in 1 .. n : Cardinality(below(s[i])) = i - 1
    BY <1>9 DEF rank
<1> QED BY <1>10, <1>11, <1>12, <1>13, <1>14 DEF P

\* What is assumed of the constants.
LEMMA ChunkBounds ==
    /\ ChunkExperts \in Nat \ {0} /\ ChunkSlots \in 1 .. ChunkExperts /\ ChunkBatch \in Nat \ {0}
    /\ ChunkK \in Nat \ {0} /\ PerExpert \in Nat \ {0} /\ KernelMin \in Nat \ {0} /\ StockMin \in Nat \ {0}
    /\ KernelMin <= StockMin /\ \A r \in RowCounts : r \in Nat \ {0}
    /\ ChunkSet \in SUBSET Int /\ IsFiniteSet(ChunkSet)
<1>1. /\ \A x \in RowCounts \cup {ChunkExperts, ChunkSlots, ChunkK, ChunkBatch, StockMin, KernelMin, PerExpert} :
            x \in Nat \ {0}
      /\ ChunkSlots <= ChunkExperts /\ KernelMin <= StockMin
    BY PartsAssumption DEF Chunk!SweepRowsAssumption
<1>2. ChunkExperts \in Int /\ 1 \in Int
    BY <1>1
<1>3. IsFiniteSet(ChunkSet)
    BY <1>2, FS_Interval DEF ChunkSet
<1> QED BY <1>1, <1>3 DEF ChunkSet

\* The pairs and the experts they are routed to.
LEMMA RoutedFinite ==
    ASSUME flat \in Seq(ChunkSet)
    PROVE  /\ Chunk!Pairs = 1 .. Len(flat) /\ Len(flat) \in Nat /\ IsFiniteSet(Chunk!Pairs)
           /\ Cardinality(Chunk!Pairs) = Len(flat) /\ Chunk!Pairs \in SUBSET Int
           /\ \A i \in Chunk!Pairs : flat[i] \in ChunkSet /\ flat[i] \in Int /\ flat[i] \in Range(flat)
           /\ Range(flat) \in SUBSET ChunkSet /\ IsFiniteSet(Range(flat)) /\ Range(flat) \in SUBSET Int
           /\ Cardinality(Range(flat)) \in Nat
<1>1. Chunk!Pairs = 1 .. Len(flat) /\ Len(flat) \in Nat
    BY LenProperties DEF Chunk!Pairs
<1>2. IsFiniteSet(1 .. Len(flat)) /\ Cardinality(1 .. Len(flat)) = Len(flat)
    <2>1. 1 \in Int /\ Len(flat) \in Int
        BY <1>1
    <2>2. IsFiniteSet(1 .. Len(flat)) /\ Cardinality(1 .. Len(flat)) = IF 1 > Len(flat) THEN 0 ELSE Len(flat) - 1 + 1
        BY <2>1, FS_Interval
    <2> QED BY <1>1, <2>2
<1>3. Range(flat) \in SUBSET ChunkSet
    BY RangeOfSeq
<1>4. IsFiniteSet(Range(flat)) /\ Cardinality(Range(flat)) \in Nat
    BY <1>3, ChunkBounds, FS_Subset, FS_CardinalityType
<1>5. \A i \in Chunk!Pairs : flat[i] \in ChunkSet /\ flat[i] \in Range(flat)
    BY <1>1, LenProperties DEF Range
<1>6. \A i \in Chunk!Pairs : flat[i] \in Int
    BY <1>5, ChunkBounds
<1>7. Range(flat) \in SUBSET Int /\ Chunk!Pairs \in SUBSET Int
    <2>1. Chunk!Pairs \in SUBSET Int
        BY <1>1
    <2>2. ChunkSet \in SUBSET Int
        BY ChunkBounds
    <2> QED BY <1>3, <2>1, <2>2
<1> QED BY <1>1, <1>2, <1>3, <1>4, <1>5, <1>6, <1>7

\* How many pairs an expert has, and how many are before those of an id.
LEMMA CountsType ==
    ASSUME flat \in Seq(ChunkSet), NEW e
    PROVE  /\ Chunk!Count(e) = Cardinality({i \in Chunk!Pairs : flat[i] = e})
           /\ Chunk!Before(e) = Cardinality({i \in Chunk!Pairs : flat[i] < e})
           /\ IsFiniteSet({i \in Chunk!Pairs : flat[i] = e}) /\ IsFiniteSet({i \in Chunk!Pairs : flat[i] < e})
           /\ Chunk!Count(e) \in Nat /\ Chunk!Before(e) \in Nat /\ Chunk!Before(e) <= Len(flat)
           /\ e \notin Range(flat) => Chunk!Count(e) = 0
<1> DEFINE E == {i \in Chunk!Pairs : flat[i] = e}
           B == {i \in Chunk!Pairs : flat[i] < e}
<1>1. Chunk!Count(e) = Cardinality(E) /\ Chunk!Before(e) = Cardinality(B)
    BY ChunkOperators DEF Chunk!Count, Chunk!Before
<1>2. IsFiniteSet(Chunk!Pairs) /\ Cardinality(Chunk!Pairs) = Len(flat)
    BY RoutedFinite
<1>3. /\ IsFiniteSet(E) /\ IsFiniteSet(B) /\ Cardinality(E) \in Nat /\ Cardinality(B) \in Nat
      /\ Cardinality(B) <= Len(flat)
    BY <1>2, FS_Subset, FS_CardinalityType
<1>4. ASSUME e \notin Range(flat) PROVE Cardinality(E) = 0
    <2>1. E = {}
        BY <1>4, RoutedFinite
    <2> QED BY <2>1, FS_EmptySet
<1> QED BY <1>1, <1>3, <1>4

\* The experts routed, by id, as they come and by their counts.
SortOf(s) ==
    /\ s \in Seq(ChunkSet) /\ IsInjective(s) /\ Range(s) = Range(flat)
    /\ Len(s) = Cardinality(Range(flat)) /\ \A i \in 1 .. Len(s) : s[i] \in Range(flat)

LEMMA SortedExperts ==
    ASSUME flat \in Seq(ChunkSet)
    PROVE  /\ SortOf(Chunk!Uniq) /\ SortOf(Chunk!Routed) /\ SortOf(Chunk!ByCount)
           /\ \A i, j \in 1 .. Cardinality(Range(flat)) : i < j =>
                  /\ Chunk!Uniq[i] < Chunk!Uniq[j]
                  /\ Chunk!Count(Chunk!ByCount[i]) <= Chunk!Count(Chunk!ByCount[j])
<1> DEFINE S == Range(flat)
<1>1. S \in SUBSET Int /\ S \in SUBSET ChunkSet /\ IsFiniteSet(S)
    BY RoutedFinite
<1>2. ASSUME NEW number \in [S -> Int], NEW s, s = Chunk!Argsorted(number)
      PROVE  /\ SortOf(s)
             /\ \A i, j \in 1 .. Cardinality(S) : i < j => Chunk!Precedes(number, s[i], s[j])
    <2> HIDE DEF S
    <2>1. /\ s \in Seq(S) /\ Len(s) = Cardinality(S) /\ IsInjective(s) /\ Range(s) = S
          /\ \A i, j \in 1 .. Len(s) : i < j => Chunk!Precedes(number, s[i], s[j])
        BY <1>1, <1>2, ArgsortedProperties
    <2>2. s \in Seq(ChunkSet) /\ \A i \in 1 .. Len(s) : s[i] \in S
        BY <1>1, <2>1, LenProperties
    <2> QED BY <2>1, <2>2 DEF SortOf, S
<1>3. /\ SortOf(Chunk!Uniq)
      /\ \A i, j \in 1 .. Cardinality(S) : i < j => Chunk!Uniq[i] < Chunk!Uniq[j]
    <2> DEFINE ids == [e \in S |-> e]
    <2>1. ids \in [S -> Int] /\ Chunk!Uniq = Chunk!Argsorted(ids)
        BY <1>1, ChunkOperators DEF Chunk!Uniq
    <2>2. SortOf(Chunk!Uniq)
        <3> HIDE DEF ids, S
        <3> QED BY <1>2, <2>1
    <2>3. \A i, j \in 1 .. Cardinality(S) : i < j => Chunk!Precedes(ids, Chunk!Uniq[i], Chunk!Uniq[j])
        <3> HIDE DEF ids, S
        <3> QED BY <1>2, <2>1
    <2>4. \A i \in 1 .. Cardinality(S) : Chunk!Uniq[i] \in S
        BY <2>2 DEF SortOf
    <2> HIDE DEF S
    <2> QED BY <1>1, <2>2, <2>3, <2>4 DEF Chunk!Precedes
<1>4. SortOf(Chunk!Routed)
    <2> DEFINE first == [e \in S |-> Chunk!Min({i \in Chunk!Pairs : flat[i] = e})]
    <2>1. Chunk!Routed = Chunk!Argsorted(first)
        BY ChunkOperators DEF Chunk!Routed
    <2>2. ASSUME NEW e \in S PROVE Chunk!Min({i \in Chunk!Pairs : flat[i] = e}) \in Int
        <3> DEFINE E == {i \in Chunk!Pairs : flat[i] = e}
        <3>1. E \in SUBSET Nat /\ E # {}
            BY RoutedFinite, LenProperties DEF Range
        <3>2. \E m \in E : \A j \in E : m <= j
            BY <3>1, LeastNatural
        <3> HIDE DEF E
        <3>3. Chunk!Min(E) \in E
            BY <3>2 DEF Chunk!Min
        <3> QED BY <3>1, <3>3 DEF E
    <2>3. first \in [S -> Int]
        BY <2>2
    <2> HIDE DEF first, S
    <2> QED BY <1>2, <2>1, <2>3
<1>5. /\ SortOf(Chunk!ByCount)
      /\ \A i, j \in 1 .. Cardinality(S) : i < j =>
            Chunk!Count(Chunk!ByCount[i]) <= Chunk!Count(Chunk!ByCount[j])
    <2> DEFINE counts == [e \in S |-> Chunk!Count(e)]
    <2>1. Chunk!ByCount = Chunk!Argsorted(counts)
        BY ChunkOperators DEF Chunk!ByCount
    <2>2. counts \in [S -> Int] /\ \A e \in S : counts[e] = Chunk!Count(e) /\ counts[e] \in Nat
        <3>1. \A e \in S : Chunk!Count(e) \in Nat
            BY CountsType
        <3> HIDE DEF S
        <3> QED BY <3>1
    <2>3. SortOf(Chunk!ByCount)
        <3> HIDE DEF counts, S
        <3> QED BY <1>2, <2>1, <2>2
    <2>4. \A i, j \in 1 .. Cardinality(S) : i < j => Chunk!Precedes(counts, Chunk!ByCount[i], Chunk!ByCount[j])
        <3> HIDE DEF counts, S
        <3> QED BY <1>2, <2>1, <2>2
    <2>5. \A i \in 1 .. Cardinality(S) : Chunk!ByCount[i] \in S
        BY <2>3 DEF SortOf
    <2> HIDE DEF counts, S
    <2> QED BY <2>2, <2>3, <2>4, <2>5 DEF Chunk!Precedes
<1> QED BY <1>3, <1>4, <1>5

\* The pairs in the order of their experts: those of the experts below an id
\* come first.
LEMMA OrderOfPairs ==
    ASSUME flat \in Seq(ChunkSet)
    PROVE  /\ Chunk!Order \in Seq(Chunk!Pairs) /\ Len(Chunk!Order) = Len(flat)
           /\ DOMAIN Chunk!Order = 1 .. Len(flat)
           /\ IsInjective(Chunk!Order) /\ Range(Chunk!Order) = Chunk!Pairs
           /\ \A i \in 1 .. Len(flat), c \in Int : flat[Chunk!Order[i]] < c <=> i <= Chunk!Before(c)
<1> DEFINE D == Chunk!Pairs
           s == Chunk!Order
<1>1. D \in SUBSET Int /\ IsFiniteSet(D) /\ Cardinality(D) = Len(flat) /\ Len(flat) \in Nat
    BY RoutedFinite
<1>2. flat \in [D -> Int]
    <2>1. flat = [i \in D |-> flat[i]]
        BY DEF Chunk!Pairs
    <2> QED BY <2>1, RoutedFinite
<1>3. /\ s \in Seq(D) /\ Len(s) = Len(flat) /\ IsInjective(s) /\ Range(s) = D
      /\ \A i \in 1 .. Len(flat) : Cardinality({a \in D : Chunk!Precedes(flat, a, s[i])}) = i - 1
    <2>1. s = Chunk!Argsorted(flat)
        BY DEF Chunk!Order
    <2> HIDE DEF s, D
    <2>2. /\ s \in Seq(D) /\ Len(s) = Cardinality(D) /\ IsInjective(s) /\ Range(s) = D
          /\ \A i \in 1 .. Len(s) : Cardinality({a \in D : Chunk!Precedes(flat, a, s[i])}) = i - 1
        BY <1>1, <1>2, <2>1, ArgsortedProperties
    <2> QED BY <1>1, <2>2
<1>4. ASSUME NEW i \in 1 .. Len(flat), NEW c \in Int
      PROVE  flat[s[i]] < c <=> i <= Chunk!Before(c)
    <2> DEFINE x == s[i]
               below == {a \in D : Chunk!Precedes(flat, a, x)}
               L == {p \in D : flat[p] < c}
    <2>1. x \in D /\ Cardinality(below) = i - 1
        BY <1>3, LenProperties
    <2>2. Chunk!Before(c) = Cardinality(L) /\ Cardinality(L) \in Nat /\ IsFiniteSet(L)
        BY CountsType
    <2>3. IsFiniteSet(below) /\ \A p \in D : flat[p] \in Int /\ p \in Int
        BY <1>1, <1>2, FS_Subset
    <2> HIDE DEF x, D
    <2>4. CASE flat[x] < c
        <3> DEFINE T == below \cup {x}
        <3>1. x \notin below
            BY <2>1, <2>3 DEF Chunk!Precedes
        <3>2. T \in SUBSET L
            BY <2>1, <2>3, <2>4 DEF Chunk!Precedes
        <3> HIDE DEF below, L
        <3>3. Cardinality(T) = (i - 1) + 1
            BY <2>1, <2>3, <3>1, FS_AddElement
        <3>4. Cardinality(T) <= Cardinality(L)
            BY <2>2, <3>2, FS_Subset
        <3> QED BY <2>2, <2>4, <3>3, <3>4 DEF x
    <2>5. CASE ~(flat[x] < c)
        <3>1. L \in SUBSET below
            BY <2>1, <2>3, <2>5 DEF Chunk!Precedes
        <3> HIDE DEF below, L
        <3>2. Cardinality(L) <= i - 1
            BY <2>1, <2>3, <3>1, FS_Subset
        <3> QED BY <2>2, <2>5, <3>2 DEF x
    <2> QED BY <2>4, <2>5
<1> QED BY <1>3, <1>4, LenProperties

\* The experts before the m-th batch boundary, their pairs, and the pairs'
\* results in the order of their experts.
Routes == Cardinality(Range(flat))
Upto(m) == Cardinality({p \in Chunk!Pairs : \E j \in 1 .. m : flat[p] = Chunk!Uniq[j]})
Taken(i) == IF i * ChunkBatch <= Routes THEN i * ChunkBatch ELSE Routes
Grouped == [i \in 1 .. Len(flat) |-> <<Chunk!RowOf(Chunk!Order[i]), flat[Chunk!Order[i]]>>]

\* Those of an expert and of the ones before it end at a boundary.
LEMMA UptoBounds ==
    ASSUME flat \in Seq(ChunkSet), NEW m \in 0 .. Routes
    PROVE  /\ Upto(m) \in 0 .. Len(flat) /\ (m = 0 => Upto(m) = 0) /\ (m = Routes => Upto(m) = Len(flat))
           /\ m < Routes => Chunk!Before(Chunk!Uniq[m + 1]) = Upto(m)
           /\ m > 0 => Chunk!Before(Chunk!Uniq[m]) + Chunk!Count(Chunk!Uniq[m]) = Upto(m)
           /\ \A i \in 1 .. Len(flat) :
                 (\E j \in 1 .. m : flat[Chunk!Order[i]] = Chunk!Uniq[j]) <=> i <= Upto(m)
<1> DEFINE U == Chunk!Uniq
           D == Chunk!Pairs
           C(n) == {p \in D : \E j \in 1 .. n : flat[p] = U[j]}
<1>1. /\ U \in Seq(ChunkSet) /\ Range(U) = Range(flat) /\ Len(U) = Routes /\ Routes \in Nat
      /\ \A i \in 1 .. Routes : U[i] \in Range(flat)
      /\ \A i, j \in 1 .. Routes : i < j => U[i] < U[j]
    BY SortedExperts, RoutedFinite DEF SortOf, Routes
<1>2. /\ IsFiniteSet(D) /\ Cardinality(D) = Len(flat) /\ Len(flat) \in Nat /\ Range(flat) \in SUBSET Int
      /\ \A p \in D : flat[p] \in Range(flat) /\ flat[p] \in Int
    BY RoutedFinite
<1>3. \A i \in 1 .. Routes : U[i] \in Int
    BY <1>1, <1>2
<1>4. \A p \in D : \E k \in 1 .. Routes : flat[p] = U[k]
    <2> SUFFICES ASSUME NEW p \in D PROVE \E k \in 1 .. Routes : flat[p] = U[k]
        OBVIOUS
    <2>1. flat[p] \in Range(U) /\ DOMAIN U = 1 .. Routes
        BY <1>1, <1>2, LenProperties
    <2> QED BY <2>1 DEF Range
<1>5. IsFiniteSet(C(m)) /\ Upto(m) = Cardinality(C(m)) /\ Upto(m) \in 0 .. Len(flat)
    <2>1. C(m) \in SUBSET D
        OBVIOUS
    <2>2. Upto(m) = Cardinality(C(m))
        BY DEF Upto
    <2> HIDE DEF C
    <2> QED BY <1>2, <2>1, <2>2, FS_Subset, FS_CardinalityType
<1>6. m = 0 => Upto(m) = 0
    <2>1. m = 0 => C(m) = {}
        OBVIOUS
    <2> QED BY <1>5, <2>1, FS_EmptySet
<1>7. m = Routes => Upto(m) = Len(flat)
    <2>1. m = Routes => C(m) = D
        BY <1>4
    <2> QED BY <1>2, <1>5, <2>1
<1>8. m < Routes => Chunk!Before(U[m + 1]) = Upto(m)
    <2> SUFFICES ASSUME m < Routes PROVE Chunk!Before(U[m + 1]) = Upto(m)
        OBVIOUS
    <2> DEFINE L == {p \in D : flat[p] < U[m + 1]}
    <2>1. m + 1 \in 1 .. Routes
        BY <1>1
    <2>2. ASSUME NEW k \in 1 .. Routes PROVE U[k] < U[m + 1] <=> k \in 1 .. m
        <3>1. k < m + 1 \/ k = m + 1 \/ m + 1 < k
            BY <1>1
        <3>2. U[k] \in Int /\ U[m + 1] \in Int
            BY <1>3, <2>1
        <3> QED BY <1>1, <2>1, <3>1, <3>2
    <2>3. \A k \in 1 .. Routes, j \in 1 .. m : U[k] = U[j] => k \in 1 .. m
        <3> SUFFICES ASSUME NEW k \in 1 .. Routes, NEW j \in 1 .. m, U[k] = U[j] PROVE k \in 1 .. m
            OBVIOUS
        <3>1. j \in 1 .. Routes
            BY <1>1
        <3>2. U[j] < U[m + 1]
            BY <2>2, <3>1
        <3> QED BY <2>2, <3>2
    <2>4. L = C(m)
        <3> SUFFICES ASSUME NEW p \in D PROVE flat[p] < U[m + 1] <=> \E j \in 1 .. m : flat[p] = U[j]
            OBVIOUS
        <3>1. PICK k \in 1 .. Routes : flat[p] = U[k]
            BY <1>4
        <3> HIDE DEF U, D
        <3> QED BY <2>2, <2>3, <3>1
    <2>5. Chunk!Before(U[m + 1]) = Cardinality(L)
        BY CountsType
    <2> QED BY <1>5, <2>4, <2>5
<1>9. m > 0 => Chunk!Before(U[m]) + Chunk!Count(U[m]) = Upto(m)
    <2> SUFFICES ASSUME m > 0 PROVE Chunk!Before(U[m]) + Chunk!Count(U[m]) = Upto(m)
        OBVIOUS
    <2> DEFINE L == {p \in D : flat[p] < U[m]}
               E == {p \in D : flat[p] = U[m]}
    <2>1. m \in 1 .. Routes
        BY <1>1
    <2>2. ASSUME NEW k \in 1 .. Routes PROVE U[k] < U[m] \/ U[k] = U[m] <=> k \in 1 .. m
        <3>1. k < m \/ k = m \/ m < k
            BY <1>1
        <3>2. U[k] \in Int /\ U[m] \in Int
            BY <1>3, <2>1
        <3> QED BY <1>1, <2>1, <3>1, <3>2
    <2>3. \A k \in 1 .. Routes, j \in 1 .. m : U[k] = U[j] => k \in 1 .. m
        <3> SUFFICES ASSUME NEW k \in 1 .. Routes, NEW j \in 1 .. m, U[k] = U[j] PROVE k \in 1 .. m
            OBVIOUS
        <3>1. j \in 1 .. Routes
            BY <1>1
        <3>2. U[j] < U[m] \/ U[j] = U[m]
            BY <2>2, <3>1
        <3> QED BY <2>2, <3>2
    <2>4. L \cup E = C(m)
        <3> SUFFICES ASSUME NEW p \in D
                     PROVE  (flat[p] < U[m] \/ flat[p] = U[m]) <=> \E j \in 1 .. m : flat[p] = U[j]
            OBVIOUS
        <3>1. PICK k \in 1 .. Routes : flat[p] = U[k]
            BY <1>4
        <3> HIDE DEF U, D
        <3> QED BY <2>2, <2>3, <3>1
    <2>5. L \cap E = {}
        BY <1>2, <1>3, <2>1
    <2>6. /\ Chunk!Before(U[m]) = Cardinality(L) /\ Chunk!Count(U[m]) = Cardinality(E)
          /\ IsFiniteSet(L) /\ IsFiniteSet(E) /\ Cardinality(L) \in Nat /\ Cardinality(E) \in Nat
        BY CountsType
    <2> HIDE DEF L, E, C
    <2>7. Cardinality(L \cup E) = Cardinality(L) + Cardinality(E) - Cardinality(L \cap E)
        BY <2>6, FS_Union
    <2>8. Cardinality(L \cap E) = 0
        BY <2>5, FS_EmptySet
    <2>9. Cardinality(L \cup E) = Cardinality(L) + Cardinality(E)
        BY <2>6, <2>7, <2>8
    <2> QED BY <1>5, <2>4, <2>6, <2>9
<1>10. ASSUME NEW i \in 1 .. Len(flat)
       PROVE  (\E j \in 1 .. m : flat[Chunk!Order[i]] = U[j]) <=> i <= Upto(m)
    <2>1. Chunk!Order[i] \in D
        BY OrderOfPairs, LenProperties
    <2>2. CASE m = Routes
        BY <1>4, <1>7, <2>1, <2>2
    <2>3. CASE m < Routes
        <3>1. U[m + 1] \in Int
            BY <1>1, <1>3, <2>3
        <3>2. flat[Chunk!Order[i]] < U[m + 1] <=> i <= Upto(m)
            BY <1>8, <2>3, <3>1, OrderOfPairs
        <3>3. flat[Chunk!Order[i]] < U[m + 1] <=> Chunk!Order[i] \in {p \in D : flat[p] < U[m + 1]}
            BY <2>1
        <3>4. \A k \in 1 .. Routes : U[k] < U[m + 1] <=> k \in 1 .. m
            <4> SUFFICES ASSUME NEW k \in 1 .. Routes PROVE U[k] < U[m + 1] <=> k \in 1 .. m
                OBVIOUS
            <4>1. k < m + 1 \/ k = m + 1 \/ m + 1 < k
                BY <1>1
            <4>2. U[k] \in Int /\ U[m + 1] \in Int /\ m + 1 \in 1 .. Routes
                BY <1>1, <1>3, <2>3
            <4> QED BY <1>1, <4>1, <4>2
        <3>5. PICK k \in 1 .. Routes : flat[Chunk!Order[i]] = U[k]
            BY <1>4, <2>1
        <3>6. \A j \in 1 .. m : j \in 1 .. Routes
            BY <1>1
        <3> HIDE DEF U
        <3> QED BY <3>2, <3>4, <3>5, <3>6
    <2> QED BY <1>1, <2>2, <2>3
<1> QED BY <1>5, <1>6, <1>7, <1>8, <1>9, <1>10

\* A quotient reaches a bound where the number reaches its multiple.
LEMMA DivBound ==
    ASSUME NEW a \in Nat, NEW n \in Nat \ {0}, NEW p \in Nat
    PROVE  a \div n \in Nat /\ (a \div n >= p <=> a >= p * n)
<1>1. /\ a \div n \in Nat /\ a % n \in 0 .. n - 1 /\ a = (a \div n) * n + (a % n)
    OBVIOUS
<1> QED BY <1>1

\* A batch as a part of the ids, by its two bounds.
LEMMA BatchSlice ==
    ASSUME NEW i, NEW x, x = (i - 1) * ChunkBatch + 1, NEW y, y = Chunk!Min({i * ChunkBatch, Len(Chunk!Uniq)})
    PROVE  Chunk!Batch(i) = SubSeq(Chunk!Uniq, x, y)
BY DEF Chunk!Batch

\* The experts of a batch: the next ones in the order of their ids.
LEMMA BatchIs ==
    ASSUME flat \in Seq(ChunkSet), bi \in Nat
    PROVE  /\ Taken(bi) \in 0 .. Routes /\ Taken(0) = 0
           /\ bi < Chunk!NBatches =>
                  /\ Taken(bi + 1) \in Taken(bi) + 1 .. Routes
                  /\ Chunk!Batch(bi + 1) = SubSeq(Chunk!Uniq, Taken(bi) + 1, Taken(bi + 1))
           /\ ~(bi < Chunk!NBatches) => Taken(bi) = Routes
<1>1. Len(Chunk!Uniq) = Routes /\ Routes \in Nat /\ ChunkBatch \in Nat \ {0}
    BY SortedExperts, RoutedFinite, ChunkBounds DEF SortOf, Routes
<1> DEFINE a == bi * ChunkBatch
<1>2. a \in Nat /\ (bi + 1) * ChunkBatch = a + ChunkBatch /\ 0 * ChunkBatch = 0 /\ bi + 1 \in Nat
    BY <1>1
<1>3. bi < Chunk!NBatches <=> a < Routes
    <2> DEFINE r == Routes + ChunkBatch - 1
    <2>1. Chunk!NBatches = r \div ChunkBatch
        BY <1>1 DEF Chunk!NBatches
    <2>2. r \in Nat
        BY <1>1
    <2> HIDE DEF r
    <2>3. r \div ChunkBatch \in Nat /\ (r \div ChunkBatch >= bi + 1 <=> r >= (bi + 1) * ChunkBatch)
        BY <1>1, <1>2, <2>2, DivBound
    <2>4. bi < Chunk!NBatches <=> r >= a + ChunkBatch
        BY <1>2, <2>1, <2>3
    <2> QED BY <1>1, <1>2, <2>4 DEF r
<1> HIDE DEF a
<1>4. Taken(bi) = (IF a <= Routes THEN a ELSE Routes) /\ Taken(0) = 0
    BY <1>1, <1>2 DEF Taken, a
<1>5. Taken(bi + 1) = IF a + ChunkBatch <= Routes THEN a + ChunkBatch ELSE Routes
    BY <1>2 DEF Taken
<1>6. ASSUME a < Routes
      PROVE  Chunk!Batch(bi + 1) = SubSeq(Chunk!Uniq, Taken(bi) + 1, Taken(bi + 1))
    <2>1. /\ (bi + 1 - 1) * ChunkBatch = a
          /\ Chunk!Min({(bi + 1) * ChunkBatch, Len(Chunk!Uniq)}) = Taken(bi + 1)
        <3>1. \A x, y \in Nat : Chunk!Min({x, y}) = IF x <= y THEN x ELSE y
            BY DEF Chunk!Min
        <3>2. bi + 1 - 1 = bi
            OBVIOUS
        <3> QED BY <1>1, <1>2, <1>5, <3>1, <3>2 DEF a
    <2>2. Taken(bi) = a
        BY <1>1, <1>2, <1>4, <1>6
    <2> DEFINE lo == Taken(bi) + 1
               hi == Taken(bi + 1)
    <2>3. lo = ((bi + 1) - 1) * ChunkBatch + 1 /\ hi = Chunk!Min({(bi + 1) * ChunkBatch, Len(Chunk!Uniq)})
        BY <2>1, <2>2
    <2> HIDE DEF lo, hi
    <2>4. Chunk!Batch(bi + 1) = SubSeq(Chunk!Uniq, lo, hi)
        BY <2>3, BatchSlice
    <2> QED BY <2>4 DEF lo, hi
<1> QED BY <1>1, <1>2, <1>3, <1>4, <1>5, <1>6

\* A batch's pairs: those of its experts, between the boundaries.
BatchIds == Chunk!Batch(bi + 1)
BatchSel == SubSeq(Chunk!Order, Chunk!Before(Head(BatchIds)) + 1, Chunk!LastBound(BatchIds))

LEMMA BatchPairs ==
    ASSUME flat \in Seq(ChunkSet), bi \in Nat, bi < Chunk!NBatches
    PROVE  LET a == Taken(bi)
               b == Taken(bi + 1)
           IN  /\ a \in 0 .. Routes /\ b \in a + 1 .. Routes
               /\ BatchIds \in Seq(ChunkSet) /\ Len(BatchIds) = b - a /\ Len(BatchIds) \in Nat \ {0}
               /\ DOMAIN BatchIds = 1 .. b - a
               /\ \A j \in 1 .. b - a : BatchIds[j] = Chunk!Uniq[a + j]
               /\ Upto(a) \in Nat /\ Upto(b) \in Upto(a) .. Len(flat)
               /\ BatchSel \in Seq(Chunk!Pairs) /\ Len(BatchSel) = Upto(b) - Upto(a)
               /\ DOMAIN BatchSel = 1 .. Upto(b) - Upto(a)
               /\ \A i \in 1 .. Upto(b) - Upto(a) :
                     /\ BatchSel[i] = Chunk!Order[Upto(a) + i]
                     /\ \E j \in DOMAIN BatchIds : BatchIds[j] = flat[BatchSel[i]]
<1> DEFINE U == Chunk!Uniq
           O == Chunk!Order
           a == Taken(bi)
           b == Taken(bi + 1)
           ids == BatchIds
           sel == BatchSel
<1>1. Routes \in Nat /\ a \in 0 .. Routes /\ b \in a + 1 .. Routes /\ ids = SubSeq(U, a + 1, b)
    <2>1. Routes \in Nat
        BY RoutedFinite DEF Routes
    <2> QED BY <2>1, BatchIs DEF BatchIds
<1>2. U \in Seq(ChunkSet) /\ Len(U) = Routes
    BY SortedExperts DEF SortOf, Routes
<1> HIDE DEF a, b, ids, sel, U, O
<1>3. /\ ids \in Seq(ChunkSet) /\ Len(ids) = b - a /\ DOMAIN ids = 1 .. b - a
      /\ \A j \in 1 .. b - a : ids[j] = U[a + j]
    <2>1. a \in Nat /\ b \in a .. Len(U)
        BY <1>1, <1>2
    <2> QED BY <1>1, <1>2, <2>1, BetweenBounds, SMTT(40)
<1>4. Head(ids) = U[a + 1] /\ ids[Len(ids)] = U[b]
    <2>1. a \in Nat /\ b \in a .. Len(U) /\ a < b
        BY <1>1, <1>2
    <2> QED BY <1>1, <1>2, <2>1, BetweenBounds, SMTT(40)
<1>5. /\ Chunk!Before(Head(ids)) = Upto(a) /\ Chunk!LastBound(ids) = Upto(b)
      /\ Upto(a) \in 0 .. Len(flat) /\ Upto(b) \in 0 .. Len(flat)
    <2>1. a < Routes /\ b > 0 /\ b \in 0 .. Routes
        BY <1>1
    <2>2. Upto(a) \in 0 .. Len(flat) /\ Chunk!Before(U[a + 1]) = Upto(a)
        BY <1>1, <2>1, UptoBounds DEF U
    <2>3. Upto(b) \in 0 .. Len(flat) /\ Chunk!Before(U[b]) + Chunk!Count(U[b]) = Upto(b)
        BY <2>1, UptoBounds DEF U
    <2> QED BY <1>4, <2>2, <2>3 DEF Chunk!LastBound
<1>6. Upto(a) <= Upto(b)
    <2> DEFINE C(n) == {p \in Chunk!Pairs : \E j \in 1 .. n : flat[p] = U[j]}
    <2>1. C(a) \in SUBSET C(b)
        <3>1. \A j \in 1 .. a : j \in 1 .. b
            BY <1>1
        <3> QED BY <3>1
    <2>2. IsFiniteSet(C(b))
        BY RoutedFinite, FS_Subset
    <2>3. Upto(a) = Cardinality(C(a)) /\ Upto(b) = Cardinality(C(b))
        BY DEF Upto, U
    <2> HIDE DEF C
    <2> QED BY <2>1, <2>2, <2>3, FS_Subset
<1>7. O \in Seq(Chunk!Pairs) /\ Len(O) = Len(flat) /\ Len(flat) \in Nat
    BY OrderOfPairs, RoutedFinite DEF O
<1> DEFINE lo == Upto(a)
           hi == Upto(b)
<1>8. lo \in Nat /\ hi \in lo .. Len(flat)
    BY <1>5, <1>6, <1>7
<1>9. sel = SubSeq(O, lo + 1, hi)
    BY <1>5 DEF sel, ids, O, BatchSel
<1> HIDE DEF lo, hi
<1>10. /\ sel \in Seq(Chunk!Pairs) /\ Len(sel) = hi - lo /\ DOMAIN sel = 1 .. hi - lo
       /\ \A i \in 1 .. hi - lo : sel[i] = O[lo + i]
    BY <1>7, <1>8, <1>9, BetweenBounds
<1>11. ASSUME NEW i \in 1 .. hi - lo PROVE \E j \in DOMAIN ids : ids[j] = flat[sel[i]]
    <2>1. lo + i \in 1 .. Len(flat) /\ ~(lo + i <= lo) /\ lo + i <= hi
        BY <1>7, <1>8
    <2>2. (\E j \in 1 .. a : flat[O[lo + i]] = U[j]) <=> lo + i <= lo
        BY <1>1, <2>1, UptoBounds DEF lo, U, O
    <2>3. (\E j \in 1 .. b : flat[O[lo + i]] = U[j]) <=> lo + i <= hi
        <3>1. b \in 0 .. Routes
            BY <1>1
        <3> QED BY <2>1, <3>1, UptoBounds DEF hi, U, O
    <2>4. PICK j \in 1 .. b : flat[O[lo + i]] = U[j] /\ j \notin 1 .. a
        BY <2>1, <2>2, <2>3
    <2>5. j - a \in 1 .. b - a /\ a + (j - a) = j
        BY <1>1, <2>4
    <2>6. ids[j - a] = U[j]
        BY <1>3, <2>5
    <2> QED BY <1>3, <1>10, <2>4, <2>5, <2>6
<1>12. b - a \in Nat \ {0}
    BY <1>1
<1> QED BY <1>1, <1>3, <1>8, <1>10, <1>11, <1>12 DEF lo, hi, U, O, a, b, ids, sel

\* The kernel of a batch padded so far is the sorted one, and so is that of a
\* chunk the stock module sorts.
LEMMA PadReaches ==
    ASSUME NEW rows \in Nat, NEW ids, Len(ids) \in Nat \ {0}
    PROVE  Chunk!Gathered(rows + Chunk!Pad(rows, ids), Len(ids)) = "sorted"
<1> DEFINE n == Len(ids)
           want == Chunk!Max({KernelMin, PerExpert * n})
           all == rows + Chunk!Pad(rows, ids)
<1>1. \A x, y \in Int : Chunk!Max({x, y}) = IF x >= y THEN x ELSE y
    BY DEF Chunk!Max
<1>2. KernelMin \in Nat \ {0} /\ PerExpert \in Nat \ {0} /\ n \in Nat \ {0}
    BY ChunkBounds
<1>3. PerExpert * n \in Nat
    BY <1>2
<1>4. want \in Nat /\ want >= KernelMin /\ want >= PerExpert * n
    BY <1>1, <1>2, <1>3
<1>5. Chunk!Pad(rows, ids) = Chunk!Max({0, want - rows})
    BY DEF Chunk!Pad
<1> HIDE DEF want
<1>6. all \in Nat /\ all >= want
    <2>1. want - rows \in Int
        BY <1>4
    <2>2. Chunk!Max({0, want - rows}) = IF 0 >= want - rows THEN 0 ELSE want - rows
        BY <1>1, <2>1
    <2> QED BY <1>4, <1>5, <2>2
<1> HIDE DEF all, n
<1>7. all >= KernelMin /\ all >= PerExpert * n
    BY <1>2, <1>3, <1>4, <1>6
<1>8. all \div n >= PerExpert
    BY <1>2, <1>6, <1>7, DivBound
<1>9. Chunk!Gathered(all, n) = "sorted"
    BY <1>7, <1>8 DEF Chunk!Gathered
<1> QED BY <1>9 DEF all, n

LEMMA StockReaches ==
    ASSUME flat \in Seq(ChunkSet), Chunk!StockSorted
    PROVE  Chunk!Gathered(Len(flat), ChunkSlots) = "sorted"
<1> DEFINE n == Len(flat)
<1>1. /\ n \in Nat /\ ChunkExperts \in Nat \ {0} /\ ChunkSlots \in Nat \ {0} /\ ChunkSlots <= ChunkExperts
      /\ PerExpert \in Nat \ {0} /\ KernelMin \in Nat /\ StockMin \in Nat /\ KernelMin <= StockMin
    BY ChunkBounds, RoutedFinite
<1>2. n >= StockMin /\ n \div ChunkExperts >= PerExpert
    BY DEF Chunk!StockSorted
<1> HIDE DEF n
<1>3. n >= PerExpert * ChunkExperts
    BY <1>1, <1>2, DivBound
<1>4. PerExpert * ChunkSlots <= PerExpert * ChunkExperts /\ PerExpert * ChunkSlots \in Nat /\ PerExpert * ChunkExperts \in Nat
    BY <1>1
<1>5. n >= PerExpert * ChunkSlots
    BY <1>1, <1>3, <1>4
<1>6. n \div ChunkSlots >= PerExpert
    BY <1>1, <1>5, DivBound
<1> QED BY <1>1, <1>2, <1>6 DEF Chunk!Gathered, n

\* Results in the order of a permutation of the pairs, put back.
InPlace == [i \in Chunk!Pairs |-> <<Chunk!RowOf(i), flat[i]>>]

LEMMA PutBackIs ==
    ASSUME NEW order, DOMAIN order = Chunk!Pairs, Range(order) = Chunk!Pairs, IsInjective(order), NEW results,
           \A i \in Chunk!Pairs : results[i] = <<Chunk!RowOf(order[i]), flat[order[i]]>>
    PROVE  Chunk!PutBack(order, results) = InPlace
<1>1. ASSUME NEW p \in Chunk!Pairs
      PROVE  results[CHOOSE i \in DOMAIN order : order[i] = p] = <<Chunk!RowOf(p), flat[p]>>
    <2>1. \E i \in DOMAIN order : order[i] = p
        BY DEF Range
    <2>2. PICK i \in DOMAIN order : i = (CHOOSE k \in DOMAIN order : order[k] = p) /\ order[i] = p
        BY <2>1
    <2> QED BY <2>2
<1> QED BY <1>1 DEF Chunk!PutBack, InPlace

\* The experts a sweep keeps: those with the most pairs.
LEMMA WarmOnes ==
    ASSUME flat \in Seq(ChunkSet), Routes > ChunkSlots
    PROVE  /\ LastOf(Chunk!ByCount, ChunkSlots) \in Seq(ChunkSet)
           /\ IsInjective(LastOf(Chunk!ByCount, ChunkSlots))
           /\ Len(LastOf(Chunk!ByCount, ChunkSlots)) = ChunkSlots
           /\ Chunk!Warm = Range(LastOf(Chunk!ByCount, ChunkSlots))
           /\ IsFiniteSet(Chunk!Warm) /\ Cardinality(Chunk!Warm) = ChunkSlots
           /\ Chunk!Warm \in SUBSET Range(flat) /\ Chunk!Warm \in SUBSET ChunkSet
           /\ Only(Chunk!ByCount, Chunk!Warm) = LastOf(Chunk!ByCount, ChunkSlots)
           /\ \A i \in 1 .. ChunkSlots :
                  LastOf(Chunk!ByCount, ChunkSlots)[i] = Chunk!ByCount[Routes - ChunkSlots + i]
<1> DEFINE B == Chunk!ByCount
           w == LastOf(B, ChunkSlots)
           W == Chunk!Warm
<1>1. /\ B \in Seq(ChunkSet) /\ IsInjective(B) /\ Len(B) = Routes /\ Range(B) = Range(flat)
      /\ Routes \in Nat /\ ChunkSlots \in Nat \ {0} /\ Range(flat) \in SUBSET ChunkSet
    BY SortedExperts, ChunkBounds, RoutedFinite DEF SortOf, Routes
<1>2. W = Range(w)
    BY ChunkOperators DEF Chunk!Warm
<1> HIDE DEF B, W
<1>3. w \in Seq(ChunkSet) /\ Len(w) <= ChunkSlots
    BY <1>1, LastOfSplit
<1>4. PICK p \in Seq(ChunkSet) : B = p \o w /\ (p = <<>> \/ Len(w) = ChunkSlots)
    BY <1>1, LastOfSplit
<1> HIDE DEF w
<1>5. Len(w) = ChunkSlots
    <2>1. CASE p = <<>>
        <3>1. B = w
            BY <1>3, <1>4, <2>1, ConcatEmptySeq
        <3> QED BY <1>1, <1>3, <3>1
    <2> QED BY <1>4, <2>1
<1>6. IsInjective(w) /\ Range(p) \cap Range(w) = {}
    BY <1>1, <1>3, <1>4, InjectiveConcat
<1>7. IsFiniteSet(W) /\ Cardinality(W) = ChunkSlots
    BY <1>2, <1>3, <1>5, <1>6, InjectiveLen
<1>8. W \in SUBSET Range(flat)
    <2>1. Range(B) = Range(p) \cup Range(w)
        BY <1>3, <1>4, RangeConcatenation
    <2> QED BY <1>1, <1>2, <2>1
<1>9. Only(B, W) = w
    <2>1. Only(p \o w, W) = Only(p, W) \o Only(w, W)
        BY <1>3, OnlyConcat
    <2>2. Only(p, W) = <<>> /\ Only(w, W) = w
        BY <1>2, <1>3, <1>6, OnlyAll
    <2>3. <<>> \o w = w
        BY <1>3, ConcatEmptySeq
    <2> QED BY <1>4, <2>1, <2>2, <2>3
<1>10. ASSUME NEW i \in 1 .. ChunkSlots PROVE w[i] = B[Routes - ChunkSlots + i]
    <2>1. /\ Len(p) \in Nat /\ Routes = Len(p) + ChunkSlots
          /\ \A j \in 1 .. Len(p) + Len(w) : B[j] = IF j <= Len(p) THEN p[j] ELSE w[j - Len(p)]
        <3>1. Len(p) \in Nat /\ Len(p \o w) = Len(p) + Len(w)
              /\ \A j \in 1 .. Len(p) + Len(w) :
                    (p \o w)[j] = IF j <= Len(p) THEN p[j] ELSE w[j - Len(p)]
            BY <1>3, ConcatProperties, LenProperties
        <3> QED BY <1>1, <1>4, <1>5, <3>1
    <2>2. /\ Routes - ChunkSlots + i \in 1 .. Len(p) + Len(w) /\ ~(Routes - ChunkSlots + i <= Len(p))
          /\ (Routes - ChunkSlots + i) - Len(p) = i
        BY <1>1, <1>5, <2>1
    <2> QED BY <2>1, <2>2
<1> QED BY <1>1, <1>2, <1>3, <1>5, <1>6, <1>7, <1>8, <1>9, <1>10 DEF w, B, W

\* The first m experts' results, and those of them that stay.
Results(m) == SubSeq(Grouped, 1, Upto(m))
Staying(m) == Only(SubSeq(Chunk!Uniq, 1, m), Chunk!Warm)

LEMMA GroupedType ==
    ASSUME flat \in Seq(ChunkSet)
    PROVE  /\ \E S : Grouped \in Seq(S)
           /\ Len(Grouped) = Len(flat) /\ DOMAIN Grouped = Chunk!Pairs
           /\ Chunk!Pairs = 1 .. Len(flat) /\ Len(flat) \in Nat
<1> DEFINE g(i) == <<Chunk!RowOf(Chunk!Order[i]), flat[Chunk!Order[i]]>>
           n == Len(flat)
           S == {g(i) : i \in 1 .. n}
<1>1. n \in Nat /\ Chunk!Pairs = 1 .. n
    BY RoutedFinite
<1>2. Grouped = [i \in 1 .. n |-> g(i)]
    BY DEF Grouped
<1> HIDE DEF g, n
<1>3. Grouped \in [1 .. n -> S]
    BY <1>2
<1> HIDE DEF S
<1>4. Grouped \in Seq(S) /\ Len(Grouped) = n
    BY <1>1, <1>3
<1> QED BY <1>1, <1>2, <1>4 DEF n

\* Before the first batch; after one more; after the last.
LEMMA ResultsSteps ==
    ASSUME flat \in Seq(ChunkSet), bi \in Nat
    PROVE  /\ Results(Taken(0)) = <<>>
           /\ bi < Chunk!NBatches =>
                 Results(Taken(bi + 1)) = Results(Taken(bi)) \o
                     [i \in DOMAIN BatchSel |-> <<Chunk!RowOf(BatchSel[i]), flat[BatchSel[i]]>>]
           /\ ~(bi < Chunk!NBatches) => Results(Taken(bi)) = Grouped
<1>1. PICK S : Grouped \in Seq(S)
    BY GroupedType
<1>2. Len(Grouped) = Len(flat) /\ Len(flat) \in Nat
    BY GroupedType
<1>3. Routes \in Nat /\ Taken(0) = 0
    BY RoutedFinite, BatchIs DEF Routes
<1>4. Results(Taken(0)) = <<>>
    <2>1. Upto(0) = 0
        BY <1>3, UptoBounds
    <2>2. SubSeq(Grouped, 1, 0) = <<>>
        BY SubSeqEmpty
    <2> QED BY <1>3, <2>1, <2>2 DEF Results
<1>5. ASSUME ~(bi < Chunk!NBatches) PROVE Results(Taken(bi)) = Grouped
    <2>1. Taken(bi) = Routes
        BY <1>5, BatchIs
    <2>2. Upto(Routes) = Len(Grouped)
        BY <1>2, <1>3, UptoBounds
    <2>3. SubSeq(Grouped, 1, Len(Grouped)) = Grouped
        BY <1>1, SubSeqFull
    <2> QED BY <2>1, <2>2, <2>3 DEF Results
<1>6. ASSUME bi < Chunk!NBatches
      PROVE  Results(Taken(bi + 1)) = Results(Taken(bi)) \o
                 [i \in DOMAIN BatchSel |-> <<Chunk!RowOf(BatchSel[i]), flat[BatchSel[i]]>>]
    <2> DEFINE lo == Upto(Taken(bi))
               hi == Upto(Taken(bi + 1))
               new == [i \in DOMAIN BatchSel |-> <<Chunk!RowOf(BatchSel[i]), flat[BatchSel[i]]>>]
    <2>1. /\ lo \in Nat /\ hi \in lo .. Len(flat) /\ DOMAIN BatchSel = 1 .. hi - lo
          /\ \A i \in 1 .. hi - lo : BatchSel[i] = Chunk!Order[lo + i]
        BY <1>6, BatchPairs
    <2>2. Results(Taken(bi + 1)) = SubSeq(Grouped, 1, hi) /\ Results(Taken(bi)) = SubSeq(Grouped, 1, lo)
        BY DEF Results
    <2> HIDE DEF lo, hi
    <2>3. \A i \in 1 .. hi - lo : Grouped[lo + i] = <<Chunk!RowOf(Chunk!Order[lo + i]), flat[Chunk!Order[lo + i]]>>
        <3>1. \A i \in 1 .. hi - lo : lo + i \in 1 .. Len(flat)
            BY <1>2, <2>1
        <3> QED BY <3>1 DEF Grouped
    <2>4. new = SubSeq(Grouped, lo + 1, hi)
        <3> DEFINE q == SubSeq(Grouped, lo + 1, hi)
        <3>1. hi \in lo .. Len(Grouped) /\ lo \in Nat
            BY <1>2, <2>1
        <3>2. /\ q \in Seq(S) /\ Len(q) = hi - lo /\ DOMAIN q = 1 .. hi - lo
              /\ \A i \in 1 .. hi - lo : q[i] = Grouped[lo + i]
            BY <1>1, <3>1, BetweenBounds
        <3> HIDE DEF q
        <3>3. \A i \in 1 .. hi - lo : q[i] = <<Chunk!RowOf(BatchSel[i]), flat[BatchSel[i]]>>
            BY <2>1, <2>3, <3>2
        <3>4. q \in [1 .. hi - lo -> S]
            BY <3>2, LenProperties
        <3>5. q = new
            BY <2>1, <3>3, <3>4
        <3> QED BY <3>5 DEF q
    <2> HIDE DEF new
    <2>5. SubSeq(Grouped, 1, lo) \o SubSeq(Grouped, lo + 1, hi) = SubSeq(Grouped, 1, hi)
        <3>1. /\ 1 \in 1 .. Len(Grouped) + 1 /\ lo \in 1 - 1 .. Len(Grouped)
              /\ hi \in lo .. Len(Grouped)
            BY <1>2, <2>1
        <3> QED BY <1>1, <3>1, ConcatAdjacentSubSeq
    <2> QED BY <2>2, <2>4, <2>5 DEF new
<1> QED BY <1>4, <1>5, <1>6

\* What stays of the batches so far: nothing at first, a batch's part more with
\* each, all that is warm in the end.
LEMMA StayingSteps ==
    ASSUME flat \in Seq(ChunkSet), Routes > ChunkSlots, bi \in Nat
    PROVE  /\ Staying(Taken(0)) = <<>>
           /\ Staying(Taken(bi)) \in Seq(ChunkSet)
           /\ bi < Chunk!NBatches =>
                 /\ Staying(Taken(bi + 1)) = Staying(Taken(bi)) \o Only(BatchIds, Chunk!Warm)
                 /\ Only(BatchIds, Chunk!Warm) \in Seq(ChunkSet)
                 /\ IsInjective(Staying(Taken(bi + 1))) /\ Len(Staying(Taken(bi + 1))) <= ChunkSlots
           /\ ~(bi < Chunk!NBatches) =>
                 Range(Staying(Taken(bi))) = Chunk!Warm /\ Len(Staying(Taken(bi))) = ChunkSlots
<1> DEFINE U == Chunk!Uniq
           W == Chunk!Warm
           a == Taken(bi)
           b == Taken(bi + 1)
<1>1. U \in Seq(ChunkSet) /\ Len(U) = Routes /\ IsInjective(U) /\ Range(U) = Range(flat) /\ Routes \in Nat
    BY SortedExperts, RoutedFinite DEF SortOf, Routes
<1>2. IsFiniteSet(W) /\ Cardinality(W) = ChunkSlots /\ W \in SUBSET Range(flat)
    BY WarmOnes
<1>3. \A m : Staying(m) = Only(SubSeq(U, 1, m), W)
    BY DEF Staying
<1>4. a \in 0 .. Routes /\ Taken(0) = 0
    BY BatchIs
<1>5. bi < Chunk!NBatches => b \in a + 1 .. Routes /\ BatchIds = SubSeq(U, a + 1, b)
    BY BatchIs DEF BatchIds
<1>6. ~(bi < Chunk!NBatches) => a = Routes
    BY BatchIs
<1> HIDE DEF U, W, a, b
<1>7. ASSUME NEW m \in 0 .. Routes
      PROVE  /\ SubSeq(U, 1, m) \in Seq(ChunkSet) /\ IsInjective(SubSeq(U, 1, m))
             /\ Only(SubSeq(U, 1, m), W) \in Seq(ChunkSet) /\ IsInjective(Only(SubSeq(U, 1, m), W))
             /\ Len(Only(SubSeq(U, 1, m), W)) <= ChunkSlots
    <2> DEFINE q == SubSeq(U, 1, m)
    <2>1. q \in Seq(ChunkSet) /\ q \o SubSeq(U, m + 1, Len(U)) = U /\ SubSeq(U, m + 1, Len(U)) \in Seq(ChunkSet)
        <3>1. /\ 1 \in 1 .. Len(U) + 1 /\ m \in 1 - 1 .. Len(U) /\ Len(U) \in m .. Len(U)
              /\ 1 \in Int /\ m \in Int /\ m + 1 \in Int /\ Len(U) \in Int
              /\ \A i \in 1 .. m : i \in 1 .. Len(U)
              /\ \A i \in m + 1 .. Len(U) : i \in 1 .. Len(U)
            BY <1>1
        <3>2. \A i \in 1 .. Len(U) : U[i] \in ChunkSet
            BY <1>1, LenProperties
        <3>3. SubSeq(U, 1, m) \o SubSeq(U, m + 1, Len(U)) = SubSeq(U, 1, Len(U))
            BY <1>1, <3>1, ConcatAdjacentSubSeq
        <3>4. SubSeq(U, 1, Len(U)) = U
            BY <1>1, SubSeqFull
        <3>5. SubSeq(U, 1, m) \in Seq(ChunkSet) /\ SubSeq(U, m + 1, Len(U)) \in Seq(ChunkSet)
            BY <3>1, <3>2, SubSeqProperties
        <3> QED BY <3>3, <3>4, <3>5
    <2> HIDE DEF q
    <2>2. IsInjective(q)
        <3> DEFINE r == SubSeq(U, m + 1, Len(U))
        <3> HIDE DEF r
        <3>1. q \in Seq(ChunkSet) /\ r \in Seq(ChunkSet) /\ IsInjective(q \o r)
            BY <1>1, <2>1 DEF r
        <3> QED BY <3>1, InjectiveConcat
    <2> DEFINE k == Only(q, W)
    <2>3. k \in Seq(ChunkSet) /\ IsInjective(k) /\ Range(k) = Range(q) \cap W
        BY <2>1, <2>2, OnlyProperties
    <2> HIDE DEF k
    <2>4. Len(k) <= ChunkSlots
        <3>1. Cardinality(Range(k)) = Len(k)
            BY <2>3, InjectiveLen
        <3>2. Range(k) \in SUBSET W
            BY <2>3
        <3>3. Cardinality(Range(k)) <= Cardinality(W)
            BY <1>2, <3>2, FS_Subset
        <3> QED BY <1>2, <3>1, <3>3
    <2> QED BY <2>1, <2>2, <2>3, <2>4 DEF k, q
<1>8. Staying(Taken(0)) = <<>>
    <2>1. SubSeq(U, 1, 0) = <<>>
        BY SubSeqEmpty
    <2>2. Only(<<>>, W) = <<>>
        BY OnlyEmpty
    <2> QED BY <1>3, <1>4, <2>1, <2>2
<1>9. Staying(a) \in Seq(ChunkSet)
    BY <1>3, <1>4, <1>7
<1>10. ASSUME bi < Chunk!NBatches
       PROVE  /\ Staying(b) = Staying(a) \o Only(BatchIds, W) /\ Only(BatchIds, W) \in Seq(ChunkSet)
              /\ IsInjective(Staying(b)) /\ Len(Staying(b)) <= ChunkSlots
    <2>1. b \in a + 1 .. Routes /\ BatchIds = SubSeq(U, a + 1, b)
        BY <1>5, <1>10
    <2>2. b \in 0 .. Routes
        BY <1>1, <1>4, <2>1
    <2>3. BatchIds \in Seq(ChunkSet)
        BY <1>10, BatchPairs
    <2>4. SubSeq(U, 1, a) \o BatchIds = SubSeq(U, 1, b)
        <3>1. 1 \in 1 .. Len(U) + 1 /\ a \in 1 - 1 .. Len(U) /\ b \in a .. Len(U)
            BY <1>1, <1>4, <2>1
        <3>2. SubSeq(U, 1, a) \o SubSeq(U, a + 1, b) = SubSeq(U, 1, b)
            BY <1>1, <3>1, ConcatAdjacentSubSeq
        <3> QED BY <2>1, <3>2
    <2> DEFINE p == SubSeq(U, 1, a)
    <2>5. p \in Seq(ChunkSet)
        BY <1>4, <1>7
    <2>6. Staying(b) = Only(p \o BatchIds, W) /\ Staying(a) = Only(p, W)
        BY <1>3, <2>4
    <2> HIDE DEF p
    <2>7. Only(p \o BatchIds, W) = Only(p, W) \o Only(BatchIds, W)
        BY <2>3, <2>5, OnlyConcat
    <2>8. Only(BatchIds, W) \in Seq(ChunkSet)
        BY <2>3, OnlyType
    <2>9. IsInjective(Staying(b)) /\ Len(Staying(b)) <= ChunkSlots
        BY <1>3, <1>7, <2>2
    <2> QED BY <2>6, <2>7, <2>8, <2>9
<1>11. ASSUME ~(bi < Chunk!NBatches) PROVE Range(Staying(a)) = W /\ Len(Staying(a)) = ChunkSlots
    <2>1. a = Routes /\ SubSeq(U, 1, Len(U)) = U
        BY <1>1, <1>6, <1>11, SubSeqFull
    <2>2. Staying(a) = Only(U, W)
        BY <1>1, <1>3, <2>1
    <2>3. Only(U, W) \in Seq(ChunkSet) /\ IsInjective(Only(U, W)) /\ Range(Only(U, W)) = Range(U) \cap W
        BY <1>1, OnlyProperties
    <2>4. Range(Only(U, W)) = W
        BY <1>1, <1>2, <2>3
    <2>5. Cardinality(Range(Only(U, W))) = Len(Only(U, W))
        BY <2>3, InjectiveLen
    <2> QED BY <1>2, <2>2, <2>4, <2>5
<1> QED BY <1>8, <1>9, <1>10, <1>11 DEF a, b, W

\* A sweep in progress: the results so far are those of the experts taken so
\* far, and the pool ends with those of them that stay.
Swept ==
    /\ bi \in Nat /\ Routes > ChunkSlots
    /\ outs = Results(Taken(bi))
    /\ EndsWith(ChunkSet, pool, Staying(Taken(bi)))

CkInv ==
    /\ flat \in Seq(ChunkSet) /\ pool \in ChunkPools
    /\ kernels \subseteq {Chunk!StockKernel} /\ pc \in {"call", "sweep", "done"}
    /\ pc = "call" => outs = <<>> /\ bi = 0
    /\ pc = "sweep" => Swept
    /\ pc = "done" => /\ inPlace = InPlace
                      /\ Routes > ChunkSlots => pool = LastOf(Chunk!ByCount, ChunkSlots)

\* What is made of the pairs' experts stays while they do.
LEMMA SameRouting ==
    ASSUME flat' = flat
    PROVE  /\ Routes' = Routes /\ Chunk!StockKernel' = Chunk!StockKernel /\ InPlace' = InPlace
           /\ Chunk!ByCount' = Chunk!ByCount /\ \A n : (Taken(n))' = Taken(n)
           /\ \A m : (Results(m))' = Results(m) /\ (Staying(m))' = Staying(m)
<1>1. Chunk!Pairs' = Chunk!Pairs
    BY DEF Chunk!Pairs
<1>2. Chunk!Uniq' = Chunk!Uniq
    BY DEF Chunk!Uniq
<1>3. Chunk!Order' = Chunk!Order
    BY DEF Chunk!Order
<1>4. \A e : (Chunk!Count(e))' = Chunk!Count(e)
    BY <1>1 DEF Chunk!Count
<1>5. Chunk!ByCount' = Chunk!ByCount
    BY <1>4 DEF Chunk!ByCount
<1>6. Chunk!Warm' = Chunk!Warm
    BY <1>5 DEF Chunk!Warm
<1>7. Grouped' = Grouped
    BY <1>3 DEF Grouped, Chunk!RowOf
<1>8. \A m : (Upto(m))' = Upto(m)
    BY <1>1, <1>2 DEF Upto
<1>9. Routes' = Routes
    BY DEF Routes
<1>10. \A n : (Taken(n))' = Taken(n)
    BY <1>9 DEF Taken
<1>11. \A m : (Results(m))' = Results(m)
    BY <1>7, <1>8 DEF Results
<1>12. \A m : (Staying(m))' = Staying(m)
    BY <1>2, <1>6 DEF Staying
<1>13. InPlace' = InPlace
    BY <1>1 DEF InPlace, Chunk!RowOf
<1>14. Chunk!StockKernel' = Chunk!StockKernel
    BY DEF Chunk!StockKernel, Chunk!StockSorted
<1> QED BY <1>5, <1>9, <1>10, <1>11, <1>12, <1>13, <1>14

\* A chunk before its call, at rest, and after each step.
LEMMA RowsInit ==
    ASSUME Chunk!Init
    PROVE  CkInv
<1>1. /\ pc = "call" /\ outs = <<>> /\ bi = 0 /\ kernels = {}
      /\ \A i, j \in DOMAIN pool : pool[i] = pool[j] => i = j
    BY DEF Chunk!Init
<1>2. flat \in Seq(ChunkSet)
    <2>1. PICK rows \in RowCounts : flat \in [1 .. rows * ChunkK -> Chunk!Experts]
        BY DEF Chunk!Init
    <2>2. rows * ChunkK \in Nat
        BY ChunkBounds
    <2>3. Chunk!Experts = ChunkSet
        BY DEF Chunk!Experts, ChunkSet
    <2> QED BY <2>1, <2>2, <2>3
<1>3. pool \in ChunkPools
    <2>1. PICK n \in {0, ChunkSlots} : pool \in [1 .. n -> ChunkSet]
        BY DEF Chunk!Init, Chunk!Experts, ChunkSet
    <2>2. n \in Nat /\ n <= ChunkSlots
        BY ChunkBounds
    <2>3. pool \in Seq(ChunkSet) /\ Len(pool) = n
        BY <2>1, <2>2
    <2>4. IsInjective(pool)
        BY <1>1 DEF IsInjective
    <2> QED BY <2>2, <2>3, <2>4 DEF ChunkPools, LruPools, LruOrders
<1> QED BY <1>1, <1>2, <1>3 DEF CkInv

LEMMA RowsStay ==
    ASSUME CkInv, flat' = flat, pool' = pool, outs' = outs, bi' = bi, kernels' = kernels,
           inPlace' = inPlace, pc' = pc
    PROVE  CkInv'
<1>1. Swept => Swept'
    BY SameRouting DEF Swept
<1> QED BY <1>1, SameRouting DEF CkInv

\* The pool ends with the call's experts, so each has a slot, and the slots'
\* order is one of the pairs.
LEMMA PooledStep ==
    ASSUME CkInv, Chunk!Pooled
    PROVE  CkInv'
<1> DEFINE now == Chunk!LruTakes(Chunk!Experts, ChunkSlots, pool, Chunk!Routed)
           slot == [i \in Chunk!Pairs |-> CHOOSE s \in DOMAIN now : now[s] = flat[i]]
           order == Chunk!Argsorted(slot)
           result(i) == <<Chunk!RowOf(i), now[slot[i]]>>
<1>1. /\ flat \in Seq(ChunkSet) /\ pool \in LruPools(ChunkSet, ChunkSlots) /\ ChunkSlots \in Nat \ {0}
      /\ kernels \subseteq {Chunk!StockKernel}
    BY ChunkBounds DEF CkInv, ChunkPools
<1>2. /\ Routes <= ChunkSlots /\ pool' = now /\ pc' = "done" /\ flat' = flat
      /\ kernels' = {IF Chunk!StockSorted THEN Chunk!Gathered(Len(flat), ChunkSlots) ELSE "per row"}
      /\ inPlace' = IF Chunk!StockSorted THEN Chunk!PutBack(order, [i \in Chunk!Pairs |-> result(order[i])])
                    ELSE [i \in Chunk!Pairs |-> result(i)]
    <2>1. Chunk!Cardinality(Chunk!Range(flat)) = Routes
        BY ChunkOperators DEF Routes
    <2> QED BY <2>1 DEF Chunk!Pooled
<1>0. now = LruTakes(ChunkSet, ChunkSlots, pool, Chunk!Routed)
    <2>1. Chunk!Experts = ChunkSet
        BY DEF Chunk!Experts, ChunkSet
    <2> QED BY <2>1, ChunkOperators
<1>3. /\ Chunk!Routed \in Seq(ChunkSet) /\ IsInjective(Chunk!Routed) /\ Len(Chunk!Routed) = Routes
      /\ Range(Chunk!Routed) = Range(flat)
    BY SortedExperts, <1>1 DEF SortOf, Routes
<1>4. now \in LruPools(ChunkSet, ChunkSlots) /\ EndsWith(ChunkSet, now, Chunk!Routed)
    <2> DEFINE r == Chunk!Routed
    <2> DEFINE none == <<>>
    <2>1. pool \in Seq(ChunkSet) /\ none \in Seq(ChunkSet) /\ pool \o none = pool /\ none \o r = r
        <3>1. pool \in Seq(ChunkSet)
            BY <1>1 DEF LruPools, LruOrders
        <3> QED BY <1>3, <3>1, EmptySeq, ConcatEmptySeq
    <2>2. r \in Seq(ChunkSet) /\ IsInjective(r) /\ Len(r) <= ChunkSlots
        BY <1>2, <1>3
    <2> HIDE DEF r, none, now
    <2>3. EndsWith(ChunkSet, pool, none) /\ none \o r = r
        BY <2>1 DEF EndsWith
    <2>4. /\ LruTakes(ChunkSet, ChunkSlots, pool, r) \in LruPools(ChunkSet, ChunkSlots)
          /\ EndsWith(ChunkSet, LruTakes(ChunkSet, ChunkSlots, pool, r), none \o r)
        BY <1>1, <2>1, <2>2, <2>3, LruTakesEnd
    <2> QED BY <1>0, <2>3, <2>4 DEF r
<1>5. now \in Seq(ChunkSet) /\ Range(flat) \subseteq Range(now)
    <2>1. PICK g \in Seq(ChunkSet) : now = g \o Chunk!Routed
        BY <1>4 DEF EndsWith
    <2>2. Range(g \o Chunk!Routed) = Range(g) \cup Range(Chunk!Routed)
        BY <1>3, RangeConcatenation
    <2> QED BY <1>3, <1>4, <2>1, <2>2 DEF LruPools, LruOrders
<1> HIDE DEF now
<1>6. \A i \in Chunk!Pairs : slot[i] \in DOMAIN now /\ now[slot[i]] = flat[i]
    <2> SUFFICES ASSUME NEW i \in Chunk!Pairs PROVE slot[i] \in DOMAIN now /\ now[slot[i]] = flat[i]
        OBVIOUS
    <2>1. flat[i] \in Range(now)
        BY <1>1, <1>5, RoutedFinite
    <2>2. \E s \in DOMAIN now : now[s] = flat[i]
        BY <2>1 DEF Range
    <2> QED BY <2>2
<1>7. slot \in [Chunk!Pairs -> Int]
    <2>1. DOMAIN now = 1 .. Len(now) /\ Len(now) \in Nat
        BY <1>5, LenProperties
    <2>2. DOMAIN now \subseteq Int
        BY <2>1
    <2>3. \A i \in Chunk!Pairs : slot[i] \in Int
        BY <1>6, <2>2
    <2> QED BY <2>3
<1>8. \A i \in Chunk!Pairs : result(i) = <<Chunk!RowOf(i), flat[i]>>
    BY <1>6
<1> HIDE DEF slot
<1>9. DOMAIN order = Chunk!Pairs /\ Range(order) = Chunk!Pairs /\ IsInjective(order)
    <2> DEFINE D == Chunk!Pairs
    <2>1. D \in SUBSET Int /\ IsFiniteSet(D) /\ Cardinality(D) = Len(flat) /\ D = 1 .. Len(flat)
        BY <1>1, RoutedFinite
    <2>2. slot \in [D -> Int]
        BY <1>7
    <2> HIDE DEF D, order
    <2>3. order = Chunk!Argsorted(slot)
        BY DEF order
    <2>4. order \in Seq(D) /\ Len(order) = Cardinality(D) /\ IsInjective(order) /\ Range(order) = D
        BY <2>1, <2>2, <2>3, ArgsortedProperties
    <2>5. DOMAIN order = D
        BY <2>1, <2>4, LenProperties
    <2> QED BY <2>4, <2>5 DEF D
<1> HIDE DEF order
<1>10. inPlace' = InPlace
    <2>1. CASE Chunk!StockSorted
        <3> DEFINE results == [i \in Chunk!Pairs |-> result(order[i])]
        <3>1. \A i \in Chunk!Pairs : order[i] \in Chunk!Pairs
            BY <1>9 DEF Range
        <3>2. \A i \in Chunk!Pairs : results[i] = <<Chunk!RowOf(order[i]), flat[order[i]]>>
            BY <1>8, <3>1
        <3>3. inPlace' = Chunk!PutBack(order, results)
            BY <1>2, <2>1
        <3> HIDE DEF results
        <3> QED BY <1>9, <3>2, <3>3, PutBackIs
    <2>2. CASE ~Chunk!StockSorted
        <3>1. inPlace' = [i \in Chunk!Pairs |-> result(i)]
            BY <1>2, <2>2
        <3> HIDE DEF result
        <3> QED BY <1>8, <3>1 DEF InPlace
    <2> QED BY <2>1, <2>2
<1>11. kernels' \subseteq {Chunk!StockKernel}
    BY <1>1, <1>2, StockReaches DEF Chunk!StockKernel
<1>12. ~(Routes > ChunkSlots)
    <2>1. Routes \in Nat /\ ChunkSlots \in Nat /\ Routes <= ChunkSlots
        BY <1>1, <1>2, RoutedFinite DEF Routes
    <2> QED BY <2>1
<1> QED BY <1>1, <1>2, <1>4, <1>10, <1>11, <1>12, SameRouting DEF CkInv, ChunkPools

LEMMA SweepStartStep ==
    ASSUME CkInv, Chunk!SweepStart
    PROVE  CkInv'
<1>1. /\ flat \in Seq(ChunkSet) /\ pool \in ChunkPools /\ pool \in Seq(ChunkSet)
      /\ kernels \subseteq {Chunk!StockKernel} /\ outs = <<>> /\ bi = 0
    BY DEF CkInv, Chunk!SweepStart, ChunkPools, LruPools, LruOrders
<1>2. /\ Routes > ChunkSlots /\ pc' = "sweep" /\ flat' = flat /\ pool' = pool /\ outs' = outs
      /\ bi' = bi /\ kernels' = kernels
    BY ChunkOperators DEF Chunk!SweepStart, Routes
<1>3. Results(Taken(0)) = <<>> /\ Staying(Taken(0)) = <<>>
    <2>1. bi \in Nat
        BY <1>1
    <2> QED BY <1>1, <1>2, <2>1, ResultsSteps, StayingSteps
<1>4. pool = pool \o Staying(Taken(0))
    BY <1>1, <1>3, ConcatEmptySeq
<1>5. Swept
    BY <1>1, <1>2, <1>3, <1>4 DEF Swept, EndsWith
<1>6. Swept'
    BY <1>2, <1>5, SameRouting DEF Swept
<1> QED BY <1>1, <1>2, <1>6, SameRouting DEF CkInv

\* A batch gathers its experts' pairs, and each pair finds its expert.
LEMMA SweepBatchStays ==
    ASSUME CkInv, Chunk!SweepBatchStep
    PROVE  CkInv'
<1> DEFINE ids == BatchIds
           sel == BatchSel
           slot == [i \in DOMAIN sel |-> CHOOSE s \in DOMAIN ids : ids[s] = flat[sel[i]]]
           pad == Chunk!Pad(Len(sel), ids)
           kept == Only(ids, Chunk!Warm)
<1>1. /\ flat \in Seq(ChunkSet) /\ pool \in LruPools(ChunkSet, ChunkSlots) /\ ChunkSlots \in Nat \ {0}
      /\ kernels \subseteq {Chunk!StockKernel} /\ pc = "sweep" /\ bi < Chunk!NBatches /\ Swept
    <2>1. pc = "sweep" /\ bi < Chunk!NBatches
        BY DEF Chunk!SweepBatchStep
    <2> QED BY <2>1, ChunkBounds DEF CkInv, ChunkPools
<1>2. /\ outs' = outs \o [i \in DOMAIN sel |-> <<Chunk!RowOf(sel[i]), ids[slot[i]]>>]
      /\ kernels' = kernels \cup
            {IF Chunk!StockSorted THEN Chunk!Gathered(Len(sel) + pad, Len(ids)) ELSE "per row"}
      /\ pool' = LruTakes(ChunkSet, ChunkSlots, pool, kept)
      /\ bi' = bi + 1 /\ flat' = flat /\ pc' = pc
    BY ChunkOperators DEF Chunk!SweepBatchStep, BatchIds, BatchSel, Chunk!Experts, ChunkSet
<1>3. /\ bi \in Nat /\ Routes > ChunkSlots /\ outs = Results(Taken(bi))
      /\ EndsWith(ChunkSet, pool, Staying(Taken(bi)))
    BY <1>1 DEF Swept
<1>4. /\ Len(ids) \in Nat \ {0} /\ Len(sel) \in Nat
      /\ \A i \in DOMAIN sel : \E j \in DOMAIN ids : ids[j] = flat[sel[i]]
    <2>1. /\ Len(ids) \in Nat \ {0} /\ sel \in Seq(Chunk!Pairs)
          /\ \A i \in DOMAIN sel : \E j \in DOMAIN ids : ids[j] = flat[sel[i]]
        BY <1>1, <1>3, BatchPairs
    <2> QED BY <2>1, LenProperties
<1> HIDE DEF ids, sel
<1>5. outs' = Results(Taken(bi + 1))
    <2>1. \A i \in DOMAIN sel : ids[slot[i]] = flat[sel[i]]
        BY <1>4
    <2>2. [i \in DOMAIN sel |-> <<Chunk!RowOf(sel[i]), ids[slot[i]]>>] =
              [i \in DOMAIN sel |-> <<Chunk!RowOf(sel[i]), flat[sel[i]]>>]
        BY <2>1
    <2>3. Results(Taken(bi + 1)) =
              Results(Taken(bi)) \o [i \in DOMAIN sel |-> <<Chunk!RowOf(sel[i]), flat[sel[i]]>>]
        BY <1>1, <1>3, ResultsSteps DEF sel
    <2> QED BY <1>2, <1>3, <2>2, <2>3
<1>6. kernels' \subseteq {Chunk!StockKernel}
    <2>1. Chunk!Gathered(Len(sel) + pad, Len(ids)) = "sorted"
        BY <1>4, PadReaches
    <2> QED BY <1>1, <1>2, <2>1 DEF Chunk!StockKernel
<1>7. pool' \in LruPools(ChunkSet, ChunkSlots) /\ EndsWith(ChunkSet, pool', Staying(Taken(bi + 1)))
    <2> DEFINE d == Staying(Taken(bi))
               next == Staying(Taken(bi + 1))
    <2>1. EndsWith(ChunkSet, pool, d)
        BY <1>3
    <2>2. /\ d \in Seq(ChunkSet) /\ next = d \o kept /\ kept \in Seq(ChunkSet)
          /\ IsInjective(next) /\ Len(next) <= ChunkSlots
        BY <1>1, <1>3, StayingSteps DEF ids
    <2> HIDE DEF d, next, kept
    <2>3. /\ LruTakes(ChunkSet, ChunkSlots, pool, kept) \in LruPools(ChunkSet, ChunkSlots)
          /\ EndsWith(ChunkSet, LruTakes(ChunkSet, ChunkSlots, pool, kept), next)
        <3>1. ChunkSlots \in Nat \ {0} /\ pool \in LruPools(ChunkSet, ChunkSlots)
            BY <1>1
        <3> QED BY <2>1, <2>2, <3>1, LruTakesEnd
    <2> QED BY <1>2, <2>3 DEF next, kept
<1>8. Swept'
    <2>1. /\ (Results(Taken(bi)))' = Results(Taken(bi + 1)) /\ (Staying(Taken(bi)))' = Staying(Taken(bi + 1))
          /\ Routes' = Routes
        BY <1>2, SameRouting
    <2>2. bi' \in Nat
        <3>1. bi \in Nat /\ bi' = bi + 1
            BY <1>2, <1>3
        <3> QED BY <3>1
    <2> QED BY <1>3, <1>5, <1>7, <2>1, <2>2 DEF Swept
<1> QED BY <1>1, <1>2, <1>6, <1>7, <1>8, SameRouting DEF CkInv, ChunkPools

LEMMA SweepEndStep ==
    ASSUME CkInv, Chunk!SweepEnd
    PROVE  CkInv'
<1> DEFINE w == LastOf(Chunk!ByCount, ChunkSlots)
           W == Chunk!Warm
<1>1. /\ flat \in Seq(ChunkSet) /\ pool \in LruPools(ChunkSet, ChunkSlots) /\ ChunkSlots \in Nat \ {0}
      /\ kernels \subseteq {Chunk!StockKernel} /\ Swept
    BY ChunkBounds DEF CkInv, ChunkPools, Chunk!SweepEnd
<1>2. /\ bi = Chunk!NBatches /\ inPlace' = Chunk!PutBack(Chunk!Order, outs) /\ pc' = "done"
      /\ pool' = LruHits(ChunkSet, pool, Only(Chunk!ByCount, W \cap Range(pool)))
      /\ flat' = flat /\ kernels' = kernels
    BY ChunkOperators DEF Chunk!SweepEnd, Chunk!Experts, ChunkSet
<1>3. /\ bi \in Nat /\ Routes > ChunkSlots /\ outs = Results(Taken(bi)) /\ ~(bi < Chunk!NBatches)
      /\ EndsWith(ChunkSet, pool, Staying(Taken(bi)))
    <2>1. bi \in Nat /\ bi = Chunk!NBatches
        BY <1>1, <1>2 DEF Swept
    <2>2. ~(bi < Chunk!NBatches)
        BY <2>1
    <2> QED BY <1>1, <2>1, <2>2 DEF Swept
<1>4. inPlace' = InPlace
    <2>1. outs = Grouped
        BY <1>1, <1>3, ResultsSteps
    <2>2. \A i \in Chunk!Pairs : Grouped[i] = <<Chunk!RowOf(Chunk!Order[i]), flat[Chunk!Order[i]]>>
        BY <1>1, RoutedFinite DEF Grouped
    <2>3. /\ DOMAIN Chunk!Order = Chunk!Pairs /\ Range(Chunk!Order) = Chunk!Pairs /\ IsInjective(Chunk!Order)
        BY <1>1, OrderOfPairs, RoutedFinite
    <2>4. Chunk!PutBack(Chunk!Order, Grouped) = InPlace
        BY <2>2, <2>3, PutBackIs
    <2> QED BY <1>2, <2>1, <2>4
<1>5. /\ w \in Seq(ChunkSet) /\ IsInjective(w) /\ Len(w) = ChunkSlots /\ W = Range(w)
      /\ Only(Chunk!ByCount, W) = w
    BY <1>1, <1>3, WarmOnes
<1>6. Range(pool) = W
    <2> DEFINE d == Staying(Taken(bi))
    <2>1. PICK f \in Seq(ChunkSet) : pool = f \o d
        BY <1>3 DEF EndsWith
    <2>2. d \in Seq(ChunkSet) /\ Range(d) = W /\ Len(d) = ChunkSlots
        BY <1>1, <1>3, StayingSteps
    <2> HIDE DEF d
    <2>3. Len(f \o d) = Len(f) + Len(d) /\ Len(f) \in Nat /\ Len(pool) <= ChunkSlots
        BY <1>1, <2>2, ConcatProperties, LenProperties DEF LruPools
    <2>4. Len(f) = 0
        BY <1>1, <2>1, <2>2, <2>3
    <2>5. f = <<>>
        BY <2>4, EmptySeq
    <2> QED BY <2>1, <2>2, <2>5, ConcatEmptySeq
<1>7. pool' = LruHits(ChunkSet, pool, w)
    <2>1. W \cap Range(pool) = W
        BY <1>6
    <2> QED BY <1>2, <1>5, <2>1
<1> HIDE DEF w, W
<1>8. LruHits(ChunkSet, pool, w) = w
    <2>1. pool \in LruOrders(ChunkSet) /\ pool \in Seq(ChunkSet)
        BY <1>1 DEF LruPools, LruOrders
    <2>2. LruHits(ChunkSet, pool, w) = Only(pool, ChunkSet \ Range(w)) \o w
        BY <1>5, <2>1, LruHitsSplit
    <2> DEFINE S == ChunkSet \ Range(w)
    <2>3. Range(pool) \cap S = {}
        BY <1>5, <1>6
    <2> HIDE DEF S
    <2>4. Only(pool, S) = <<>>
        BY <2>1, <2>3, OnlyAll
    <2>5. <<>> \o w = w
        BY <1>5, ConcatEmptySeq
    <2> QED BY <2>2, <2>4, <2>5 DEF S
<1>9. w \in ChunkPools
    BY <1>1, <1>5 DEF ChunkPools, LruPools, LruOrders
<1> QED BY <1>1, <1>2, <1>4, <1>7, <1>8, <1>9, SameRouting DEF CkInv, w

LEMMA NextCkInv == CkInv /\ Chunk!Next => CkInv'
BY PooledStep, SweepStartStep, SweepBatchStays, SweepEndStep DEF Chunk!Next

LEMMA AlwaysCkInv == PartsSpec => [](part = "rows" => CkInv)
<1> DEFINE RowsInv == part = "rows" => CkInv
           partsVars == <<part, planVars, rangeVars, chunkVars, sliceVars, touchVars, flat, pool, pc>>
<1>1. PartsInit => RowsInv
    BY RowsInit DEF PartsInit
<1>2. RowsInv /\ [PartsNext]_partsVars => RowsInv'
    <2> SUFFICES ASSUME RowsInv, [PartsNext]_partsVars PROVE RowsInv'
        OBVIOUS
    <2>1. CASE PartsNext
        <3>1. part' = part /\ (part = "rows" => Chunk!Next)
            BY <2>1 DEF PartsNext
        <3> QED BY <3>1, NextCkInv
    <2>2. CASE UNCHANGED partsVars
        BY <2>2, RowsStay DEF chunkVars
    <2> QED BY <2>1, <2>2
<1> QED BY <1>1, <1>2, PTL DEF PartsSpec

\* Every row gets what each of its experts makes of it, in the router's order,
\* however many rows, experts, slots and pairs a batch (integrate.py, _pooled
\* and _expert_sweep: grouping, batches, inverse permutation).
THEOREM RowsAlwaysInPlace == PartsSpec => []RowsInPlace
<1>1. (part = "rows" => CkInv) => RowsInPlace
    BY DEF CkInv, InPlace, RowsInPlace, Chunk!RowsInPlace
<1> QED BY <1>1, AlwaysCkInv, PTL

\* Every batch runs the kernel the stock module's one call would have run
\* (integrate.py, _expert_sweep's padding: "outputs match stock's bitwise").
THEOREM KernelAlwaysSame == PartsSpec => []SameKernel
<1>1. (part = "rows" => CkInv) => SameKernel
    BY DEF CkInv, SameKernel, Chunk!SameKernel
<1> QED BY <1>1, AlwaysCkInv, PTL

\* After a sweep the pool holds as many of the chunk's most routed experts as
\* it has slots, the most routed last to go, whatever it held before
\* (integrate.py, _expert_sweep's warm set and retouch).
THEOREM WarmestAlwaysLast == PartsSpec => []WarmestLast
<1>1. ASSUME part = "rows" => CkInv PROVE WarmestLast
    <2> SUFFICES ASSUME CkInv, pc = "done", Routes > ChunkSlots
                 PROVE  /\ Len(pool) = ChunkSlots /\ Range(pool) \subseteq Range(flat)
                        /\ \A i \in 1 .. ChunkSlots - 1 : Chunk!Count(pool[i]) <= Chunk!Count(pool[i + 1])
                        /\ \A e \in ChunkSet \ Range(pool) : Chunk!Count(e) <= Chunk!Count(pool[1])
        BY <1>1, ChunkOperators DEF WarmestLast, Chunk!WarmestLast, Routes, Chunk!Experts, ChunkSet
    <2> DEFINE B == Chunk!ByCount
               n == ChunkSlots
               place(i) == Routes - n + i
    <2>1. flat \in Seq(ChunkSet) /\ pool = LastOf(B, n)
        BY DEF CkInv
    <2>2. /\ pool \in Seq(ChunkSet) /\ Len(pool) = n /\ Range(pool) \subseteq Range(flat)
          /\ \A i \in 1 .. n : pool[i] = B[place(i)]
        BY <2>1, WarmOnes
    <2>3. Routes \in Nat /\ n \in Nat \ {0} /\ n < Routes /\ \A e : Chunk!Count(e) \in Nat
        <3>1. Routes \in Nat /\ n \in Nat \ {0} /\ Routes > n
            BY <2>1, RoutedFinite, ChunkBounds DEF Routes
        <3>2. \A e : Chunk!Count(e) \in Nat
            BY <2>1, CountsType
        <3> QED BY <3>1, <3>2
    <2>4. /\ Range(B) = Range(flat) /\ DOMAIN B = 1 .. Routes
          /\ \A i, j \in 1 .. Routes : i < j => Chunk!Count(B[i]) <= Chunk!Count(B[j])
        <3>1. /\ B \in Seq(ChunkSet) /\ Len(B) = Routes /\ Range(B) = Range(flat)
              /\ \A i, j \in 1 .. Routes : i < j => Chunk!Count(B[i]) <= Chunk!Count(B[j])
            BY <2>1, SortedExperts DEF SortOf, Routes
        <3> QED BY <3>1, LenProperties
    <2> HIDE DEF B, n
    <2>5. ASSUME NEW i \in 1 .. n - 1 PROVE Chunk!Count(pool[i]) <= Chunk!Count(pool[i + 1])
        <3>1. /\ place(i) \in 1 .. Routes /\ place(i + 1) \in 1 .. Routes /\ place(i) < place(i + 1)
              /\ i \in 1 .. n /\ i + 1 \in 1 .. n
            BY <2>3
        <3> HIDE DEF place
        <3>2. pool[i] = B[place(i)] /\ pool[i + 1] = B[place(i + 1)]
            BY <2>2, <3>1
        <3>3. Chunk!Count(B[place(i)]) <= Chunk!Count(B[place(i + 1)])
            BY <2>4, <3>1
        <3> QED BY <3>2, <3>3
    <2>6. ASSUME NEW e \in ChunkSet \ Range(pool) PROVE Chunk!Count(e) <= Chunk!Count(pool[1])
        <3>1. CASE e \notin Range(flat)
            <4>1. Chunk!Count(e) = 0
                BY <2>1, <3>1, CountsType
            <4> QED BY <2>3, <4>1
        <3>2. CASE e \in Range(flat)
            <4>1. PICK j \in 1 .. Routes : B[j] = e
                BY <2>4, <3>2 DEF Range
            <4>2. pool[1] = B[place(1)] /\ place(1) \in 1 .. Routes
                BY <2>2, <2>3
            <4>3. j < place(1)
                <5>1. SUFFICES ASSUME j >= place(1) PROVE FALSE
                    BY <2>3, <4>2
                <5>2. j - (Routes - n) \in 1 .. n /\ place(j - (Routes - n)) = j
                    BY <2>3, <5>1
                <5> HIDE DEF place
                <5>3. pool[j - (Routes - n)] = e
                    BY <2>2, <4>1, <5>2
                <5>4. pool[j - (Routes - n)] \in Range(pool)
                    <6>1. DOMAIN pool = 1 .. n
                        BY <2>2, LenProperties
                    <6> QED BY <5>2, <6>1 DEF Range
                <5> QED BY <5>3, <5>4
            <4>4. Chunk!Count(B[j]) <= Chunk!Count(B[place(1)])
                BY <2>4, <4>2, <4>3
            <4> QED BY <4>1, <4>2, <4>4
        <3> QED BY <3>1, <3>2
    <2> QED BY <2>2, <2>5, <2>6 DEF n
<1> QED BY <1>1, AlwaysCkInv, PTL
=============================================================================
