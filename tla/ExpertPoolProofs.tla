-------------------------- MODULE ExpertPoolProofs --------------------------
(***************************************************************************)
(* Theorems about ExpertPool, for every set of experts, every pool size    *)
(* and, where the policy is not named, both eviction policies.             *)
(*                                                                         *)
(* The slot books (id2slot, slot_table, free) are handled through their    *)
(* entries, so that the order of id2slot matters only where a proof is     *)
(* about eviction: two lemmas say what a hit and a binding do to the       *)
(* books, and every action is one of them or leaves the books alone.       *)
(* s3fifo's queues are handled through their keys: Inserted says what an   *)
(* insertion does to them, whichever of its branches runs.                 *)
(***************************************************************************)
EXTENDS ExpertPool, SeqFoldsProofs

-----------------------------------------------------------------------------
(* What the operators of OrderedDict return, entry by entry.               *)

\* The type of a dictionary, and that a key has one position.
LEMMA DictType ==
    ASSUME NEW K, NEW V, NEW d \in OrderedDicts(K, V)
    PROVE  /\ d \in Seq(Entry(K, V)) /\ DOMAIN d = 1 .. Len(d) /\ Len(d) \in Nat
           /\ \A i \in DOMAIN d : d[i] \in Entry(K, V) /\ d[i].k \in K /\ d[i].v \in V
           /\ \A i, j \in DOMAIN d : d[i].k = d[j].k => i = j
<1>1. d \in Seq(Entry(K, V)) /\ \A i, j \in DOMAIN d : d[i].k = d[j].k => i = j
    BY DEF OrderedDicts
<1>2. DOMAIN d = 1 .. Len(d) /\ Len(d) \in Nat
    BY <1>1, LenProperties
<1>3. \A i \in DOMAIN d : d[i] \in Entry(K, V)
    BY <1>1, <1>2, ElementOfSeq
<1> QED BY <1>1, <1>2, <1>3 DEF Entry

\* IndexOf finds the one position of a key, and Get its value.
LEMMA DictIndex ==
    ASSUME NEW K, NEW V, NEW d \in OrderedDicts(K, V)
    PROVE  /\ \A i \in DOMAIN d : IndexOf(d, d[i].k) = i /\ Get(d, d[i].k) = d[i].v
           /\ \A e \in Keys(d) : /\ IndexOf(d, e) \in DOMAIN d
                                 /\ d[IndexOf(d, e)].k = e
                                 /\ Get(d, e) = d[IndexOf(d, e)].v
                                 /\ Get(d, e) \in V /\ e \in K
<1>1. ASSUME NEW e \in Keys(d)
      PROVE  IndexOf(d, e) \in DOMAIN d /\ d[IndexOf(d, e)].k = e
    <2>1. PICK i \in DOMAIN d : d[i].k = e
        BY DEF Keys
    <2> QED BY <2>1 DEF IndexOf
<1>2. \A i \in DOMAIN d : d[i].k \in Keys(d)
    BY DEF Keys
<1> QED BY <1>1, <1>2, DictType DEF Get

\* RemoveAt, position by position.
LEMMA RemoveAtElements ==
    ASSUME NEW S, NEW s \in Seq(S), NEW i \in 1 .. Len(s)
    PROVE  /\ RemoveAt(s, i) \in Seq(S)
           /\ Len(RemoveAt(s, i)) = Len(s) - 1
           /\ \A j \in 1 .. Len(s) - 1 : RemoveAt(s, i)[j] = IF j < i THEN s[j] ELSE s[j + 1]
<1> DEFINE a == SubSeq(s, 1, i - 1)
           b == SubSeq(s, i + 1, Len(s))
<1>0. Len(s) \in Nat /\ i \in Int /\ \A j \in 1 .. Len(s) : s[j] \in S
    BY LenProperties, ElementOfSeq
<1>1. /\ a \in Seq(S) /\ Len(a) = i - 1
      /\ \A j \in 1 .. i - 1 : a[j] = s[j]
    BY <1>0, SubSeqProperties
<1>2. /\ b \in Seq(S) /\ Len(b) = Len(s) - i
      /\ \A j \in 1 .. Len(s) - i : b[j] = s[i + j]
    BY <1>0, SubSeqProperties
<1>3. /\ a \o b \in Seq(S) /\ Len(a \o b) = Len(s) - 1
      /\ \A j \in 1 .. Len(s) - 1 : (a \o b)[j] = IF j <= i - 1 THEN a[j] ELSE b[j - (i - 1)]
    <2> HIDE DEF a, b
    <2>1. /\ a \o b \in Seq(S) /\ Len(a \o b) = Len(a) + Len(b)
          /\ \A j \in 1 .. Len(a) + Len(b) :
                (a \o b)[j] = IF j <= Len(a) THEN a[j] ELSE b[j - Len(a)]
        BY <1>1, <1>2, ConcatProperties
    <2>2. Len(a) + Len(b) = Len(s) - 1 /\ Len(a) = i - 1
        BY <1>0, <1>1, <1>2
    <2> QED BY <2>1, <2>2
<1>4. RemoveAt(s, i) = a \o b
    BY DEF RemoveAt
<1>5. ASSUME NEW j \in 1 .. Len(s) - 1
      PROVE  (a \o b)[j] = IF j < i THEN s[j] ELSE s[j + 1]
    <2> HIDE DEF a, b
    <2>1. CASE j < i
        BY <2>1, <1>0, <1>1, <1>3
    <2>2. CASE j >= i
        <3>1. j - (i - 1) \in 1 .. Len(s) - i
            BY <2>2, <1>0
        <3> QED BY <2>2, <3>1, <1>0, <1>2, <1>3
    <2>3. j < i \/ j >= i
        BY <1>0
    <2> QED BY <2>1, <2>2, <2>3
<1> QED BY <1>3, <1>4, <1>5

\* Removing a key closes its gap and keeps the order of the rest.
LEMMA WithoutElements ==
    ASSUME NEW K, NEW V, NEW d \in OrderedDicts(K, V), NEW e \in Keys(d)
    PROVE  /\ Without(d, e) \in OrderedDicts(K, V)
           /\ Len(Without(d, e)) = Len(d) - 1
           /\ \A j \in 1 .. Len(d) - 1 :
                 Without(d, e)[j] = IF j < IndexOf(d, e) THEN d[j] ELSE d[j + 1]
           /\ Range(Without(d, e)) = {x \in Range(d) : x.k # e}
<1> DEFINE p == IndexOf(d, e)
           w == Without(d, e)
           n == Len(d)
<1>0. n \in Nat /\ DOMAIN d = 1 .. n /\ p \in 1 .. n /\ d[p].k = e
    BY DictType, DictIndex
<1>1. /\ w \in Seq(Entry(K, V)) /\ Len(w) = n - 1
      /\ \A j \in 1 .. n - 1 : w[j] = IF j < p THEN d[j] ELSE d[j + 1]
    <2>1. d \in Seq(Entry(K, V))
        BY DictType
    <2> QED BY <1>0, <2>1, RemoveAtElements DEF Without
<1>2. DOMAIN w = 1 .. n - 1
    BY <1>1, LenProperties
<1>3. \A j \in 1 .. n : j # p => d[j].k # e
    BY <1>0, DictType
<1> HIDE DEF w
<1>4. \A i, j \in DOMAIN w : w[i].k = w[j].k => i = j
    <2> SUFFICES ASSUME NEW i \in 1 .. n - 1, NEW j \in 1 .. n - 1, w[i].k = w[j].k
                 PROVE  i = j
        BY <1>2
    <2> DEFINE s(x) == IF x < p THEN x ELSE x + 1
    <2>1. s(i) \in 1 .. n /\ s(j) \in 1 .. n /\ w[i] = d[s(i)] /\ w[j] = d[s(j)]
        BY <1>0, <1>1
    <2>2. s(i) = s(j)
        <3> HIDE DEF s
        <3> QED BY <2>1, <1>0, DictType
    <2> QED BY <2>2, <1>0
<1>5. Range(w) = {x \in Range(d) : x.k # e}
    <2>1. ASSUME NEW x \in Range(w) PROVE x \in Range(d) /\ x.k # e
        <3>1. PICK j \in 1 .. n - 1 : w[j] = x
            BY <1>2 DEF Range
        <3>2. CASE j < p
            <4>1. j \in 1 .. n /\ j # p /\ w[j] = d[j]
                BY <3>2, <1>0, <1>1
            <4> QED BY <4>1, <3>1, <1>0, <1>3 DEF Range
        <3>3. CASE j >= p
            <4>1. j + 1 \in 1 .. n /\ j + 1 # p /\ w[j] = d[j + 1]
                BY <3>3, <1>0, <1>1
            <4> QED BY <4>1, <3>1, <1>0, <1>3 DEF Range
        <3> QED BY <3>2, <3>3, <1>0
    <2>2. ASSUME NEW x \in Range(d), x.k # e PROVE x \in Range(w)
        <3>1. PICK i \in 1 .. n : d[i] = x
            BY <1>0 DEF Range
        <3>2. CASE i < p
            <4>1. i \in 1 .. n - 1 /\ w[i] = d[i]
                BY <3>2, <1>0, <1>1
            <4> QED BY <4>1, <3>1, <1>2 DEF Range
        <3>3. CASE i > p
            <4>1. i - 1 \in 1 .. n - 1 /\ w[i - 1] = d[i]
                BY <3>3, <1>0, <1>1
            <4> QED BY <4>1, <3>1, <1>2 DEF Range
        <3>4. i # p
            BY <2>2, <3>1, <1>0
        <3> QED BY <3>2, <3>3, <3>4, <1>0
    <2> QED BY <2>1, <2>2
<1> QED BY <1>1, <1>4, <1>5 DEF OrderedDicts, w

\* A new key goes to the end.
LEMMA AppendElements ==
    ASSUME NEW K, NEW V, NEW d \in OrderedDicts(K, V),
           NEW e \in K, e \notin Keys(d), NEW v \in V
    PROVE  LET a == Append(d, [k |-> e, v |-> v])
           IN  /\ a \in OrderedDicts(K, V)
               /\ Len(a) = Len(d) + 1
               /\ \A j \in 1 .. Len(d) : a[j] = d[j]
               /\ a[Len(d) + 1] = [k |-> e, v |-> v]
               /\ Range(a) = Range(d) \cup {[k |-> e, v |-> v]}
<1> DEFINE x == [k |-> e, v |-> v]
           a == Append(d, x)
           n == Len(d)
<1>0. n \in Nat /\ DOMAIN d = 1 .. n /\ d \in Seq(Entry(K, V)) /\ x \in Entry(K, V)
    BY DictType DEF Entry
<1>1. /\ a \in Seq(Entry(K, V)) /\ Len(a) = n + 1
      /\ \A j \in 1 .. n : a[j] = d[j]
      /\ a[n + 1] = x /\ x.k = e
    BY <1>0, AppendProperties
<1> HIDE DEF a, x
<1>2. DOMAIN a = 1 .. n + 1
    BY <1>1, LenProperties
<1>3. \A j \in 1 .. n : d[j].k # e
    BY <1>0 DEF Keys
<1>4. \A i, j \in 1 .. n + 1 : a[i].k = a[j].k => i = j
    <2>1. \A i, j \in 1 .. n : a[i].k = a[j].k => i = j
        BY <1>0, <1>1, DictType
    <2>2. \A j \in 1 .. n : a[j].k # a[n + 1].k
        BY <1>1, <1>3
    <2>3. \A i \in 1 .. n + 1 : i \in 1 .. n \/ i = n + 1
        BY <1>0
    <2> QED BY <2>1, <2>2, <2>3
<1>5. Range(a) = Range(d) \cup {x}
    <2>1. ASSUME NEW y \in Range(a) PROVE y \in Range(d) \cup {x}
        <3>1. PICK j \in 1 .. n + 1 : a[j] = y
            BY <1>2 DEF Range
        <3>2. j \in 1 .. n \/ j = n + 1
            BY <1>0
        <3> QED BY <3>1, <3>2, <1>0, <1>1 DEF Range
    <2>2. ASSUME NEW y \in Range(d) PROVE y \in Range(a)
        <3>1. PICK j \in 1 .. n : d[j] = y
            BY <1>0 DEF Range
        <3>2. j \in 1 .. n + 1
            BY <1>0
        <3> QED BY <3>1, <3>2, <1>1, <1>2 DEF Range
    <2>3. x \in Range(a)
        <3>1. n + 1 \in 1 .. n + 1
            BY <1>0
        <3> QED BY <3>1, <1>1, <1>2 DEF Range
    <2> QED BY <2>1, <2>2, <2>3
<1>6. a \in OrderedDicts(K, V)
    BY <1>1, <1>2, <1>4 DEF OrderedDicts
<1> QED BY <1>1, <1>5, <1>6 DEF a, x

\* The keys and values of a dictionary are those of its entries.
LEMMA DictRange ==
    ASSUME NEW K, NEW V, NEW d \in OrderedDicts(K, V)
    PROVE  /\ Keys(d) = {x.k : x \in Range(d)}
           /\ \A x \in Range(d) : Get(d, x.k) = x.v
           /\ \A x, y \in Range(d) : x.k = y.k => x = y
           /\ \A e \in Keys(d) : [k |-> e, v |-> Get(d, e)] \in Range(d)
<1>1. \A x \in Range(d) : \E i \in DOMAIN d : d[i] = x
    BY DEF Range
<1>2. Keys(d) = {x.k : x \in Range(d)}
    BY DEF Keys, Range
<1>3. \A x \in Range(d) : Get(d, x.k) = x.v
    BY <1>1, DictIndex
<1>4. \A x, y \in Range(d) : x.k = y.k => x = y
    BY <1>1, DictType
<1>5. ASSUME NEW e \in Keys(d) PROVE [k |-> e, v |-> Get(d, e)] \in Range(d)
    <2>1. PICK i \in DOMAIN d : d[i].k = e
        BY DEF Keys
    <2>2. d[i] \in Entry(K, V) /\ Get(d, e) = d[i].v
        BY <2>1, DictType, DictIndex
    <2>3. d[i] = [k |-> e, v |-> Get(d, e)]
        BY <2>1, <2>2 DEF Entry
    <2> QED BY <2>3 DEF Range
<1> QED BY <1>2, <1>3, <1>4, <1>5

\* move_to_end keeps the entries and the order of all but the moved key.
LEMMA MoveToEndElements ==
    ASSUME NEW K, NEW V, NEW d \in OrderedDicts(K, V), NEW e \in Keys(d)
    PROVE  LET m == MoveToEnd(d, e)
               p == IndexOf(d, e)
           IN  /\ m \in OrderedDicts(K, V)
               /\ Len(m) = Len(d)
               /\ Range(m) = Range(d)
               /\ \A j \in 1 .. Len(d) - 1 : m[j] = IF j < p THEN d[j] ELSE d[j + 1]
               /\ m[Len(d)] = d[p]
<1> DEFINE w == Without(d, e)
           x == d[IndexOf(d, e)]
           v == Get(d, e)
<1>1. x.k = e /\ x \in Entry(K, V) /\ v = x.v /\ e \in K /\ v \in V /\ x \in Range(d)
    BY DictIndex, DictType DEF Range
<1>2. x = [k |-> e, v |-> v]
    BY <1>1 DEF Entry
<1>3. /\ w \in OrderedDicts(K, V) /\ Len(w) = Len(d) - 1 /\ Len(d) \in Nat
      /\ \A j \in 1 .. Len(d) - 1 : w[j] = IF j < IndexOf(d, e) THEN d[j] ELSE d[j + 1]
      /\ Range(w) = {y \in Range(d) : y.k # e}
    BY WithoutElements, DictType
<1>4. e \notin Keys(w)
    BY <1>3, DictRange
<1> HIDE DEF w, x, v
<1>5. LET a == Append(w, [k |-> e, v |-> v])
      IN  /\ a \in OrderedDicts(K, V)
          /\ Len(a) = Len(w) + 1
          /\ \A j \in 1 .. Len(w) : a[j] = w[j]
          /\ a[Len(w) + 1] = [k |-> e, v |-> v]
          /\ Range(a) = Range(w) \cup {[k |-> e, v |-> v]}
    BY <1>1, <1>3, <1>4, AppendElements
<1>6. MoveToEnd(d, e) = Append(w, x)
    BY DEF MoveToEnd, w, x
<1>7. Range(w) \cup {x} = Range(d)
    <2>1. \A y \in Range(d) : y.k = e => y = x
        BY <1>1, DictRange
    <2> QED BY <2>1, <1>1, <1>3
<1>8. Len(w) + 1 = Len(d)
    BY <1>3
<1> QED BY <1>2, <1>3, <1>5, <1>6, <1>7, <1>8 DEF x

\* The oldest entry goes.
LEMMA TailElements ==
    ASSUME NEW K, NEW V, NEW d \in OrderedDicts(K, V), Len(d) # 0
    PROVE  /\ Tail(d) \in OrderedDicts(K, V) /\ Len(Tail(d)) = Len(d) - 1
           /\ Head(d) = d[1] /\ Head(d).k \in K /\ Head(d).v \in V
           /\ Head(d).k \in Keys(d) /\ Keys(Tail(d)) = Keys(d) \ {Head(d).k}
<1> DEFINE n == Len(d)
           r == Tail(d)
<1>1. /\ n \in Nat /\ n # 0 /\ DOMAIN d = 1 .. n /\ d \in Seq(Entry(K, V))
      /\ 1 \in DOMAIN d /\ d[1].k \in K /\ d[1].v \in V
      /\ \A i, j \in DOMAIN d : d[i].k = d[j].k => i = j
    BY DictType
<1>2. d # <<>>
    BY <1>1, EmptySeq
<1>3. /\ r \in Seq(Entry(K, V)) /\ Len(r) = n - 1 /\ Head(d) = d[1]
      /\ \A i \in 1 .. n - 1 : r[i] = d[i + 1]
    BY <1>1, <1>2, HeadTailProperties
<1>4. DOMAIN r = 1 .. n - 1
    BY <1>3, LenProperties
<1> HIDE DEF r, n
<1>5. \A i, j \in DOMAIN r : r[i].k = r[j].k => i = j
    <2> SUFFICES ASSUME NEW i \in 1 .. n - 1, NEW j \in 1 .. n - 1, r[i].k = r[j].k
                 PROVE  i = j
        BY <1>4
    <2>1. i + 1 \in 1 .. n /\ j + 1 \in 1 .. n
        BY <1>1
    <2>2. r[i].k = d[i + 1].k /\ r[j].k = d[j + 1].k
        BY <1>3
    <2>3. \A p, q \in 1 .. n : d[p].k = d[q].k => p = q
        BY <1>1
    <2>4. i + 1 = j + 1
        BY <2>1, <2>2, <2>3
    <2> QED BY <2>4
<1>6. \A i \in DOMAIN r : \E p \in DOMAIN d : p # 1 /\ r[i].k = d[p].k
    <2> SUFFICES ASSUME NEW i \in 1 .. n - 1 PROVE i + 1 \in 1 .. n /\ i + 1 # 1
        BY <1>1, <1>3, <1>4
    <2> QED BY <1>1
<1>7. \A p \in DOMAIN d : p # 1 => \E i \in DOMAIN r : r[i].k = d[p].k
    <2> SUFFICES ASSUME NEW p \in 1 .. n, p # 1
                 PROVE  \E i \in 1 .. n - 1 : r[i].k = d[p].k
        BY <1>1, <1>4
    <2>1. p - 1 \in 1 .. n - 1 /\ (p - 1) + 1 = p
        BY <1>1
    <2>2. r[p - 1].k = d[p].k
        BY <2>1, <1>3
    <2> QED BY <2>1, <2>2
<1>8. r \in OrderedDicts(K, V) /\ Keys(r) = Keys(d) \ {d[1].k}
    <2>1. r \in OrderedDicts(K, V)
        BY <1>3, <1>5 DEF OrderedDicts
    <2>2. Keys(r) = Keys(d) \ {d[1].k}
        BY <1>1, <1>6, <1>7 DEF Keys
    <2> QED BY <2>1, <2>2
<1>9. d[1].k \in Keys(d)
    BY <1>1 DEF Keys
<1> QED BY <1>1, <1>3, <1>8, <1>9 DEF r, n

\* The keys that are left, one fewer.
LEMMA WithoutKeys ==
    ASSUME NEW K, NEW V, NEW d \in OrderedDicts(K, V), NEW e \in Keys(d)
    PROVE  /\ Without(d, e) \in OrderedDicts(K, V) /\ Len(Without(d, e)) = Len(d) - 1
           /\ Keys(Without(d, e)) = Keys(d) \ {e}
<1>1. /\ Without(d, e) \in OrderedDicts(K, V) /\ Len(Without(d, e)) = Len(d) - 1
      /\ Range(Without(d, e)) = {x \in Range(d) : x.k # e}
    BY WithoutElements
<1>2. Keys(d) = {x.k : x \in Range(d)} /\ Keys(Without(d, e)) = {x.k : x \in Range(Without(d, e))}
    BY <1>1, DictRange
<1> QED BY <1>1, <1>2

\* An assignment adds its key, or changes the value it has.
LEMMA PutElements ==
    ASSUME NEW K, NEW V, NEW d \in OrderedDicts(K, V), NEW e \in K, NEW v \in V
    PROVE  /\ Put(d, e, v) \in OrderedDicts(K, V)
           /\ Keys(Put(d, e, v)) = Keys(d) \cup {e}
           /\ Len(Put(d, e, v)) = IF e \in Keys(d) THEN Len(d) ELSE Len(d) + 1
<1>1. CASE e \in Keys(d)
    <2> DEFINE at == IndexOf(d, e)
               x == [k |-> e, v |-> v]
               p == [d EXCEPT ![at] = x]
    <2>1. /\ at \in DOMAIN d /\ d[at].k = e /\ DOMAIN d = 1 .. Len(d) /\ Len(d) \in Nat
          /\ d \in Seq(Entry(K, V)) /\ x \in Entry(K, V) /\ x.k = e
        BY <1>1, DictIndex, DictType DEF Entry
    <2> HIDE DEF at, x
    <2>2. p \in Seq(Entry(K, V)) /\ Len(p) = Len(d) /\ DOMAIN p = DOMAIN d
        BY <2>1, ExceptSeq, LenProperties
    <2>3. \A i \in DOMAIN d : p[i].k = d[i].k
        BY <2>1
    <2> HIDE DEF p
    <2>4. p \in OrderedDicts(K, V)
        BY <2>2, <2>3, DictType DEF OrderedDicts
    <2>5. Keys(p) = Keys(d)
        BY <2>2, <2>3 DEF Keys
    <2>6. Put(d, e, v) = p
        BY <1>1 DEF Put, p, x, at
    <2> QED BY <1>1, <2>2, <2>4, <2>5, <2>6
<1>2. CASE e \notin Keys(d)
    <2> DEFINE x == [k |-> e, v |-> v]
               a == Append(d, x)
    <2>1. /\ a \in OrderedDicts(K, V) /\ Len(a) = Len(d) + 1
          /\ Range(a) = Range(d) \cup {x} /\ x.k = e
        BY <1>2, AppendElements
    <2>2. Put(d, e, v) = a
        BY <1>2 DEF Put
    <2> HIDE DEF a, x
    <2>3. Keys(d) = {y.k : y \in Range(d)} /\ Keys(a) = {y.k : y \in Range(a)}
        BY <2>1, DictRange
    <2> QED BY <1>2, <2>1, <2>2, <2>3
<1> QED BY <1>1, <1>2

-----------------------------------------------------------------------------
(* The slot books.                                                         *)

Entries == Range(id2slot)

\* TypeOK and SlotMap of the slot books, stated on the entries.
Books ==
    /\ id2slot \in OrderedDicts(Experts, Slots)
    /\ slot_table \in [Experts -> Slots \cup {SENTINEL}]
    /\ free \in Seq(Slots)
    /\ \A e \in Experts \ Resident : slot_table[e] = SENTINEL
    /\ \A x \in Entries : slot_table[x.k] = x.v
    /\ \A x, y \in Entries : x.v = y.v => x = y
    /\ \A i, j \in DOMAIN free : free[i] = free[j] => i = j
    /\ \A s \in Slots : (s \in Range(free)) <=> ~\E x \in Entries : x.v = s

\* The two forms of the slot map say the same.
LEMMA BooksIsSlotMap ==
    ASSUME id2slot \in OrderedDicts(Experts, Slots),
           slot_table \in [Experts -> Slots \cup {SENTINEL}],
           free \in Seq(Slots)
    PROVE  Books <=> SlotMap
<1>1. \A i, j \in DOMAIN id2slot : id2slot[i] = id2slot[j] => i = j
    BY DictType
<1>2. \A x \in Entries : \E i \in DOMAIN id2slot : id2slot[i] = x
    BY DEF Entries, Range
<1>3. \A i \in DOMAIN id2slot : id2slot[i] \in Entries
    BY DEF Entries, Range
<1>4. (\A x \in Entries : slot_table[x.k] = x.v)
      <=> (\A i \in DOMAIN id2slot : slot_table[id2slot[i].k] = id2slot[i].v)
    BY <1>2, <1>3
<1>5. (\A x, y \in Entries : x.v = y.v => x = y)
      <=> (\A i, j \in DOMAIN id2slot : id2slot[i].v = id2slot[j].v => i = j)
    BY <1>1, <1>2, <1>3
<1>6. \A s \in Slots : (\E x \in Entries : x.v = s) <=> (\E i \in DOMAIN id2slot : id2slot[i].v = s)
    BY <1>2, <1>3
<1> QED BY <1>4, <1>5, <1>6 DEF Books, SlotMap

\* Popping the free stack.
LEMMA FrontLast ==
    ASSUME NEW S, NEW s \in Seq(S), s # <<>>,
           \A i, j \in DOMAIN s : s[i] = s[j] => i = j
    PROVE  /\ Last(s) \in S /\ Last(s) \in Range(s) /\ Front(s) \in Seq(S)
           /\ Range(Front(s)) = Range(s) \ {Last(s)}
           /\ \A i, j \in DOMAIN Front(s) : Front(s)[i] = Front(s)[j] => i = j
<1> DEFINE n == Len(s)
           f == Front(s)
<1>0. n \in Nat /\ n # 0
    BY LenProperties, EmptySeq
<1>1. DOMAIN s = 1 .. n /\ n \in 1 .. n
    BY <1>0, LenProperties
<1>2. \A i \in 1 .. n : s[i] \in S
    BY ElementOfSeq
<1>3. f \in Seq(S) /\ Len(f) = n - 1 /\ \A i \in 1 .. n - 1 : f[i] = s[i]
    <2>1. f = SubSeq(s, 1, n - 1) /\ \A i \in 1 .. n - 1 : s[i] \in S
        BY <1>0, <1>2 DEF Front
    <2> HIDE DEF f, n
    <2>2. /\ f \in Seq(S) /\ Len(f) = IF 1 <= n - 1 THEN n - 1 - 1 + 1 ELSE 0
          /\ \A i \in 1 .. n - 1 - 1 + 1 : f[i] = s[1 + i - 1]
        BY <1>0, <2>1, SubSeqProperties
    <2> QED BY <1>0, <2>2
<1>4. DOMAIN f = 1 .. n - 1
    BY <1>3, LenProperties
<1> HIDE DEF f, n
<1>5. Range(f) = Range(s) \ {s[n]}
    <2>1. ASSUME NEW x \in Range(f) PROVE x \in Range(s) \ {s[n]}
        <3>1. PICK i \in 1 .. n - 1 : f[i] = x
            BY <1>4 DEF Range
        <3>2. i \in 1 .. n /\ i # n
            BY <1>0
        <3> QED BY <3>1, <3>2, <1>1, <1>3 DEF Range
    <2>2. ASSUME NEW x \in Range(s) \ {s[n]} PROVE x \in Range(f)
        <3>1. PICK i \in 1 .. n : s[i] = x /\ i # n
            BY <1>1 DEF Range
        <3>2. i \in 1 .. n - 1
            BY <3>1, <1>0
        <3> QED BY <3>1, <3>2, <1>3, <1>4 DEF Range
    <2> QED BY <2>1, <2>2
<1>6. Last(s) = s[n]
    BY DEF Last, n
<1>7. \A i, j \in DOMAIN f : f[i] = f[j] => i = j
    <2>1. \A i \in 1 .. n - 1 : i \in 1 .. n
        BY <1>0
    <2> QED BY <2>1, <1>1, <1>3, <1>4
<1>8. s[n] \in Range(s)
    BY <1>1 DEF Range
<1> QED BY <1>1, <1>2, <1>3, <1>5, <1>6, <1>7, <1>8 DEF f

-----------------------------------------------------------------------------
(* Reordering id2slot: the books keep their entries.                       *)
LEMMA MovedBooks ==
    ASSUME Books, NEW e \in Resident,
           id2slot' = MoveToEnd(id2slot, e) \/ id2slot' = id2slot,
           UNCHANGED <<slot_table, free>>
    PROVE  Books' /\ Entries' = Entries /\ Resident' = Resident
<1>1. id2slot' \in OrderedDicts(Experts, Slots) /\ Entries' = Entries
    <2>1. CASE id2slot' = MoveToEnd(id2slot, e)
        BY <2>1, MoveToEndElements DEF Books, Resident, Entries
    <2>2. CASE id2slot' = id2slot
        BY <2>2 DEF Books, Entries
    <2> QED BY <2>1, <2>2
<1>2. Resident' = Resident
    <2>1. Resident' = {x.k : x \in Range(id2slot')}
        BY <1>1, DictRange DEF Resident
    <2>2. Resident = {x.k : x \in Range(id2slot)}
        BY DictRange DEF Books, Resident
    <2> QED BY <1>1, <2>1, <2>2 DEF Entries
<1> QED BY <1>1, <1>2 DEF Books

(* A hit is one.                                                           *)
LEMMA HitBooks ==
    ASSUME Books, NEW e \in Resident, PolicyHit(e)
    PROVE  Books' /\ Entries' = Entries /\ Resident' = Resident
BY MovedBooks DEF PolicyHit

(* Binding to a free slot adds one entry.                                  *)
LEMMA BindFreeBooks ==
    ASSUME Books, NEW e \in Experts, e \notin Resident, BindFree(e)
    PROVE  /\ Books'
           /\ Entries' = Entries \cup {[k |-> e, v |-> Get(id2slot', e)]}
           /\ Resident' = Resident \cup {e}
           /\ \A x \in Entries : x.k # e
<1> DEFINE s == Last(free)
           x0 == [k |-> e, v |-> s]
<1>1. /\ s \in Slots /\ s \in Range(free) /\ free' \in Seq(Slots)
      /\ Range(free') = Range(free) \ {s}
      /\ \A i, j \in DOMAIN free' : free'[i] = free'[j] => i = j
    BY FrontLast DEF Books, BindFree
<1> HIDE DEF s
<1>2. id2slot' \in OrderedDicts(Experts, Slots) /\ Entries' = Entries \cup {x0}
    <2>1. id2slot' = Append(id2slot, x0)
        BY DEF BindFree, s
    <2> QED BY <2>1, <1>1, AppendElements DEF Books, Resident, Entries
<1>3. Resident = {x.k : x \in Entries} /\ Resident' = {x.k : x \in Entries'}
    <2>1. Keys(id2slot) = {x.k : x \in Range(id2slot)}
        BY DictRange DEF Books
    <2>2. Keys(id2slot') = {x.k : x \in Range(id2slot')}
        BY <1>2, DictRange
    <2> QED BY <2>1, <2>2 DEF Resident, Entries
<1>4. Get(id2slot', e) = s
    <2>1. x0 \in Range(id2slot') /\ x0.k = e /\ x0.v = s
        BY <1>2 DEF Entries
    <2> QED BY <2>1, <1>2, DictRange
<1>5. \A x \in Entries : x.k # e /\ x.v # s
    BY <1>1, <1>3 DEF Books
<1>6. slot_table' = [slot_table EXCEPT ![e] = s]
    BY DEF BindFree, s
<1>7. x0.k = e /\ x0.v = s
    OBVIOUS
<1> HIDE DEF x0
<1>8. Resident' = Resident \cup {e}
    BY <1>2, <1>3, <1>7
<1>9. \A x \in Entries : x.k \in Experts
    BY <1>3, DictIndex DEF Books, Resident
<1>10. Books'
    <2>1. slot_table' \in [Experts -> Slots \cup {SENTINEL}]
        BY <1>1, <1>6 DEF Books
    <2>2. \A f \in Experts \ Resident' : slot_table'[f] = SENTINEL
        BY <1>6, <1>8 DEF Books
    <2>3. \A x \in Entries' : slot_table'[x.k] = x.v
        BY <1>2, <1>5, <1>6, <1>7, <1>9 DEF Books
    <2>4. \A x, y \in Entries' : x.v = y.v => x = y
        BY <1>2, <1>5, <1>7 DEF Books
    <2>5. \A t \in Slots : (t \in Range(free')) <=> ~\E x \in Entries' : x.v = t
        <3> TAKE t \in Slots
        <3>1. (\E x \in Entries' : x.v = t) <=> ((\E x \in Entries : x.v = t) \/ t = s)
            BY <1>2, <1>7
        <3>2. (t \in Range(free)) <=> ~\E x \in Entries : x.v = t
            BY DEF Books
        <3>4. CASE t = s
            <4>1. t \notin Range(free') /\ \E x \in Entries' : x.v = t
                BY <3>1, <3>4, <1>1
            <4> QED BY <4>1
        <3>5. CASE t # s
            <4>1. t \in Range(free') <=> t \in Range(free)
                BY <3>5, <1>1
            <4>2. (\E x \in Entries' : x.v = t) <=> (\E x \in Entries : x.v = t)
                BY <3>1, <3>5
            <4> QED BY <3>2, <4>1, <4>2
        <3> QED BY <3>4, <3>5
    <2> QED BY <2>1, <2>2, <2>3, <2>4, <2>5, <1>1, <1>2 DEF Books
<1> QED BY <1>2, <1>4, <1>5, <1>8, <1>10 DEF x0

(* Binding to a victim's slot replaces the victim's entry.                 *)
LEMMA BindOverBooks ==
    ASSUME Books, NEW victim, NEW e \in Experts, e \notin Resident, BindOver(victim, e)
    PROVE  /\ Books'
           /\ Entries' = {x \in Entries : x.k # victim} \cup {[k |-> e, v |-> Get(id2slot', e)]}
           /\ Resident' = (Resident \ {victim}) \cup {e}
           /\ \A x \in Entries : x.k # e
<1> DEFINE s == Get(id2slot, victim)
           x0 == [k |-> e, v |-> s]
           w == Without(id2slot, victim)
<1>1. /\ victim \in Resident /\ victim \in Experts /\ s \in Slots
      /\ id2slot' = Append(w, x0)
      /\ slot_table' = [slot_table EXCEPT ![victim] = SENTINEL, ![e] = s]
      /\ free' = free
    BY DictIndex DEF Books, BindOver, Resident
<1>2. w \in OrderedDicts(Experts, Slots) /\ Range(w) = {x \in Entries : x.k # victim}
    BY <1>1, WithoutElements DEF Books, Resident, Entries
<1>3. Resident = {x.k : x \in Entries} /\ [k |-> victim, v |-> s] \in Entries
    BY <1>1, DictRange DEF Books, Resident, Entries
<1>4. e \notin Keys(w)
    <2>1. Keys(w) = {x.k : x \in Range(w)}
        BY <1>2, DictRange
    <2> QED BY <2>1, <1>2, <1>3
<1> HIDE DEF s, w
<1>5. id2slot' \in OrderedDicts(Experts, Slots) /\ Entries' = Range(w) \cup {x0}
    BY <1>1, <1>2, <1>4, AppendElements DEF Entries
<1>6. Resident' = {x.k : x \in Entries'}
    BY <1>5, DictRange DEF Resident, Entries
<1>7. x0.k = e /\ x0.v = s
    OBVIOUS
<1>8. Get(id2slot', e) = s
    <2>1. x0 \in Range(id2slot')
        BY <1>5 DEF Entries
    <2> QED BY <2>1, <1>5, <1>7, DictRange
<1>9. \A x \in Entries : x.k # e /\ x.k \in Experts /\ (x.v = s <=> x.k = victim)
    <2>1. DEFINE y == [k |-> victim, v |-> s]
    <2>2. y.k = victim /\ y.v = s
        OBVIOUS
    <2> HIDE DEF y
    <2>3. y \in Entries
        BY <1>3 DEF y
    <2>4. \A x \in Entries : (x.v = s <=> x = y) /\ (x.k = victim <=> x = y)
        BY <2>2, <2>3, DictRange DEF Books, Entries
    <2>5. \A x \in Entries : x.k \in Experts
        BY <1>3, DictIndex DEF Books, Resident
    <2> QED BY <2>4, <2>5, <1>3
<1>10. Resident' = (Resident \ {victim}) \cup {e}
    <2> HIDE DEF x0
    <2> QED BY <1>2, <1>3, <1>5, <1>6, <1>7
<1>11. Books'
    <2> HIDE DEF x0
    <2>1. slot_table' \in [Experts -> Slots \cup {SENTINEL}]
        BY <1>1 DEF Books
    <2>2. \A f \in Experts \ Resident' : slot_table'[f] = SENTINEL
        BY <1>1, <1>10 DEF Books
    <2>3. \A x \in Entries' : slot_table'[x.k] = x.v
        <3>1. slot_table'[e] = s
            BY <1>1 DEF Books
        <3>2. \A x \in Range(w) : slot_table'[x.k] = x.v
            BY <1>1, <1>2, <1>9 DEF Books
        <3> QED BY <3>1, <3>2, <1>5, <1>7
    <2>4. \A x, y \in Entries' : x.v = y.v => x = y
        BY <1>2, <1>5, <1>7, <1>9 DEF Books
    <2>5. \A t \in Slots : (\E x \in Entries' : x.v = t) <=> \E x \in Entries : x.v = t
        <3> TAKE t \in Slots
        <3>1. CASE t = s
            BY <3>1, <1>3, <1>5, <1>7
        <3>2. CASE t # s
            BY <3>2, <1>2, <1>5, <1>7, <1>9
        <3> QED BY <3>1, <3>2
    <2> QED BY <2>1, <2>2, <2>3, <2>4, <2>5, <1>1, <1>5 DEF Books
<1> QED BY <1>2, <1>5, <1>8, <1>9, <1>10, <1>11 DEF x0

(* Either way: e gets one entry, at most one other entry goes.             *)
LEMMA TakeBooks ==
    ASSUME Books, NEW e \in Experts, e \notin Resident, TakeSlotFor(e)
    PROVE  /\ Books' /\ e \in Resident' /\ Resident' \subseteq Resident \cup {e}
           /\ Entries' = {x \in Entries : x.k \in Resident'} \cup {[k |-> e, v |-> Get(id2slot', e)]}
           /\ \A x \in Entries : x.k # e
<1>1. Resident = {x.k : x \in Entries}
    BY DictRange DEF Books, Resident, Entries
<1>2. CASE BindFree(e)
    BY <1>1, <1>2, BindFreeBooks
<1>3. ASSUME NEW victim, BindOver(victim, e)
      PROVE  /\ Books' /\ e \in Resident' /\ Resident' \subseteq Resident \cup {e}
             /\ Entries' = {x \in Entries : x.k \in Resident'} \cup {[k |-> e, v |-> Get(id2slot', e)]}
             /\ \A x \in Entries : x.k # e
    <2>1. /\ Books'
          /\ Entries' = {x \in Entries : x.k # victim} \cup {[k |-> e, v |-> Get(id2slot', e)]}
          /\ Resident' = (Resident \ {victim}) \cup {e}
          /\ \A x \in Entries : x.k # e
        BY <1>3, BindOverBooks
    <2>2. \A x \in Entries : x.k # victim <=> x.k \in Resident'
        BY <2>1, <1>1
    <2> QED BY <2>1, <2>2
<1> QED BY <1>2, <1>3 DEF TakeSlotFor

LEMMA AdoptBooks ==
    ASSUME Books, NEW e \in Experts, Adopt(e)
    PROVE  Books' /\ (rows \in [Slots -> Experts \cup {Zeros}] => rows' \in [Slots -> Experts \cup {Zeros}])
<1>1. CASE e \in Resident /\ PolicyHit(e)
    BY <1>1, HitBooks DEF Adopt
<1>2. CASE e \notin Resident /\ TakeSlotFor(e)
    BY <1>2, TakeBooks DEF Adopt
<1> QED BY <1>1, <1>2 DEF Adopt

LEMMA BooksUnchanged ==
    ASSUME Books, UNCHANGED <<id2slot, slot_table, free>>
    PROVE  Books' /\ Entries' = Entries /\ Resident' = Resident
BY DEF Books, Entries, Resident

-----------------------------------------------------------------------------
(* The slot books are sound at every step of every call, whatever the      *)
(* policy, and whether or not reads raise.                                 *)

\* move_to_end is only asked for keys that are there.
TodoHeld == pc \in {"touch", "retouch"} => todo \subseteq Resident

TypeInv == TypeOK /\ Books /\ TodoHeld

LEMMA TypeInvInit == Init => TypeInv
<1> SUFFICES ASSUME Init PROVE TypeInv
    OBVIOUS
<1>1. NSlots \in Nat /\ NSlots >= 1
    BY NSlotsAssumption, ExpertsAssumption, FS_CardinalityType
<1>2. /\ free \in Seq(Slots) /\ DOMAIN free = 1 .. NSlots
      /\ \A i \in 1 .. NSlots : free[i] = i - 1
    <2>1. \A i \in 1 .. NSlots : i - 1 \in Slots
        BY <1>1 DEF Slots
    <2>2. free \in Seq(Slots)
        BY <1>1, <2>1, IsASeq DEF Init
    <2> QED BY <2>2 DEF Init
<1>3. Slots \subseteq Range(free)
    <2> SUFFICES ASSUME NEW s \in Slots PROVE s \in Range(free)
        OBVIOUS
    <2>1. s + 1 \in 1 .. NSlots /\ (s + 1) - 1 = s
        BY <1>1 DEF Slots
    <2> QED BY <2>1, <1>2 DEF Range
<1>4. id2slot \in OrderedDicts(Experts, Slots) /\ Resident = {} /\ Entries = {}
    <2>1. id2slot = <<>> /\ DOMAIN id2slot = {}
        BY DEF Init
    <2> QED BY <2>1, EmptySeq DEF OrderedDicts, Resident, Keys, Entries, Range
<1>5. Books
    BY <1>1, <1>2, <1>3, <1>4 DEF Books, Init
<1>6. TypeOK
    BY <1>2, <1>4 DEF TypeOK, Init, Rest
<1>7. TodoHeld
    BY DEF TodoHeld, Init
<1> QED BY <1>5, <1>6, <1>7 DEF TypeInv

LEMMA TypeInvStep == TypeInv /\ [Next]_vars => TypeInv'
<1> SUFFICES ASSUME TypeInv, [Next]_vars PROVE TypeInv'
    OBVIOUS
<1> USE DEF TypeInv, TypeOK, Rest, TodoHeld
<1>1. ASSUME Books', rows' \in [Slots -> Experts \cup {Zeros}], pf' \subseteq Experts,
             todo' \subseteq routed', routed' \subseteq Experts, missing' \in Seq(Experts),
             pc' \in Rest \cup {"absorb", "touch", "bind", "fetch", "sweep", "retouch"},
             TodoHeld'
      PROVE  TypeInv'
    BY <1>1 DEF Books
<1>2. UNCHANGED <<id2slot, slot_table, free>> => Books' /\ Resident' = Resident
    BY BooksUnchanged
<1>3. Raises => /\ todo' \subseteq routed' /\ routed' \subseteq Experts
                /\ missing' \in Seq(Experts) /\ pc' = "raised"
    BY EmptySeq DEF Raises
<1>4. \A ids, work, where : Begin(ids, where, work) =>
          pc' = where /\ todo' = work /\ routed' = ids /\ missing' \in Seq(Experts)
    BY EmptySeq DEF Begin
<1>5. \A e \in Experts : PolicyHit(e) /\ e \in Resident => Books' /\ Resident' = Resident
    BY HitBooks
<1>6. \A e \in Experts : TakeSlotFor(e) /\ e \notin Resident => Books'
    BY TakeBooks
<1>7. \A e \in Experts : TakeSlotRaises(e) => Books'
    BY <1>2 DEF TakeSlotRaises
<1>8. \A ids \in SUBSET Experts : Written(ids) \in [Slots -> Experts \cup {Zeros}]
    <2> SUFFICES ASSUME NEW ids \in SUBSET Experts, NEW s \in Slots
                 PROVE  Written(ids)[s] \in Experts \cup {Zeros}
        BY DEF Written
    <2>1. CASE \E e \in ids : e \in Resident /\ Get(id2slot, e) = s
        BY <2>1 DEF Written
    <2>2. CASE ~\E e \in ids : e \in Resident /\ Get(id2slot, e) = s
        BY <2>2 DEF Written
    <2> QED BY <2>1, <2>2
<1>9. CASE PrefetchStart
    BY <1>1, <1>2, <1>9 DEF PrefetchStart, poolVars, callVars
<1>10. CASE CallDecode
    BY <1>1, <1>2, <1>4, <1>10 DEF CallDecode, poolVars
<1>11. CASE CallPrefill
    BY <1>1, <1>2, <1>4, <1>11 DEF CallPrefill, poolVars
<1>12. CASE SweepStart
    BY <1>1, <1>2, <1>4, <1>12 DEF SweepStart, poolVars
<1>13. CASE AbsorbStep
    <2> PICK e \in todo :
          \/ /\ Adopt(e)
             /\ todo' = todo \ {e}
             /\ UNCHANGED <<pf, pc, missing, routed, out>>
          \/ e \notin Resident /\ TakeSlotRaises(e) /\ Raises /\ UNCHANGED <<rows, pf>>
        BY <1>13 DEF AbsorbStep
    <2>1. pc = "absorb"
        BY <1>13 DEF AbsorbStep
    <2> QED BY <1>1, <1>3, <1>7, <2>1, AdoptBooks
<1>14. CASE AbsorbDone
    BY <1>1, <1>2, <1>14 DEF AbsorbDone, poolVars
<1>15. CASE TouchStep
    <2> PICK e \in todo : PolicyHit(e) /\ todo' = todo \ {e}
        BY <1>15 DEF TouchStep
    <2> QED BY <1>1, <1>5, <1>15 DEF TouchStep
<1>16. CASE DispatchHits
    BY <1>1, <1>2, <1>16 DEF DispatchHits, poolVars
<1>17. CASE BindStep
    <2>1. pc = "bind" /\ UNCHANGED <<rows, pf>>
        BY <1>17 DEF BindStep
    <2> PICK e \in todo :
          \/ /\ e \in Resident /\ PolicyHit(e)
             /\ todo' = todo \ {e}
             /\ UNCHANGED <<pc, missing, routed, out>>
          \/ /\ e \notin Resident /\ TakeSlotFor(e)
             /\ todo' = todo \ {e} /\ missing' = Append(missing, e)
             /\ UNCHANGED <<pc, routed, out>>
          \/ e \notin Resident /\ TakeSlotRaises(e) /\ Raises
        BY <1>17 DEF BindStep
    <2>2. Append(missing, e) \in Seq(Experts)
        BY AppendProperties
    <2> QED BY <1>1, <1>3, <1>5, <1>6, <1>7, <2>1, <2>2
<1>18. CASE BindDone
    BY <1>1, <1>2, <1>18 DEF BindDone, poolVars
<1>19. Range(missing) \in SUBSET Experts
    BY RangeOfSeq
<1>20. CASE Fetch
    BY <1>1, <1>2, <1>8, <1>19, <1>20, EmptySeq DEF Fetch, poolVars
<1>21. CASE FetchUnmapped
    <2> DEFINE before == {missing[i] : i \in
                  {i \in DOMAIN missing : \A j \in 1 .. i : missing[j] \in Resident}}
    <2>1. before \in SUBSET Experts
        BY ElementOfSeq, LenProperties
    <2>2. rows' = Written(before)
        BY <1>21 DEF FetchUnmapped
    <2> HIDE DEF before
    <2> QED BY <1>1, <1>2, <1>3, <1>8, <1>21, <2>1, <2>2 DEF FetchUnmapped, poolVars
<1>22. CASE FetchRaises
    BY <1>1, <1>2, <1>3, <1>22 DEF FetchRaises, poolVars
<1>23. CASE SweepAdopt
    <2>1. pc = "sweep" /\ UNCHANGED pf
        BY <1>23 DEF SweepAdopt
    <2> PICK e \in todo :
          \/ /\ Adopt(e)
             /\ todo' = todo \ {e}
             /\ UNCHANGED <<pc, missing, routed, out>>
          \/ e \notin Resident /\ TakeSlotRaises(e) /\ Raises /\ UNCHANGED rows
        BY <1>23 DEF SweepAdopt
    <2> QED BY <1>1, <1>3, <1>7, <2>1, AdoptBooks
<1>24. CASE SweepRaises
    BY <1>1, <1>2, <1>3, <1>24 DEF SweepRaises, poolVars
<1>25. CASE SweepRetouch
    BY <1>1, <1>2, <1>25 DEF SweepRetouch, poolVars
<1>26. CASE RetouchStep
    <2> PICK e \in todo : id2slot' = MoveToEnd(id2slot, e) /\ todo' = todo \ {e}
        BY <1>26 DEF RetouchStep
    <2>1. Books' /\ Resident' = Resident
        <3>1. e \in Resident /\ UNCHANGED <<slot_table, free>>
            BY <1>26 DEF RetouchStep
        <3> QED BY <3>1, MovedBooks
    <2> QED BY <1>1, <1>26, <2>1 DEF RetouchStep
<1>27. CASE SweepDone
    BY <1>1, <1>2, <1>27 DEF SweepDone, poolVars
<1>28. CASE UNCHANGED vars
    BY <1>1, <1>2, <1>28 DEF vars
<1> QED BY <1>9, <1>10, <1>11, <1>12, <1>13, <1>14, <1>15, <1>16, <1>17, <1>18, <1>20, <1>21,
           <1>22, <1>23, <1>24, <1>25, <1>26, <1>27, <1>28 DEF Next, Step

\* The slot books are sound and every variable keeps its type, at every step
\* of every call, under either policy and whether or not reads raise: what
\* ensure(), adopt(), the prefetch and the sweep do to id2slot, slot_table
\* and free leaves each slot free once or held by one expert.
THEOREM SlotMapAlways == Spec => [](TypeOK /\ SlotMap)
<1>1. TypeInv => TypeOK /\ SlotMap
    BY BooksIsSlotMap DEF TypeInv, TypeOK
<1> QED BY TypeInvInit, TypeInvStep, <1>1, PTL DEF Spec

-----------------------------------------------------------------------------
(* s3fifo's queues.                                                        *)

\* The experts a queue can evict.
Queued(q) == Keys(q.small) \cup Keys(q.main)

\* The queues are dictionaries within their capacities.
QueuesOK(q) ==
    /\ q = [small |-> q.small, main |-> q.main, ghost |-> q.ghost]
    /\ q.small \in OrderedDicts(Experts, Nat) /\ q.main \in OrderedDicts(Experts, Nat)
    /\ q.ghost \in OrderedDicts(Experts, BOOLEAN)
    /\ Len(q.small) <= NSmall /\ Len(q.main) <= NMain /\ Len(q.ghost) <= NMain

\* The queues and the residents R belong together.  With one slot the two
\* queues have room for two experts, and a call that raises leaves one behind.
Tracking(q, R) ==
    /\ R \subseteq Queued(q) /\ Keys(q.ghost) \cap R = {}
    /\ NSlots >= 2 => Queued(q) \subseteq R /\ Keys(q.small) \cap Keys(q.main) = {}

S3Inv == TypeInv /\ QueuesOK(queues) /\ Tracking(queues, Resident)

LEMMA LeastOf ==
    ASSUME NEW T \in SUBSET Nat, T # {}
    PROVE  Min(T) \in T /\ \A y \in T : Min(T) <= y
BY LeastNatural DEF Min

\* The capacities add up to the slots, unless there is one slot only.
LEMMA Capacities ==
    /\ NSlots \in Nat /\ NSlots >= 1
    /\ NSmall \in Nat /\ NSmall >= 1 /\ NMain \in Nat /\ NMain >= 1
    /\ NSlots >= 2 => NSmall + NMain = NSlots
<1>1. NSlots \in Nat /\ NSlots >= 1
    BY NSlotsAssumption, ExpertsAssumption, FS_CardinalityType
<1>2. \A a \in Int : Max({1, a}) = IF a >= 1 THEN a ELSE 1
    <2> SUFFICES ASSUME NEW a \in Int PROVE Max({1, a}) = IF a >= 1 THEN a ELSE 1
        OBVIOUS
    <2>1. \E x \in {1, a} : \A y \in {1, a} : x >= y
        OBVIOUS
    <2>2. Max({1, a}) \in {1, a} /\ \A y \in {1, a} : Max({1, a}) >= y
        BY <2>1 DEF Max
    <2> QED BY <2>2
<1>3. NSlots \div 10 \in Nat /\ 10 * (NSlots \div 10) <= NSlots
    BY <1>1
<1>4. NSmall = IF NSlots \div 10 >= 1 THEN NSlots \div 10 ELSE 1
    BY <1>2, <1>3 DEF NSmall
<1>5. NSmall \in Nat /\ NSmall >= 1 /\ (NSlots >= 2 => NSmall <= NSlots - 1)
    BY <1>1, <1>3, <1>4
<1>6. NMain = IF NSlots - NSmall >= 1 THEN NSlots - NSmall ELSE 1
    BY <1>1, <1>2, <1>5 DEF NMain
<1> QED BY <1>1, <1>5, <1>6

\* _s3_evict_main pops one expert and keeps the others.
LEMMA EvictMain ==
    ASSUME NEW main \in OrderedDicts(Experts, Nat), Len(main) # 0
    PROVE  LET ev == S3EvictMain(main)
           IN  /\ ev.victim \in Keys(main)
               /\ ev.rest \in OrderedDicts(Experts, Nat) /\ Len(ev.rest) = Len(main) - 1
               /\ Keys(ev.rest) = Keys(main) \ {ev.victim}
<1> DEFINE n == Len(main)
           low == Min({main[i].v : i \in DOMAIN main})
           at == Min({i \in DOMAIN main : main[i].v = low})
           aged(i, by) == [k |-> main[i].k, v |-> main[i].v - by]
           a == [i \in 1 .. n - at |-> aged(at + i, low)]
           b == [i \in 1 .. at - 1 |-> aged(i, low + 1)]
           r == a \o b
           from(i) == IF i <= n - at THEN at + i ELSE i - (n - at)
           E == Entry(Experts, Nat)
<1>1. /\ n \in Nat /\ n # 0 /\ DOMAIN main = 1 .. n /\ 1 \in 1 .. n
      /\ \A i \in 1 .. n : main[i].k \in Experts /\ main[i].v \in Nat
      /\ \A i, j \in 1 .. n : main[i].k = main[j].k => i = j
    BY DictType
<1>2. low \in Nat /\ (\E i \in 1 .. n : main[i].v = low) /\ \A i \in 1 .. n : low <= main[i].v
    <2> DEFINE T == {main[i].v : i \in DOMAIN main}
    <2>1. T \in SUBSET Nat /\ T # {}
        BY <1>1
    <2>2. Min(T) \in T /\ \A y \in T : Min(T) <= y
        BY <2>1, LeastOf
    <2> HIDE DEF T
    <2>3. low = Min(T)
        BY DEF T
    <2> HIDE DEF low
    <2>4. low \in Nat /\ low \in T /\ \A y \in T : low <= y
        BY <2>1, <2>2, <2>3
    <2>5. T = {main[i].v : i \in 1 .. n}
        BY <1>1 DEF T
    <2> QED BY <2>4, <2>5
<1> HIDE DEF low
<1>3. at \in 1 .. n /\ \A i \in 1 .. at - 1 : i \in 1 .. n /\ main[i].v # low
    <2> DEFINE T == {i \in DOMAIN main : main[i].v = low}
    <2>1. T \in SUBSET Nat /\ T # {}
        BY <1>1, <1>2
    <2>2. Min(T) \in T /\ \A y \in T : Min(T) <= y
        BY <2>1, LeastOf
    <2> HIDE DEF T
    <2>3. at = Min(T)
        BY DEF T
    <2> HIDE DEF at
    <2>4. T = {i \in 1 .. n : main[i].v = low}
        BY <1>1 DEF T
    <2>5. at \in 1 .. n
        BY <2>2, <2>3, <2>4
    <2>6. ASSUME NEW i \in 1 .. at - 1 PROVE i \in 1 .. n /\ main[i].v # low
        <3>1. i \in 1 .. n /\ ~(at <= i)
            BY <1>1, <2>5
        <3> QED BY <3>1, <2>2, <2>3, <2>4
    <2> QED BY <2>5, <2>6
<1> HIDE DEF at
<1>4. a \in Seq(E) /\ Len(a) = n - at /\ \A i \in 1 .. n - at : a[i].k = main[at + i].k
    <2>1. n - at \in Nat /\ \A i \in 1 .. n - at : at + i \in 1 .. n
        BY <1>1, <1>3
    <2>2. \A i \in 1 .. n - at : aged(at + i, low) \in E
        BY <1>1, <1>2, <2>1 DEF Entry
    <2>3. \A i \in 1 .. n - at : a[i] = aged(at + i, low)
        OBVIOUS
    <2>4. \A i \in 1 .. n - at : aged(at + i, low).k = main[at + i].k
        OBVIOUS
    <2> QED BY <2>1, <2>2, <2>3, <2>4, IsASeq
<1>5. b \in Seq(E) /\ Len(b) = at - 1 /\ \A i \in 1 .. at - 1 : b[i].k = main[i].k
    <2>1. at - 1 \in Nat
        BY <1>1, <1>3
    <2>2. \A i \in 1 .. at - 1 : aged(i, low + 1) \in E
        <3> SUFFICES ASSUME NEW i \in 1 .. at - 1 PROVE aged(i, low + 1) \in E
            OBVIOUS
        <3>1. i \in 1 .. n /\ main[i].v \in Nat /\ main[i].v - (low + 1) \in Nat /\ main[i].k \in Experts
            BY <1>1, <1>2, <1>3
        <3> QED BY <3>1 DEF Entry
    <2>3. \A i \in 1 .. at - 1 : b[i] = aged(i, low + 1)
        OBVIOUS
    <2>4. \A i \in 1 .. at - 1 : aged(i, low + 1).k = main[i].k
        OBVIOUS
    <2> QED BY <2>1, <2>2, <2>3, <2>4, IsASeq
<1> HIDE DEF a, b, aged, E
<1>6. /\ r \in Seq(E) /\ Len(r) = n - 1
      /\ \A i \in 1 .. n - 1 : from(i) \in 1 .. n /\ from(i) # at /\ r[i].k = main[from(i)].k
    <2>1. /\ r \in Seq(E) /\ Len(r) = Len(a) + Len(b)
          /\ \A i \in 1 .. Len(a) + Len(b) : r[i] = IF i <= Len(a) THEN a[i] ELSE b[i - Len(a)]
        BY <1>4, <1>5, ConcatProperties
    <2>2. Len(a) + Len(b) = n - 1
        BY <1>1, <1>3, <1>4, <1>5
    <2> HIDE DEF r
    <2>3. ASSUME NEW i \in 1 .. n - 1 PROVE from(i) \in 1 .. n /\ from(i) # at /\ r[i].k = main[from(i)].k
        <3>1. CASE i <= n - at
            <4>1. i \in 1 .. n - at /\ r[i] = a[i] /\ from(i) = at + i
                BY <1>1, <1>3, <1>4, <2>1, <2>2, <3>1
            <4> QED BY <4>1, <1>1, <1>3, <1>4
        <3>2. CASE ~(i <= n - at)
            <4>1. i - (n - at) \in 1 .. at - 1 /\ r[i] = b[i - (n - at)] /\ from(i) = i - (n - at)
                BY <1>1, <1>3, <1>4, <2>1, <2>2, <3>2
            <4> QED BY <4>1, <1>1, <1>3, <1>5
        <3> QED BY <3>1, <3>2
    <2> QED BY <2>1, <2>2, <2>3
<1>7. \A p \in 1 .. n : p # at => \E i \in 1 .. n - 1 : from(i) = p
    <2> SUFFICES ASSUME NEW p \in 1 .. n, p # at PROVE \E i \in 1 .. n - 1 : from(i) = p
        OBVIOUS
    <2>1. CASE p > at
        <3>1. p - at \in 1 .. n - 1 /\ from(p - at) = p
            BY <1>1, <1>3, <2>1
        <3> QED BY <3>1
    <2>2. CASE p < at
        <3>1. p + (n - at) \in 1 .. n - 1 /\ from(p + (n - at)) = p
            BY <1>1, <1>3, <2>2
        <3> QED BY <3>1
    <2> QED BY <1>3, <2>1, <2>2
<1>8. \A i, j \in 1 .. n - 1 : from(i) = from(j) => i = j
    BY <1>1, <1>3
<1> HIDE DEF r, from
<1>9. DOMAIN r = 1 .. n - 1
    BY <1>6, LenProperties
<1>10. r \in OrderedDicts(Experts, Nat)
    <2>1. ASSUME NEW i \in 1 .. n - 1, NEW j \in 1 .. n - 1, r[i].k = r[j].k PROVE i = j
        <3>1. from(i) = from(j)
            BY <1>1, <1>6, <2>1
        <3> QED BY <3>1, <1>8
    <2> QED BY <1>6, <1>9, <2>1 DEF OrderedDicts, E
<1>11. Keys(r) = Keys(main) \ {main[at].k}
    <2>1. Keys(r) = {r[i].k : i \in 1 .. n - 1} /\ Keys(main) = {main[i].k : i \in 1 .. n}
        BY <1>1, <1>9 DEF Keys
    <2>2. \A p \in 1 .. n : main[p].k = main[at].k => p = at
        BY <1>1, <1>3
    <2>3. ASSUME NEW x \in Keys(r) PROVE x \in Keys(main) \ {main[at].k}
        BY <1>6, <2>1, <2>2
    <2>4. ASSUME NEW x \in Keys(main) \ {main[at].k} PROVE x \in Keys(r)
        <3>1. PICK p \in 1 .. n : x = main[p].k /\ p # at
            BY <2>1, <2>4
        <3>2. PICK i \in 1 .. n - 1 : from(i) = p
            BY <1>7, <3>1
        <3>3. x = r[i].k
            BY <1>6, <3>1, <3>2
        <3> QED BY <2>1, <3>3
    <2> QED BY <2>3, <2>4
<1>12. main[at].k \in Keys(main)
    BY <1>1, <1>3 DEF Keys
<1>13. S3EvictMain(main) = [victim |-> main[at].k, rest |-> r]
    BY DEF S3EvictMain, r, a, b, aged, at, low, n
<1> QED BY <1>6, <1>10, <1>11, <1>12, <1>13

\* Main makes room by losing one expert, where it is full.
LEMMA MainRoom ==
    ASSUME NEW main \in OrderedDicts(Experts, Nat), Len(main) <= NMain
    PROVE  LET room == S3MainRoom(main)
           IN  /\ room.rest \in OrderedDicts(Experts, Nat) /\ Len(room.rest) < NMain
               /\ \/ room.victim = None /\ room.rest = main
                  \/ /\ room.victim \in Keys(main)
                     /\ Keys(room.rest) = Keys(main) \ {room.victim}
<1>1. Len(main) \in Nat /\ NMain \in Nat /\ NMain >= 1
    BY DictType, Capacities
<1>2. CASE Len(main) >= NMain
    <2> DEFINE ev == S3EvictMain(main)
    <2>1. Len(main) # 0
        BY <1>1, <1>2
    <2>2. /\ ev.victim \in Keys(main)
          /\ ev.rest \in OrderedDicts(Experts, Nat) /\ Len(ev.rest) = Len(main) - 1
          /\ Keys(ev.rest) = Keys(main) \ {ev.victim}
        BY <2>1, EvictMain
    <2>3. S3MainRoom(main) = ev
        BY <1>2 DEF S3MainRoom
    <2> HIDE DEF ev
    <2> QED BY <1>1, <2>2, <2>3
<1>3. CASE ~(Len(main) >= NMain)
    <2>1. S3MainRoom(main) = [victim |-> None, rest |-> main]
        BY <1>3 DEF S3MainRoom
    <2> QED BY <1>1, <1>3, <2>1
<1> QED BY <1>2, <1>3

\* What _s3_insert does to the queues: e is in one of them, the victim left
\* one of them, and everything else stays.
Inserted(q, e, ins) ==
    /\ QueuesOK(ins.q) /\ e \in Queued(ins.q)
    /\ ins.victim = None \/ ins.victim \in Queued(q)
    /\ Queued(q) \ {ins.victim} \subseteq Queued(ins.q)
    /\ Keys(ins.q.ghost) \subseteq Keys(q.ghost) \cup {ins.victim}
    /\ e \in Keys(ins.q.ghost) => ins.victim = e
    /\ Keys(q.small) \cap Keys(q.main) = {} /\ e \notin Queued(q) =>
          /\ Keys(ins.q.small) \cap Keys(ins.q.main) = {}
          /\ Queued(ins.q) = (Queued(q) \ {ins.victim}) \cup {e}
          /\ ins.victim = None => Len(q.small) + Len(q.main) < NSmall + NMain

LEMMA InsertFacts ==
    ASSUME NEW q, QueuesOK(q), NEW e \in Experts
    PROVE  Inserted(q, e, S3Insert(q, e))
<1> DEFINE room == S3MainRoom(q.main)
           head == Head(q.small)
           ghost == IF Len(q.ghost) >= NMain THEN Tail(q.ghost) ELSE q.ghost
           Q(s, m, g) == [small |-> s, main |-> m, ghost |-> g]
           Freqs == OrderedDicts(Experts, Nat)
           Flags == OrderedDicts(Experts, BOOLEAN)
<1>1. /\ q.small \in Freqs /\ q.main \in Freqs /\ q.ghost \in Flags
      /\ Len(q.small) <= NSmall /\ Len(q.main) <= NMain /\ Len(q.ghost) <= NMain
      /\ q = Q(q.small, q.main, q.ghost)
    BY DEF QueuesOK
<1>2. /\ Len(q.small) \in Nat /\ Len(q.main) \in Nat /\ Len(q.ghost) \in Nat
      /\ NSmall \in Nat /\ NMain \in Nat /\ NSmall >= 1 /\ NMain >= 1
    BY <1>1, DictType, Capacities
<1>3. /\ room.rest \in Freqs /\ Len(room.rest) < NMain /\ Len(room.rest) \in Nat
      /\ \/ room.victim = None /\ room.rest = q.main
         \/ room.victim \in Keys(q.main) /\ Keys(room.rest) = Keys(q.main) \ {room.victim}
    BY <1>1, MainRoom, DictType
<1>4. None \notin Experts /\ Keys(q.small) \subseteq Experts /\ Keys(q.main) \subseteq Experts
      /\ Keys(q.ghost) \subseteq Experts
    BY <1>1, DictIndex, ExpertsAssumption DEF None
<1>5. \A d \in Freqs, f \in Experts, v \in Nat :
          /\ Put(d, f, v) \in Freqs /\ Keys(Put(d, f, v)) = Keys(d) \cup {f}
          /\ \A c \in Nat : Len(d) < c => Len(Put(d, f, v)) <= c
    <2> SUFFICES ASSUME NEW d \in Freqs, NEW f \in Experts, NEW v \in Nat
                 PROVE  /\ Put(d, f, v) \in Freqs /\ Keys(Put(d, f, v)) = Keys(d) \cup {f}
                        /\ \A c \in Nat : Len(d) < c => Len(Put(d, f, v)) <= c
        OBVIOUS
    <2>1. /\ Put(d, f, v) \in Freqs /\ Keys(Put(d, f, v)) = Keys(d) \cup {f}
          /\ Len(Put(d, f, v)) = IF f \in Keys(d) THEN Len(d) ELSE Len(d) + 1
          /\ Len(d) \in Nat
        BY PutElements, DictType
    <2> QED BY <2>1
<1>6. /\ ghost \in Flags /\ Len(ghost) < NMain /\ Len(ghost) \in Nat
      /\ Keys(ghost) \subseteq Keys(q.ghost)
    <2>1. CASE Len(q.ghost) >= NMain
        <3>1. Len(q.ghost) # 0
            BY <1>2, <2>1
        <3>2. /\ Tail(q.ghost) \in Flags /\ Len(Tail(q.ghost)) = Len(q.ghost) - 1
              /\ Keys(Tail(q.ghost)) \subseteq Keys(q.ghost)
            BY <1>1, <3>1, TailElements
        <3> QED BY <1>1, <1>2, <2>1, <3>2
    <2>2. CASE ~(Len(q.ghost) >= NMain)
        BY <1>1, <1>2, <2>2
    <2> QED BY <2>1, <2>2
<1> HIDE DEF room, ghost, Freqs, Flags
<1>7. \A s \in Freqs, m \in Freqs, g \in Flags :
          /\ Q(s, m, g).small = s /\ Q(s, m, g).main = m /\ Q(s, m, g).ghost = g
          /\ Queued(Q(s, m, g)) = Keys(s) \cup Keys(m)
          /\ Len(s) <= NSmall /\ Len(m) <= NMain /\ Len(g) <= NMain => QueuesOK(Q(s, m, g))
    BY DEF Queued, QueuesOK, Freqs, Flags
<1>8. Queued(q) = Keys(q.small) \cup Keys(q.main)
    BY DEF Queued
<1>9. /\ room = S3MainRoom(q.main)
      /\ ghost = IF Len(q.ghost) >= NMain THEN Tail(q.ghost) ELSE q.ghost
      /\ 0 \in Nat
    BY DEF room, ghost
<1>13. \A i, j, c, d \in Nat : (i <= c /\ j < d => i + j < c + d) /\ (i < c /\ j <= d => i + j < c + d)
    OBVIOUS
<1>15. \A d \in Flags, f \in Experts, v \in BOOLEAN :
          /\ Put(d, f, v) \in Flags /\ Keys(Put(d, f, v)) = Keys(d) \cup {f}
          /\ Len(Put(d, f, v)) = IF f \in Keys(d) THEN Len(d) ELSE Len(d) + 1
    BY PutElements DEF Flags
<1> DEFINE ins == S3Insert(q, e)
<1>14. ASSUME NEW s \in Freqs, NEW m \in Freqs, NEW g \in Flags, NEW v,
              ins = [victim |-> v, q |-> Q(s, m, g)],
              Len(s) <= NSmall, Len(m) <= NMain, Len(g) <= NMain
       PROVE  /\ ins.victim = v /\ ins.q.small = s /\ ins.q.main = m /\ ins.q.ghost = g
              /\ Queued(ins.q) = Keys(s) \cup Keys(m) /\ QueuesOK(ins.q)
    <2> HIDE DEF ins
    <2>1. ins.victim = v /\ ins.q = Q(s, m, g)
        BY <1>14
    <2> HIDE DEF Q
    <2> QED BY <1>7, <1>14, <2>1
<1>10. CASE e \in Keys(q.ghost)
    <2> DEFINE g == Without(q.ghost, e)
               m == Put(room.rest, e, 0)
    <2>1. g \in Flags /\ Len(g) = Len(q.ghost) - 1 /\ Keys(g) = Keys(q.ghost) \ {e}
        BY <1>1, <1>10, WithoutKeys DEF Flags
    <2>2. Len(g) <= NMain
        BY <1>1, <1>2, <2>1
    <2>3. m \in Freqs /\ Len(m) <= NMain /\ Keys(m) = Keys(room.rest) \cup {e}
        BY <1>2, <1>3, <1>5
    <2>4. ins = [victim |-> room.victim, q |-> Q(q.small, m, g)]
        BY <1>1, <1>9, <1>10 DEF S3Insert
    <2>5. room.rest = q.main => Len(q.small) + Len(q.main) < NSmall + NMain
        BY <1>1, <1>2, <1>3, <1>13
    <2> HIDE DEF g, m, Q, ins
    <2>6. room.victim = None \/ room.victim \in Queued(q)
        BY <1>3, <1>8
    <2>7. Queued(q) \ {room.victim} \subseteq Keys(q.small) \cup Keys(m)
        BY <1>3, <1>8, <2>3
    <2>8. ASSUME Keys(q.small) \cap Keys(q.main) = {}, e \notin Queued(q)
          PROVE  /\ Keys(q.small) \cap Keys(m) = {}
                 /\ Keys(q.small) \cup Keys(m) = (Queued(q) \ {room.victim}) \cup {e}
                 /\ room.victim = None => Len(q.small) + Len(q.main) < NSmall + NMain
        <3>1. CASE room.victim = None /\ room.rest = q.main
            BY <1>4, <1>8, <2>3, <2>5, <2>8, <3>1
        <3>2. CASE room.victim \in Keys(q.main) /\ Keys(room.rest) = Keys(q.main) \ {room.victim}
            BY <1>4, <1>8, <2>3, <2>8, <3>2
        <3> QED BY <1>3, <3>1, <3>2
    <2>9. /\ ins.victim = room.victim /\ ins.q.small = q.small /\ ins.q.main = m /\ ins.q.ghost = g
          /\ Queued(ins.q) = Keys(q.small) \cup Keys(m) /\ QueuesOK(ins.q)
        BY <1>1, <1>14, <2>1, <2>2, <2>3, <2>4
    <2>10. Inserted(q, e, ins)
        BY <2>1, <2>3, <2>6, <2>7, <2>8, <2>9 DEF Inserted
    <2> QED BY <2>10 DEF ins
<1>11. CASE e \notin Keys(q.ghost) /\ Len(q.small) < NSmall
    <2> DEFINE s == Put(q.small, e, 0)
    <2>1. s \in Freqs /\ Len(s) <= NSmall /\ Keys(s) = Keys(q.small) \cup {e}
        BY <1>1, <1>2, <1>5, <1>11
    <2>2. ins = [victim |-> None, q |-> Q(s, q.main, q.ghost)]
        BY <1>1, <1>11 DEF S3Insert
    <2>3. Len(q.small) + Len(q.main) < NSmall + NMain
        BY <1>1, <1>2, <1>11, <1>13
    <2> HIDE DEF s, Q, ins
    <2>4. ASSUME Keys(q.small) \cap Keys(q.main) = {}, e \notin Queued(q)
          PROVE  /\ Keys(s) \cap Keys(q.main) = {}
                 /\ Keys(s) \cup Keys(q.main) = (Queued(q) \ {None}) \cup {e}
        BY <1>4, <1>8, <2>1, <2>4
    <2>5. Queued(q) \ {None} \subseteq Keys(s) \cup Keys(q.main) /\ e \in Keys(s) \cup Keys(q.main)
        BY <1>8, <2>1
    <2>9. /\ ins.victim = None /\ ins.q.small = s /\ ins.q.main = q.main /\ ins.q.ghost = q.ghost
          /\ Queued(ins.q) = Keys(s) \cup Keys(q.main) /\ QueuesOK(ins.q)
        BY <1>1, <1>14, <2>1, <2>2
    <2>10. Inserted(q, e, ins)
        BY <1>11, <2>3, <2>4, <2>5, <2>9 DEF Inserted
    <2> QED BY <2>10 DEF ins
<1>12. CASE e \notin Keys(q.ghost) /\ ~(Len(q.small) < NSmall)
    <2> DEFINE t == Tail(q.small)
               s == Put(t, e, 0)
    <2>1. Len(q.small) # 0
        BY <1>2, <1>12
    <2>2. /\ t \in Freqs /\ Len(t) = Len(q.small) - 1 /\ head.k \in Experts /\ head.v \in Nat
          /\ head.k \in Keys(q.small) /\ Keys(t) = Keys(q.small) \ {head.k}
        BY <1>1, <2>1, TailElements DEF Freqs
    <2>3. Len(t) < NSmall
        BY <1>1, <1>2, <2>2
    <2>4. s \in Freqs /\ Len(s) <= NSmall /\ Keys(s) = Keys(t) \cup {e}
        BY <1>2, <1>5, <2>2, <2>3
    <2>5. CASE head.v > 0
        <3> DEFINE m == Put(room.rest, head.k, 0)
        <3>1. m \in Freqs /\ Len(m) <= NMain /\ Keys(m) = Keys(room.rest) \cup {head.k}
            BY <1>2, <1>3, <1>5, <2>2
        <3>2. ins = [victim |-> room.victim, q |-> Q(s, m, q.ghost)]
            BY <1>1, <1>9, <1>12, <2>5 DEF S3Insert
        <3>3. room.rest = q.main => Len(q.small) + Len(q.main) < NSmall + NMain
            BY <1>1, <1>2, <1>3, <1>13
        <3> HIDE DEF m, s, t, head, Q, ins
        <3>4. /\ room.victim = None \/ room.victim \in Queued(q)
              /\ Queued(q) \ {room.victim} \subseteq Keys(s) \cup Keys(m)
              /\ e \in Keys(s) \cup Keys(m)
            BY <1>3, <1>8, <2>2, <2>4, <3>1
        <3>5. ASSUME Keys(q.small) \cap Keys(q.main) = {}, e \notin Queued(q)
              PROVE  /\ Keys(s) \cap Keys(m) = {}
                     /\ Keys(s) \cup Keys(m) = (Queued(q) \ {room.victim}) \cup {e}
                     /\ room.victim = None => Len(q.small) + Len(q.main) < NSmall + NMain
            <4>1. CASE room.victim = None /\ room.rest = q.main
                <5>1. Keys(m) = Keys(q.main) \cup {head.k} /\ e # head.k
                    BY <1>8, <2>2, <3>1, <3>5, <4>1
                <5>2. Keys(s) = (Keys(q.small) \ {head.k}) \cup {e}
                    BY <2>2, <2>4
                <5>3. Keys(s) \cap Keys(m) = {} /\ Keys(s) \cup Keys(m) = Queued(q) \cup {e}
                    BY <1>8, <2>2, <3>5, <5>1, <5>2
                <5> QED BY <1>4, <1>8, <3>3, <4>1, <5>3
            <4>2. CASE room.victim \in Keys(q.main) /\ Keys(room.rest) = Keys(q.main) \ {room.victim}
                <5>1. /\ Keys(m) = (Keys(q.main) \ {room.victim}) \cup {head.k}
                      /\ e # head.k /\ room.victim # head.k
                    BY <1>8, <2>2, <3>1, <3>5, <4>2
                <5>2. Keys(s) = (Keys(q.small) \ {head.k}) \cup {e} /\ room.victim # None
                    BY <1>4, <2>2, <2>4, <4>2
                <5>3. Keys(s) \cap Keys(m) = {}
                    BY <1>8, <2>2, <3>5, <5>1, <5>2
                <5>4. Keys(s) \cup Keys(m) = (Queued(q) \ {room.victim}) \cup {e}
                    BY <1>8, <2>2, <3>5, <4>2, <5>1, <5>2
                <5> QED BY <5>2, <5>3, <5>4
            <4> QED BY <1>3, <4>1, <4>2
        <3>9. /\ ins.victim = room.victim /\ ins.q.small = s /\ ins.q.main = m /\ ins.q.ghost = q.ghost
              /\ Queued(ins.q) = Keys(s) \cup Keys(m) /\ QueuesOK(ins.q)
            BY <1>1, <1>14, <2>4, <3>1, <3>2
        <3>10. Inserted(q, e, ins)
            BY <1>12, <3>4, <3>5, <3>9 DEF Inserted
        <3> QED BY <3>10 DEF ins
    <2>6. CASE ~(head.v > 0)
        <3> DEFINE g == Put(ghost, head.k, TRUE)
        <3>1. g \in Flags /\ Len(g) <= NMain /\ Keys(g) = Keys(ghost) \cup {head.k}
            <4>1. TRUE \in BOOLEAN
                OBVIOUS
            <4>2. /\ g \in Flags /\ Keys(g) = Keys(ghost) \cup {head.k}
                  /\ Len(g) = IF head.k \in Keys(ghost) THEN Len(ghost) ELSE Len(ghost) + 1
                <5> HIDE DEF head, g
                <5>1. g = Put(ghost, head.k, TRUE)
                    BY DEF g
                <5> QED BY <1>6, <1>15, <2>2, <4>1, <5>1, Zenon
            <4> HIDE DEF g, head
            <4> QED BY <1>2, <1>6, <4>2
        <3>2. ins = [victim |-> head.k, q |-> Q(s, q.main, g)]
            BY <1>1, <1>9, <1>12, <2>6 DEF S3Insert
        <3> HIDE DEF g, s, t, head, Q, ins
        <3>3. /\ head.k \in Queued(q) /\ e \in Keys(s) \cup Keys(q.main)
              /\ Queued(q) \ {head.k} \subseteq Keys(s) \cup Keys(q.main)
              /\ Keys(g) \subseteq Keys(q.ghost) \cup {head.k} /\ (e \in Keys(g) => head.k = e)
            BY <1>6, <1>8, <1>12, <2>2, <2>4, <3>1
        <3>4. ASSUME Keys(q.small) \cap Keys(q.main) = {}, e \notin Queued(q)
              PROVE  /\ Keys(s) \cap Keys(q.main) = {}
                     /\ Keys(s) \cup Keys(q.main) = (Queued(q) \ {head.k}) \cup {e}
                     /\ head.k # None
            BY <1>4, <1>8, <2>2, <2>4, <3>4
        <3>9. /\ ins.victim = head.k /\ ins.q.small = s /\ ins.q.main = q.main /\ ins.q.ghost = g
              /\ Queued(ins.q) = Keys(s) \cup Keys(q.main) /\ QueuesOK(ins.q)
            BY <1>1, <1>14, <2>4, <3>1, <3>2
        <3>10. Inserted(q, e, ins)
            BY <3>3, <3>4, <3>9 DEF Inserted
        <3> QED BY <3>10 DEF ins
    <2> QED BY <2>5, <2>6
<1> QED BY <1>10, <1>11, <1>12 DEF ins

\* As many keys as entries.
LEMMA KeysCounted ==
    ASSUME NEW d \in OrderedDicts(Experts, Nat)
    PROVE  IsFiniteSet(Keys(d)) /\ Cardinality(Keys(d)) = Len(d)
<1> DEFINE f == [i \in 1 .. Len(d) |-> d[i].k]
<1>1. /\ Len(d) \in Nat /\ DOMAIN d = 1 .. Len(d)
      /\ \A i, j \in 1 .. Len(d) : d[i].k = d[j].k => i = j
    BY DictType
<1>2. f \in Bijection(1 .. Len(d), Keys(d))
    <2>1. Keys(d) = {d[i].k : i \in 1 .. Len(d)}
        BY <1>1 DEF Keys
    <2>2. f \in [1 .. Len(d) -> Keys(d)]
        BY <2>1
    <2>3. \A i, j \in 1 .. Len(d) : f[i] = f[j] => i = j
        BY <1>1
    <2>4. \A x \in Keys(d) : \E i \in 1 .. Len(d) : f[i] = x
        BY <2>1
    <2> QED BY <2>2, <2>3, <2>4 DEF Bijection, Injection, Surjection, IsInjective
<1>3. IsFiniteSet(1 .. Len(d)) /\ Cardinality(1 .. Len(d)) = Len(d)
    BY <1>1, FS_Interval
<1> QED BY <1>2, <1>3, FS_Bijection DEF ExistsBijection

\* With no slot free there are as many residents as slots.
LEMMA PoolFull ==
    ASSUME Books, free = <<>>, IsFiniteSet(Resident)
    PROVE  Cardinality(Resident) >= NSlots
<1>1. NSlots \in Nat /\ IsFiniteSet(Slots) /\ Cardinality(Slots) = NSlots
    <2>1. NSlots \in Nat
        BY Capacities
    <2> QED BY <2>1, FS_Interval DEF Slots
<1> DEFINE f == [s \in Slots |-> (CHOOSE x \in Entries : x.v = s).k]
<1>2. \A s \in Slots : \E x \in Entries : x.v = s
    <2>1. Range(free) = {}
        BY EmptySeq DEF Range
    <2> QED BY <2>1 DEF Books
<1>3. Resident = {x.k : x \in Entries} /\ \A x, y \in Entries : x.k = y.k => x = y
    BY DictRange DEF Books, Resident, Entries
<1>4. f \in Injection(Slots, Resident)
    <2>1. \A s \in Slots : \E x \in Entries : x.v = s /\ f[s] = x.k
        BY <1>2
    <2> HIDE DEF f
    <2>2. \A s \in Slots : f[s] \in Resident
        BY <1>3, <2>1
    <2>3. \A s, t \in Slots : f[s] = f[t] => s = t
        BY <1>3, <2>1
    <2> QED BY <2>2, <2>3 DEF f, Injection, IsInjective
<1> QED BY <1>1, <1>4, FS_Injection

\* With two slots or more no call is left without one: s3fifo names no victim
\* only while a slot is free, and its victims are residents.
LEMMA NoSlotRaise ==
    ASSUME S3Inv, NSlots >= 2, NEW e \in Experts, e \notin Resident
    PROVE  ~TakeSlotRaises(e)
<1> DEFINE ins == S3Insert(queues, e)
<1>1. /\ QueuesOK(queues) /\ Queued(queues) = Resident /\ Books
      /\ Keys(queues.small) \cap Keys(queues.main) = {}
    BY DEF S3Inv, Tracking, TypeInv
<1>2. Inserted(queues, e, ins)
    BY <1>1, InsertFacts
<1> HIDE DEF ins
<1>3. ins.victim # None => ins.victim \in Resident
    BY <1>1, <1>2 DEF Inserted
<1>4. ins.victim = None => free # <<>>
    <2> SUFFICES ASSUME ins.victim = None, free = <<>> PROVE FALSE
        OBVIOUS
    <2> DEFINE s == queues.small
               m == queues.main
    <2>1. Len(s) + Len(m) < NSmall + NMain /\ NSmall + NMain = NSlots
        BY <1>1, <1>2, Capacities DEF Inserted
    <2>2. /\ IsFiniteSet(Keys(s)) /\ Cardinality(Keys(s)) = Len(s)
          /\ IsFiniteSet(Keys(m)) /\ Cardinality(Keys(m)) = Len(m)
          /\ Len(s) \in Nat /\ Len(m) \in Nat
        BY <1>1, KeysCounted, DictType DEF QueuesOK
    <2>3. Resident = Keys(s) \cup Keys(m) /\ Keys(s) \cap Keys(m) = {}
        BY <1>1 DEF Queued
    <2> HIDE DEF s, m
    <2>4. Cardinality(Keys(s) \cap Keys(m)) = 0
        BY <2>3, FS_EmptySet
    <2>5. IsFiniteSet(Resident) /\ Cardinality(Resident) = Len(s) + Len(m)
        <3>1. /\ IsFiniteSet(Keys(s) \cup Keys(m))
              /\ Cardinality(Keys(s) \cup Keys(m))
                    = Cardinality(Keys(s)) + Cardinality(Keys(m)) - Cardinality(Keys(s) \cap Keys(m))
            BY <2>2, FS_Union
        <3> QED BY <3>1, <2>2, <2>3, <2>4
    <2>6. Cardinality(Resident) >= NSlots
        BY <1>1, <2>5, PoolFull
    <2>7. NSlots \in Nat
        BY Capacities
    <2> QED BY <2>1, <2>2, <2>5, <2>6, <2>7
<1> QED BY <1>3, <1>4 DEF TakeSlotRaises, ins

\* A hit leaves each queue its experts.
LEMMA S3HitKeeps ==
    ASSUME S3Inv, NEW e \in Resident, PolicyHit(e), Policy = "s3fifo"
    PROVE  QueuesOK(queues') /\ Tracking(queues', Resident')
<1>1. /\ QueuesOK(queues) /\ Tracking(queues, Resident) /\ Books
      /\ queues' = S3Hit(queues, e) /\ id2slot' = id2slot /\ Resident' = Resident
    BY DEF S3Inv, TypeInv, PolicyHit, Resident
<1>2. e \in Queued(queues) /\ e \in Experts
    BY <1>1, DictIndex DEF Tracking, Books, Resident
<1>3. \A d \in OrderedDicts(Experts, Nat) : e \in Keys(d) =>
          LET p == Put(d, e, Min({3, Get(d, e) + 1}))
          IN  p \in OrderedDicts(Experts, Nat) /\ Keys(p) = Keys(d) /\ Len(p) = Len(d)
    <2> SUFFICES ASSUME NEW d \in OrderedDicts(Experts, Nat), e \in Keys(d)
                 PROVE  LET p == Put(d, e, Min({3, Get(d, e) + 1}))
                        IN  p \in OrderedDicts(Experts, Nat) /\ Keys(p) = Keys(d) /\ Len(p) = Len(d)
        OBVIOUS
    <2>1. Get(d, e) \in Nat
        BY DictIndex
    <2> DEFINE v == Min({3, Get(d, e) + 1})
    <2>2. v \in Nat
        <3>1. {3, Get(d, e) + 1} \in SUBSET Nat /\ {3, Get(d, e) + 1} # {}
            BY <2>1
        <3>2. v \in {3, Get(d, e) + 1}
            BY <3>1, LeastOf
        <3> QED BY <3>1, <3>2
    <2> HIDE DEF v
    <2>3. /\ Put(d, e, v) \in OrderedDicts(Experts, Nat)
          /\ Keys(Put(d, e, v)) = Keys(d) \cup {e} /\ Len(Put(d, e, v)) = Len(d)
        BY <1>2, <2>2, PutElements
    <2> QED BY <2>3 DEF v
<1>4. CASE e \in Keys(queues.small)
    <2> DEFINE p == Put(queues.small, e, Min({3, Get(queues.small, e) + 1}))
    <2>1. /\ p \in OrderedDicts(Experts, Nat) /\ Keys(p) = Keys(queues.small)
          /\ Len(p) = Len(queues.small)
        BY <1>1, <1>3, <1>4 DEF QueuesOK
    <2>2. queues' = [small |-> p, main |-> queues.main, ghost |-> queues.ghost]
        BY <1>1, <1>4 DEF S3Hit, QueuesOK
    <2> HIDE DEF p
    <2> QED BY <1>1, <2>1, <2>2 DEF QueuesOK, Tracking, Queued
<1>5. CASE e \notin Keys(queues.small)
    <2> DEFINE p == Put(queues.main, e, Min({3, Get(queues.main, e) + 1}))
    <2>1. /\ p \in OrderedDicts(Experts, Nat) /\ Keys(p) = Keys(queues.main)
          /\ Len(p) = Len(queues.main)
        BY <1>1, <1>2, <1>3, <1>5 DEF QueuesOK, Queued
    <2>2. queues' = [small |-> queues.small, main |-> p, ghost |-> queues.ghost]
        BY <1>1, <1>5 DEF S3Hit, QueuesOK
    <2> HIDE DEF p
    <2> QED BY <1>1, <2>1, <2>2 DEF QueuesOK, Tracking, Queued
<1> QED BY <1>4, <1>5

\* A binding, and a call that raises for want of one.
LEMMA S3TakeKeeps ==
    ASSUME S3Inv, NEW e \in Experts, e \notin Resident, Policy = "s3fifo",
           TakeSlotFor(e) \/ TakeSlotRaises(e)
    PROVE  QueuesOK(queues') /\ Tracking(queues', Resident')
<1> DEFINE ins == S3Insert(queues, e)
<1>1. QueuesOK(queues) /\ Tracking(queues, Resident) /\ Books /\ TypeInv
    BY DEF S3Inv, TypeInv
<1>2. queues' = ins.q /\ Inserted(queues, e, ins)
    BY <1>1, InsertFacts DEF TakeSlotFor, TakeSlotRaises
<1>3. None \notin Experts /\ Resident \subseteq Experts
    BY <1>1, DictIndex, ExpertsAssumption DEF None, Books, Resident
<1> HIDE DEF ins
<1>4. CASE TakeSlotRaises(e)
    <2>1. Resident' = Resident /\ ~(NSlots >= 2)
        BY <1>4, NoSlotRaise DEF TakeSlotRaises, Resident
    <2>2. ins.victim \notin Resident
        BY <1>3, <1>4 DEF TakeSlotRaises, ins
    <2>3. Resident \subseteq Queued(ins.q) /\ Keys(ins.q.ghost) \cap Resident = {}
        BY <1>1, <1>2, <2>2 DEF Inserted, Tracking
    <2> QED BY <1>2, <2>1, <2>3 DEF Inserted, Tracking
<1>5. CASE TakeSlotFor(e)
    <2>1. Resident' = (Resident \ {ins.victim}) \cup {e} /\ ins.victim # e
        <3>1. CASE ins.victim = None /\ BindFree(e)
            BY <1>1, <1>3, <3>1, BindFreeBooks
        <3>2. CASE ins.victim # None /\ BindOver(ins.victim, e)
            <4>1. ins.victim \in Resident
                BY <3>2 DEF BindOver
            <4> QED BY <1>1, <3>2, <4>1, BindOverBooks
        <3> QED BY <1>5, <3>1, <3>2 DEF TakeSlotFor, ins
    <2>2. Resident' \subseteq Queued(ins.q)
        BY <1>1, <1>2, <2>1 DEF Inserted, Tracking
    <2>3. Keys(ins.q.ghost) \cap Resident' = {}
        BY <1>1, <1>2, <2>1 DEF Inserted, Tracking
    <2>4. NSlots >= 2 => /\ Queued(ins.q) \subseteq Resident'
                         /\ Keys(ins.q.small) \cap Keys(ins.q.main) = {}
        <3> SUFFICES ASSUME NSlots >= 2
                     PROVE  /\ Queued(ins.q) \subseteq Resident'
                            /\ Keys(ins.q.small) \cap Keys(ins.q.main) = {}
            OBVIOUS
        <3>1. Keys(queues.small) \cap Keys(queues.main) = {} /\ Queued(queues) = Resident
            BY <1>1 DEF Tracking
        <3> QED BY <1>2, <2>1, <3>1 DEF Inserted
    <2> QED BY <1>2, <2>2, <2>3, <2>4 DEF Inserted, Tracking
<1> QED BY <1>4, <1>5

LEMMA S3InvInit == Init => S3Inv
<1> SUFFICES ASSUME Init PROVE S3Inv
    OBVIOUS
<1>1. TypeInv /\ Resident = {} /\ queues = [small |-> <<>>, main |-> <<>>, ghost |-> <<>>]
    BY TypeInvInit, EmptySeq DEF Init, Resident, Keys
<1>2. Keys(<<>>) = {} /\ Len(<<>>) = 0 /\ \A V : <<>> \in OrderedDicts(Experts, V)
    BY EmptySeq DEF Keys, OrderedDicts
<1>3. 0 <= NSmall /\ 0 <= NMain
    BY Capacities
<1> QED BY <1>1, <1>2, <1>3 DEF S3Inv, QueuesOK, Tracking, Queued

LEMMA S3InvStep == Policy = "s3fifo" /\ S3Inv /\ [Next]_vars => S3Inv'
<1> SUFFICES ASSUME Policy = "s3fifo", S3Inv, [Next]_vars PROVE S3Inv'
    OBVIOUS
<1>1. TypeInv' /\ Books /\ todo \subseteq Experts /\ (pc \in {"touch", "retouch"} => todo \subseteq Resident)
    BY TypeInvStep DEF S3Inv, TypeInv, TypeOK, TodoHeld
<1>2. ASSUME QueuesOK(queues') /\ Tracking(queues', Resident') PROVE S3Inv'
    BY <1>1, <1>2 DEF S3Inv
<1>3. ASSUME UNCHANGED queues, Resident' = Resident PROVE S3Inv'
    BY <1>2, <1>3 DEF S3Inv
<1>4. UNCHANGED poolVars => UNCHANGED queues /\ Resident' = Resident
    BY DEF poolVars, Resident
<1>5. ASSUME NEW e \in Resident, PolicyHit(e) PROVE S3Inv'
    BY <1>2, <1>5, S3HitKeeps
<1>6. ASSUME NEW e \in Experts, e \notin Resident, TakeSlotFor(e) \/ TakeSlotRaises(e) PROVE S3Inv'
    BY <1>2, <1>6, S3TakeKeeps
<1>7. ASSUME NEW e \in Experts, Adopt(e) \/ (e \notin Resident /\ TakeSlotRaises(e)) PROVE S3Inv'
    BY <1>5, <1>6, <1>7 DEF Adopt
<1>8. CASE AbsorbStep
    BY <1>1, <1>7, <1>8 DEF AbsorbStep
<1>9. CASE SweepAdopt
    BY <1>1, <1>7, <1>9 DEF SweepAdopt
<1>10. CASE TouchStep
    BY <1>1, <1>5, <1>10 DEF TouchStep
<1>11. CASE BindStep
    BY <1>1, <1>5, <1>6, <1>11 DEF BindStep
<1>12. CASE RetouchStep
    <2> PICK e \in todo : id2slot' = MoveToEnd(id2slot, e)
        BY <1>12 DEF RetouchStep
    <2>1. e \in Resident /\ UNCHANGED <<slot_table, free, queues>>
        BY <1>1, <1>12 DEF RetouchStep
    <2> QED BY <1>1, <1>3, <2>1, MovedBooks
<1>13. CASE \/ PrefetchStart \/ CallDecode \/ CallPrefill \/ SweepStart \/ AbsorbDone
            \/ DispatchHits \/ BindDone \/ Fetch \/ FetchUnmapped \/ FetchRaises
            \/ SweepRaises \/ SweepRetouch \/ SweepDone
    BY <1>3, <1>4, <1>13 DEF PrefetchStart, CallDecode, CallPrefill, SweepStart, AbsorbDone,
       DispatchHits, BindDone, Fetch, FetchUnmapped, FetchRaises, SweepRaises, SweepRetouch,
       SweepDone
<1>14. CASE UNCHANGED vars
    BY <1>3, <1>14 DEF vars, Resident
<1> QED BY <1>8, <1>9, <1>10, <1>11, <1>12, <1>13, <1>14 DEF Next, Step

\* Under s3fifo the queues and the slot books agree at every step, calls that
\* raise included: _s3_insert, _s3_evict_small and _s3_evict_main keep the
\* queues within their capacities, forget no resident expert, remember no
\* resident as a ghost and, with two slots or more, evict residents only.
THEOREM S3BooksAlwaysAgree == Policy = "s3fifo" => (Spec => []S3BooksAgree)
<1> SUFFICES ASSUME Policy = "s3fifo" PROVE Spec => []S3BooksAgree
    OBVIOUS
<1>1. S3Inv /\ [Next]_vars => S3Inv'
    BY S3InvStep
<1>2. S3Inv => S3BooksAgree
    <2> SUFFICES ASSUME S3Inv PROVE S3BooksAgree
        OBVIOUS
    <2>1. TypeOK /\ SlotMap
        BY BooksIsSlotMap DEF S3Inv, TypeInv, TypeOK
    <2>2. QueuesTrackSlots
        BY DEF S3Inv, QueuesOK, Tracking, Queued, QueuesTrackSlots
    <2> QED BY <2>1, <2>2 DEF S3BooksAgree
<1> QED BY S3InvInit, <1>1, <1>2, PTL DEF Spec

-----------------------------------------------------------------------------
(* _s3_evict_main's loop.                                                  *)

\* An entry of main after losing `by`.
Aged(x, by) == [k |-> x.k, v |-> x.v - by]

\* Where main's first entry of least frequency is.
LeastAt(main, low, at) ==
    /\ low \in Nat /\ at \in 1 .. Len(main) /\ main[at].v = low
    /\ \A i \in 1 .. Len(main) : low <= main[i].v
    /\ \A i \in 1 .. at - 1 : main[i].v # low

\* There is one such entry, and S3EvictMain goes by it.
LEMMA EvictMainAt ==
    ASSUME NEW main \in OrderedDicts(Experts, Nat), Len(main) # 0
    PROVE  \E low, at : LeastAt(main, low, at)
<1>1. /\ Len(main) \in Nat /\ DOMAIN main = 1 .. Len(main) /\ 1 \in 1 .. Len(main)
      /\ \A i \in 1 .. Len(main) : main[i].v \in Nat
    BY DictType
<1> DEFINE T == {main[i].v : i \in 1 .. Len(main)}
<1>2. PICK low \in T : \A y \in T : low <= y
    <2>1. T \in SUBSET Nat /\ T # {}
        BY <1>1
    <2> QED BY <2>1, LeastNatural
<1> DEFINE A == {i \in 1 .. Len(main) : main[i].v = low}
<1>3. PICK at \in A : \A i \in A : at <= i
    <2>1. A \in SUBSET Nat /\ A # {}
        BY <1>1, <1>2
    <2> QED BY <2>1, LeastNatural
<1>4. ASSUME NEW i \in 1 .. at - 1 PROVE main[i].v # low
    <2>1. i \in 1 .. Len(main) /\ ~(at <= i)
        BY <1>1, <1>3
    <2> QED BY <1>3, <2>1
<1> QED BY <1>1, <1>2, <1>3, <1>4 DEF LeastAt

LEMMA EvictMainIs ==
    ASSUME NEW main \in OrderedDicts(Experts, Nat), NEW low, NEW at, LeastAt(main, low, at)
    PROVE  LET n == Len(main)
               ev == S3EvictMain(main)
           IN  /\ ev = [victim |-> main[at].k, rest |-> ev.rest]
               /\ ev.rest \in Seq(Entry(Experts, Nat)) /\ Len(ev.rest) = n - 1
               /\ \A i \in 1 .. n - at : ev.rest[i] = Aged(main[at + i], low)
               /\ \A i \in 1 .. at - 1 : ev.rest[n - at + i] = Aged(main[i], low + 1)
<1> DEFINE n == Len(main)
           E == Entry(Experts, Nat)
           a == [i \in 1 .. n - at |-> Aged(main[at + i], low)]
           b == [i \in 1 .. at - 1 |-> Aged(main[i], low + 1)]
<1>1. /\ n \in Nat /\ DOMAIN main = 1 .. n /\ at \in 1 .. n /\ low \in Nat
      /\ \A i \in 1 .. n : main[i].k \in Experts /\ main[i].v \in Nat
    BY DictType DEF LeastAt
<1>2. Min({main[i].v : i \in DOMAIN main}) = low
    <2> DEFINE T == {main[i].v : i \in DOMAIN main}
    <2>1. T \in SUBSET Nat /\ low \in T /\ \A y \in T : low <= y
        BY <1>1 DEF LeastAt
    <2>2. Min(T) \in T /\ \A y \in T : Min(T) <= y
        BY <2>1, LeastOf
    <2>3. Min(T) <= low /\ low <= Min(T) /\ Min(T) \in Nat
        BY <2>1, <2>2
    <2> HIDE DEF T
    <2>4. Min(T) = low
        BY <1>1, <2>3
    <2> QED BY <2>4 DEF T
<1>3. Min({i \in DOMAIN main : main[i].v = low}) = at
    <2> DEFINE T == {i \in DOMAIN main : main[i].v = low}
    <2>1. T \in SUBSET Nat /\ at \in T
        BY <1>1 DEF LeastAt
    <2>2. Min(T) \in T /\ \A y \in T : Min(T) <= y
        BY <2>1, LeastOf
    <2>3. Min(T) \in 1 .. n /\ main[Min(T)].v = low /\ Min(T) <= at
        BY <1>1, <2>1, <2>2
    <2> HIDE DEF T
    <2>4. Min(T) \notin 1 .. at - 1
        BY <2>3 DEF LeastAt
    <2>5. Min(T) = at
        BY <1>1, <2>3, <2>4
    <2> QED BY <2>5 DEF T
<1>4. S3EvictMain(main) = [victim |-> main[at].k, rest |-> a \o b]
    BY <1>2, <1>3 DEF S3EvictMain, Aged
<1>5. a \in Seq(E) /\ Len(a) = n - at
    <2>1. n - at \in Nat /\ \A i \in 1 .. n - at : at + i \in 1 .. n
        BY <1>1
    <2>2. \A i \in 1 .. n - at : Aged(main[at + i], low) \in E
        BY <1>1, <2>1 DEF Entry, LeastAt, Aged
    <2> QED BY <2>1, <2>2, IsASeq
<1>6. b \in Seq(E) /\ Len(b) = at - 1
    <2>1. at - 1 \in Nat
        BY <1>1
    <2>2. ASSUME NEW i \in 1 .. at - 1 PROVE Aged(main[i], low + 1) \in E
        <3>1. i \in 1 .. n /\ main[i].v - (low + 1) \in Nat
            BY <1>1 DEF LeastAt
        <3> QED BY <1>1, <3>1 DEF Entry, Aged
    <2> QED BY <2>1, <2>2, IsASeq
<1>7. /\ \A i \in 1 .. n - at : a[i] = Aged(main[at + i], low)
      /\ \A i \in 1 .. at - 1 : b[i] = Aged(main[i], low + 1)
    OBVIOUS
<1> HIDE DEF a, b, E
<1>8. /\ a \o b \in Seq(E) /\ Len(a \o b) = n - 1
      /\ \A i \in 1 .. n - at : (a \o b)[i] = a[i]
      /\ \A i \in 1 .. at - 1 : (a \o b)[n - at + i] = b[i]
    <2>1. /\ a \o b \in Seq(E) /\ Len(a \o b) = Len(a) + Len(b)
          /\ \A i \in 1 .. Len(a) + Len(b) :
                (a \o b)[i] = IF i <= Len(a) THEN a[i] ELSE b[i - Len(a)]
        BY <1>5, <1>6, ConcatProperties
    <2>2. /\ Len(a) + Len(b) = n - 1
          /\ \A i \in 1 .. n - at : i \in 1 .. n - 1 /\ i <= n - at
          /\ \A i \in 1 .. at - 1 : /\ n - at + i \in 1 .. n - 1 /\ ~(n - at + i <= n - at)
                                    /\ n - at + i - (n - at) = i
        BY <1>1, <1>5, <1>6
    <2> QED BY <1>5, <2>1, <2>2
<1> DEFINE ev == S3EvictMain(main)
<1>9. ev = [victim |-> main[at].k, rest |-> ev.rest] /\ ev.rest = a \o b
    BY <1>4
<1> HIDE DEF ev, n
<1>10. /\ \A i \in 1 .. n - at : ev.rest[i] = Aged(main[at + i], low)
       /\ \A i \in 1 .. at - 1 : ev.rest[n - at + i] = Aged(main[i], low + 1)
    BY <1>7, <1>8, <1>9
<1> QED BY <1>8, <1>9, <1>10 DEF E, ev, n

\* S3EvictMain is what the loop of _s3_evict_main computes, however long main
\* and whatever the frequencies: a head of frequency zero is popped, and a turn
\* that puts a head back with one less leaves the result as it was.
THEOREM EvictMainByTurns ==
    ASSUME NEW main \in OrderedDicts(Experts, Nat), main # <<>>
    PROVE  LET head == Head(main)
           IN  S3EvictMain(main) =
                   IF head.v > 0
                   THEN S3EvictMain(Append(Tail(main), [head EXCEPT !.v = @ - 1]))
                   ELSE [victim |-> head.k, rest |-> Tail(main)]
<1> DEFINE n == Len(main)
           E == Entry(Experts, Nat)
           head == Head(main)
           t == Tail(main)
           ev == S3EvictMain(main)
<1>1. /\ n \in Nat /\ n >= 1 /\ main \in Seq(E) /\ DOMAIN main = 1 .. n
      /\ \A i \in 1 .. n : /\ main[i].k \in Experts /\ main[i].v \in Nat
                           /\ main[i] = [k |-> main[i].k, v |-> main[i].v]
    <2>1. n \in Nat /\ n # 0 /\ main \in Seq(E) /\ DOMAIN main = 1 .. n
        BY DictType, EmptySeq
    <2>2. \A i \in 1 .. n : main[i] \in E
        BY DictType
    <2> QED BY <2>1, <2>2 DEF Entry
<1>2. /\ head = main[1] /\ t \in OrderedDicts(Experts, Nat) /\ t \in Seq(E) /\ Len(t) = n - 1
      /\ Keys(t) = Keys(main) \ {head.k} /\ head.k \in Keys(main)
      /\ \A i \in 1 .. n - 1 : t[i] = main[i + 1]
    <2>1. Len(main) # 0
        BY <1>1
    <2>2. main # <<>>
        OBVIOUS
    <2>3. /\ t \in OrderedDicts(Experts, Nat) /\ Len(t) = n - 1 /\ head = main[1]
          /\ head.k \in Keys(main) /\ Keys(t) = Keys(main) \ {head.k}
        BY <2>1, TailElements
    <2>4. t \in Seq(E) /\ \A i \in 1 .. Len(t) : t[i] = main[i + 1]
        BY <1>1, <2>2, HeadTailProperties
    <2> HIDE DEF t, n, head, E
    <2> QED BY <2>3, <2>4
<1>3. PICK low, at : LeastAt(main, low, at)
    BY <1>1, EvictMainAt
<1>4. /\ low \in Nat /\ at \in 1 .. n /\ main[at].v = low
      /\ \A i \in 1 .. n : low <= main[i].v
      /\ \A i \in 1 .. at - 1 : main[i].v # low
    BY <1>3 DEF LeastAt
<1>5. /\ ev = [victim |-> main[at].k, rest |-> ev.rest]
      /\ ev.rest \in Seq(E) /\ Len(ev.rest) = n - 1
      /\ \A i \in 1 .. n - at : ev.rest[i] = Aged(main[at + i], low)
      /\ \A i \in 1 .. at - 1 : ev.rest[n - at + i] = Aged(main[i], low + 1)
    BY <1>3, EvictMainIs
<1> HIDE DEF n, E, head, t, ev
<1>6. CASE ~(head.v > 0)
    <2>1. at = 1 /\ low = 0
        <3>1. main[1].v = 0 /\ 1 \in 1 .. n
            BY <1>1, <1>2, <1>6
        <3>2. low = 0
            BY <1>4, <3>1
        <3>3. ~(1 \in 1 .. at - 1)
            BY <1>4, <3>1, <3>2
        <3> QED BY <1>1, <1>4, <3>2, <3>3
    <2>2. \A i \in 1 .. n - 1 : ev.rest[i] = t[i]
        <3> SUFFICES ASSUME NEW i \in 1 .. n - 1 PROVE ev.rest[i] = t[i]
            OBVIOUS
        <3>1. i \in 1 .. n - at /\ at + i = i + 1 /\ i + 1 \in 1 .. n
            BY <1>1, <2>1
        <3>2. ev.rest[i] = Aged(main[i + 1], 0)
            BY <1>5, <2>1, <3>1
        <3>3. main[i + 1].v - 0 = main[i + 1].v
            BY <1>1, <3>1
        <3> QED BY <1>1, <1>2, <3>1, <3>2, <3>3 DEF Aged
    <2>3. ev.rest = t
        BY <1>2, <1>5, <2>2, SeqEqual
    <2>4. main[at].k = head.k
        BY <1>2, <2>1
    <2> QED BY <1>5, <1>6, <2>3, <2>4 DEF ev, t, head
<1>7. CASE head.v > 0
    <2> DEFINE x == [head EXCEPT !.v = @ - 1]
               next == Append(t, x)
    <2>1. /\ x = [k |-> head.k, v |-> head.v - 1] /\ x.k = head.k /\ x.v = head.v - 1
          /\ head.k \in Experts /\ head.v \in Nat /\ head.v - 1 \in Nat
        <3>1. 1 \in 1 .. n
            BY <1>1
        <3>2. /\ head = [k |-> head.k, v |-> head.v] /\ head.k \in Experts /\ head.v \in Nat
            BY <1>1, <1>2, <3>1
        <3> QED BY <1>7, <3>2
    <2> HIDE DEF x
    <2>2. /\ next \in OrderedDicts(Experts, Nat) /\ Len(next) = n
          /\ \A i \in 1 .. n - 1 : next[i] = main[i + 1]
          /\ next[n] = x
        <3>1. head.k \notin Keys(t)
            BY <1>2
        <3>2. LET r == Append(t, [k |-> head.k, v |-> head.v - 1])
              IN  /\ r \in OrderedDicts(Experts, Nat) /\ Len(r) = Len(t) + 1
                  /\ \A i \in 1 .. Len(t) : r[i] = t[i]
                  /\ r[Len(t) + 1] = [k |-> head.k, v |-> head.v - 1]
            BY <1>2, <2>1, <3>1, AppendElements
        <3>3. Len(t) + 1 = n /\ Len(t) = n - 1
            BY <1>1, <1>2
        <3> QED BY <1>2, <2>1, <3>2, <3>3
    <2> HIDE DEF next
    <2> DEFINE nlow == IF at = 1 THEN low - 1 ELSE low
               nat == IF at = 1 THEN n ELSE at - 1
               nev == S3EvictMain(next)
    <2>3. \A i \in 1 .. n - 1 : i + 1 \in 1 .. n /\ next[i].v = main[i + 1].v
        BY <1>1, <2>2
    <2>4. next[n].v = main[1].v - 1 /\ main[1].v > 0 /\ main[1].v \in Nat /\ 1 \in 1 .. n
        BY <1>1, <1>2, <1>7, <2>1, <2>2
    <2>5. LeastAt(next, nlow, nat)
        <3>1. CASE at = 1
            <4>1. nlow = low - 1 /\ nat = n /\ main[1].v = low /\ low - 1 \in Nat
                BY <1>4, <2>4, <3>1
            <4>2. \A i \in 1 .. n - 1 : low <= next[i].v /\ next[i].v \in Nat
                BY <1>1, <1>4, <2>3
            <4>3. \A i \in 1 .. n - 1 : low - 1 <= next[i].v /\ next[i].v # low - 1
                BY <1>4, <4>1, <4>2
            <4>4. \A i \in 1 .. n : i \in 1 .. n - 1 \/ i = n
                BY <1>1
            <4> QED BY <1>1, <2>2, <2>4, <4>1, <4>3, <4>4 DEF LeastAt
        <3>2. CASE at # 1
            <4>1. /\ nlow = low /\ nat = at - 1 /\ at - 1 \in 1 .. n - 1 /\ at - 1 \in 1 .. n
                  /\ 1 \in 1 .. at - 1 /\ (at - 1) + 1 = at
                BY <1>1, <1>4, <3>2
            <4>2. next[n].v >= low
                BY <1>1, <1>4, <2>4, <4>1
            <4>3. \A i \in 1 .. n - 1 : low <= next[i].v
                BY <1>4, <2>3
            <4>4. next[at - 1].v = low
                BY <1>4, <2>3, <4>1
            <4>5. ASSUME NEW i \in 1 .. nat - 1 PROVE next[i].v # low
                <5>1. i \in 1 .. n - 1 /\ i + 1 \in 1 .. at - 1
                    BY <1>1, <1>4, <4>1
                <5> QED BY <1>4, <2>3, <5>1
            <4>6. \A i \in 1 .. n : i \in 1 .. n - 1 \/ i = n
                BY <1>1
            <4>7. \A i \in 1 .. n : low <= next[i].v
                BY <1>1, <1>4, <2>4, <4>2, <4>3, <4>6
            <4> QED BY <1>4, <2>2, <4>1, <4>4, <4>5, <4>7 DEF LeastAt
        <3> QED BY <3>1, <3>2
    <2>6. /\ nev = [victim |-> next[nat].k, rest |-> nev.rest]
          /\ nev.rest \in Seq(E) /\ Len(nev.rest) = n - 1
          /\ \A i \in 1 .. n - nat : nev.rest[i] = Aged(next[nat + i], nlow)
          /\ \A i \in 1 .. nat - 1 : nev.rest[n - nat + i] = Aged(next[i], nlow + 1)
        BY <2>2, <2>5, EvictMainIs DEF n, E
    <2> HIDE DEF nlow, nat, nev
    <2>7. next[nat].k = main[at].k
        <3>1. CASE at = 1
            BY <1>2, <2>1, <2>2, <3>1 DEF nat
        <3>2. CASE at # 1
            <4>1. at - 1 \in 1 .. n - 1 /\ (at - 1) + 1 = at
                BY <1>1, <1>4, <3>2
            <4> QED BY <2>2, <3>2, <4>1 DEF nat
        <3> QED BY <3>1, <3>2
    <2>8. ASSUME NEW i \in 1 .. n - 1 PROVE nev.rest[i] = ev.rest[i]
        <3>1. CASE at = 1
            <4>1. /\ nat = n /\ nlow + 1 = low /\ i \in 1 .. nat - 1 /\ n - nat + i = i
                  /\ i \in 1 .. n - at /\ at + i = i + 1
                BY <1>1, <1>4, <3>1 DEF nat, nlow
            <4>2. nev.rest[i] = Aged(next[i], low) /\ ev.rest[i] = Aged(main[i + 1], low)
                BY <1>5, <2>6, <4>1
            <4> QED BY <2>2, <4>2
        <3>2. CASE at # 1
            <4>1. nat = at - 1 /\ nlow = low
                BY <3>2 DEF nat, nlow
            <4>2. CASE i <= n - at
                <5>1. /\ i \in 1 .. n - nat /\ nat + i \in 1 .. n - 1 /\ (nat + i) + 1 = at + i
                      /\ i \in 1 .. n - at
                    BY <1>1, <1>4, <3>2, <4>1, <4>2
                <5>2. nev.rest[i] = Aged(next[nat + i], low) /\ ev.rest[i] = Aged(main[at + i], low)
                    BY <1>5, <2>6, <4>1, <5>1
                <5> QED BY <2>2, <5>1, <5>2
            <4>3. CASE i = n - at + 1
                <5>1. /\ i \in 1 .. n - nat /\ nat + i = n /\ 1 \in 1 .. at - 1 /\ n - at + 1 = i
                    BY <1>1, <1>4, <3>2, <4>1, <4>3
                <5>2. nev.rest[i] = Aged(x, low) /\ ev.rest[i] = Aged(head, low + 1)
                    BY <1>2, <1>5, <2>2, <2>6, <4>1, <5>1
                <5>3. head.v - 1 - low = head.v - (low + 1)
                    BY <1>4, <2>1
                <5> QED BY <2>1, <5>2, <5>3 DEF Aged
            <4>4. CASE i > n - at + 1
                <5> DEFINE j == i - (n - nat)
                <5>1. /\ j \in 1 .. nat - 1 /\ n - nat + j = i /\ j \in 1 .. n - 1
                      /\ j + 1 \in 1 .. at - 1 /\ n - at + (j + 1) = i
                    BY <1>1, <1>4, <3>2, <4>1, <4>4
                <5> HIDE DEF j
                <5>2. nev.rest[i] = Aged(next[j], low + 1) /\ ev.rest[i] = Aged(main[j + 1], low + 1)
                    BY <1>5, <2>6, <4>1, <5>1
                <5> QED BY <2>2, <5>1, <5>2
            <4> QED BY <1>1, <1>4, <4>2, <4>3, <4>4
        <3> QED BY <3>1, <3>2
    <2>9. nev.rest = ev.rest
        BY <1>5, <2>6, <2>8, SeqEqual
    <2>10. ev = nev
        BY <1>5, <2>6, <2>7, <2>9
    <2> QED BY <1>7, <2>10 DEF ev, nev, next, x, t, head
<1> QED BY <1>6, <1>7 DEF ev, t, head

-----------------------------------------------------------------------------
(***************************************************************************)
(* Under LRU a call never evicts its own experts, whatever the number of   *)
(* slots; and while no read raises, the pool answers every call as the     *)
(* stock layer would (StockSwitch).                                        *)
(*                                                                         *)
(* The argument: the experts a call has processed are the most recent      *)
(* entries of id2slot (Recent).  An eviction happens only when every slot  *)
(* is taken; the call still has an expert to place, so fewer than NSlots   *)
(* are processed, and the least recent entry is none of them.              *)
(***************************************************************************)

\* Every processed entry is more recent than every other.
RecentIn(d, P) == \A i, j \in DOMAIN d : d[i].k \in P /\ d[j].k \notin P => j < i

Recent == RecentIn(id2slot, Processed)

\* A call never has more experts than there are slots.
CallFits == /\ pc \notin Rest => Cardinality(routed) <= NSlots
            /\ pc \in {"sweep", "retouch"} => Cardinality(routed) = NSlots

LruInv == TypeInv /\ CallFits /\ NoSelfEviction /\ Recent

\* Replacing an entry by a new last one, as an eviction and move_to_end do,
\* keeps the processed entries most recent.
LEMMA RecentReplace ==
    ASSUME NEW d \in OrderedDicts(Experts, Slots), NEW a \in OrderedDicts(Experts, Slots),
           NEW p \in 1 .. Len(d), NEW P, RecentIn(d, P), Len(a) = Len(d),
           \A j \in 1 .. Len(d) - 1 : a[j] = IF j < p THEN d[j] ELSE d[j + 1]
    PROVE  RecentIn(a, P \cup {a[Len(d)].k})
<1> DEFINE n == Len(d)
           x == a[n]
           s(j) == IF j < p THEN j ELSE j + 1
<1>1. /\ n \in Nat /\ DOMAIN d = 1 .. n /\ DOMAIN a = 1 .. n
      /\ \A i, j \in DOMAIN a : a[i].k = a[j].k => i = j
    BY DictType
<1>2. \A j \in 1 .. n - 1 : a[j] = d[s(j)] /\ s(j) \in 1 .. n
    BY <1>1
<1>3. a[n] = x /\ p \in 1 .. n
    OBVIOUS
<1> HIDE DEF n, x
<1> SUFFICES ASSUME NEW i \in 1 .. n, NEW j \in 1 .. n,
                    a[i].k \in P \cup {x.k}, a[j].k \notin P \cup {x.k}
             PROVE  j < i
    BY <1>1 DEF RecentIn, n, x
<1>4. j # n
    BY <1>3
<1>5. CASE i = n
    BY <1>1, <1>4, <1>5
<1>6. CASE i # n
    <2>1. i \in 1 .. n - 1 /\ j \in 1 .. n - 1
        BY <1>1, <1>4, <1>6
    <2>2. n \in 1 .. n /\ a[i].k # x.k
        BY <1>1, <1>3, <1>6
    <2>3. s(j) < s(i)
        <3>0. a[i] = d[s(i)] /\ a[j] = d[s(j)]
            BY <1>2, <2>1
        <3>1. d[s(i)].k \in P /\ d[s(j)].k \notin P /\ s(i) \in DOMAIN d /\ s(j) \in DOMAIN d
            BY <3>0, <1>1, <1>2, <2>1, <2>2
        <3> HIDE DEF s
        <3> QED BY <3>1 DEF RecentIn
    <2> QED BY <1>1, <2>1, <2>3
<1> QED BY <1>5, <1>6

LEMMA RecentAppend ==
    ASSUME NEW d \in OrderedDicts(Experts, Slots), NEW e \in Experts, e \notin Keys(d),
           NEW v \in Slots, NEW P, RecentIn(d, P)
    PROVE  RecentIn(Append(d, [k |-> e, v |-> v]), P \cup {e})
<1> DEFINE a == Append(d, [k |-> e, v |-> v])
           n == Len(d)
<1>1. /\ n \in Nat /\ DOMAIN d = 1 .. n
      /\ a \in OrderedDicts(Experts, Slots) /\ Len(a) = n + 1
      /\ \A j \in 1 .. n : a[j] = d[j]
      /\ a[n + 1].k = e
    BY DictType, AppendElements
<1>2. DOMAIN a = 1 .. n + 1
    BY <1>1, DictType
<1>3. \A j \in 1 .. n : d[j].k # e
    BY <1>1 DEF Keys
<1> HIDE DEF a, n
<1> SUFFICES ASSUME NEW i \in 1 .. n + 1, NEW j \in 1 .. n + 1,
                    a[i].k \in P \cup {e}, a[j].k \notin P \cup {e}
             PROVE  j < i
    BY <1>2 DEF RecentIn, a
<1>4. j \in 1 .. n
    BY <1>1
<1>5. CASE i = n + 1
    BY <1>1, <1>4, <1>5
<1>6. CASE i \in 1 .. n
    BY <1>1, <1>3, <1>4, <1>6 DEF RecentIn
<1> QED BY <1>1, <1>5, <1>6

\* A hit, and a binding that evicts something unprocessed, keep the order.
LEMMA HitRecent ==
    ASSUME Books, NEW e \in Resident, NEW P, RecentIn(id2slot, P),
           id2slot' = MoveToEnd(id2slot, e)
    PROVE  RecentIn(id2slot', P \cup {e})
<1> DEFINE p == IndexOf(id2slot, e)
           n == Len(id2slot)
<1>1. id2slot \in OrderedDicts(Experts, Slots) /\ e \in Keys(id2slot)
    BY DEF Books, Resident
<1>2. p \in 1 .. n /\ id2slot[p].k = e
    BY <1>1, DictType, DictIndex
<1>3. /\ id2slot' \in OrderedDicts(Experts, Slots) /\ Len(id2slot') = n
      /\ \A j \in 1 .. n - 1 : id2slot'[j] = IF j < p THEN id2slot[j] ELSE id2slot[j + 1]
      /\ id2slot'[n] = id2slot[p]
    BY <1>1, MoveToEndElements
<1>4. RecentIn(id2slot', P \cup {id2slot'[n].k})
    <2> HIDE DEF p
    <2> QED BY <1>1, <1>2, <1>3, RecentReplace
<1> QED BY <1>2, <1>3, <1>4

LEMMA BindRecent ==
    ASSUME Books, NEW e \in Experts, e \notin Resident, NEW P, RecentIn(id2slot, P),
           BindFree(e) \/ \E victim : BindOver(victim, e)
    PROVE  RecentIn(id2slot', P \cup {e})
<1>1. id2slot \in OrderedDicts(Experts, Slots) /\ e \notin Keys(id2slot)
    BY DEF Books, Resident
<1>2. CASE BindFree(e)
    <2>1. Last(free) \in Slots
        BY <1>2, FrontLast DEF BindFree, Books
    <2> QED BY <1>1, <1>2, <2>1, RecentAppend DEF BindFree
<1>3. ASSUME NEW victim, BindOver(victim, e)
      PROVE  RecentIn(id2slot', P \cup {e})
    <2> DEFINE p == IndexOf(id2slot, victim)
               n == Len(id2slot)
               w == Without(id2slot, victim)
               s == Get(id2slot, victim)
    <2>1. victim \in Keys(id2slot) /\ id2slot' = Append(w, [k |-> e, v |-> s])
        BY <1>3 DEF BindOver, Resident
    <2>2. p \in 1 .. n /\ n \in Nat /\ s \in Slots
        BY <1>1, <2>1, DictType, DictIndex
    <2>3. /\ w \in OrderedDicts(Experts, Slots) /\ Len(w) = n - 1
          /\ \A j \in 1 .. n - 1 : w[j] = IF j < p THEN id2slot[j] ELSE id2slot[j + 1]
          /\ Range(w) \subseteq Range(id2slot)
        BY <1>1, <2>1, WithoutElements
    <2>4. e \notin Keys(w)
        BY <1>1, <2>3, DictRange
    <2> HIDE DEF p, w, s
    <2>5. /\ id2slot' \in OrderedDicts(Experts, Slots) /\ Len(id2slot') = n
          /\ \A j \in 1 .. n - 1 : id2slot'[j] = w[j]
          /\ id2slot'[n] = [k |-> e, v |-> s]
        <3>1. LET a == Append(w, [k |-> e, v |-> s])
              IN  /\ a \in OrderedDicts(Experts, Slots)
                  /\ Len(a) = Len(w) + 1
                  /\ \A j \in 1 .. Len(w) : a[j] = w[j]
                  /\ a[Len(w) + 1] = [k |-> e, v |-> s]
            BY <2>2, <2>3, <2>4, AppendElements
        <3>2. Len(w) + 1 = n
            BY <2>2, <2>3
        <3> QED BY <2>1, <2>3, <3>1, <3>2
    <2>6. RecentIn(id2slot', P \cup {id2slot'[n].k})
        <3>1. \A j \in 1 .. n - 1 : id2slot'[j] = IF j < p THEN id2slot[j] ELSE id2slot[j + 1]
            BY <2>3, <2>5
        <3>2. p \in 1 .. n /\ Len(id2slot') = n
            BY <2>2, <2>5
        <3>3. id2slot \in OrderedDicts(Experts, Slots) /\ RecentIn(id2slot, P)
            BY <1>1
        <3> QED BY <2>5, <3>1, <3>2, <3>3, RecentReplace
    <2> QED BY <2>5, <2>6
<1> QED BY <1>2, <1>3

\* With every slot taken, fewer processed experts than slots, and the
\* processed ones most recent, the head of id2slot is not one of them.
LEMMA HeadUnprocessed ==
    ASSUME Books, free = <<>>, NEW P, IsFiniteSet(P), Cardinality(P) < NSlots,
           RecentIn(id2slot, P), id2slot # <<>>
    PROVE  Head(id2slot).k \notin P
<1> SUFFICES ASSUME Head(id2slot).k \in P PROVE FALSE
    OBVIOUS
<1>1. /\ id2slot \in Seq(Entry(Experts, Slots)) /\ DOMAIN id2slot = 1 .. Len(id2slot)
      /\ Len(id2slot) \in Nat
    BY DictType DEF Books
<1>2. Len(id2slot) # 0
    BY <1>1, EmptySeq
<1>3. 1 \in DOMAIN id2slot /\ Head(id2slot) = id2slot[1]
    BY <1>1, <1>2
<1>4. \A j \in DOMAIN id2slot : id2slot[j].k \in P
    BY <1>1, <1>3 DEF RecentIn
<1>5. Resident \subseteq P
    BY <1>4 DEF Resident, Keys
<1>6. IsFiniteSet(Resident) /\ Cardinality(Resident) <= Cardinality(P)
    BY <1>5, FS_Subset
<1>7. NSlots \in Nat /\ IsFiniteSet(Slots) /\ Cardinality(Slots) = NSlots
    <2>1. NSlots \in Nat /\ NSlots >= 1
        BY NSlotsAssumption, ExpertsAssumption, FS_CardinalityType
    <2> QED BY <2>1, FS_Interval DEF Slots
<1> DEFINE f == [r \in Resident |-> Get(id2slot, r)]
<1>8. f \in Surjection(Resident, Slots)
    <2>1. f \in [Resident -> Slots]
        BY DictIndex DEF Books, Resident
    <2>2. ASSUME NEW s \in Slots PROVE \E r \in Resident : f[r] = s
        <3>1. Range(free) = {}
            BY DEF Range
        <3>2. PICK x \in Entries : x.v = s
            BY <3>1 DEF Books
        <3>3. x.k \in Resident /\ Get(id2slot, x.k) = s
            BY <3>2, DictRange DEF Books, Entries, Resident
        <3> QED BY <3>3
    <2> QED BY <2>1, <2>2 DEF Surjection
<1>9. Cardinality(Slots) <= Cardinality(Resident)
    BY <1>6, <1>8, FS_Surjection
<1> QED BY <1>6, <1>7, <1>9, FS_CardinalityType

-----------------------------------------------------------------------------
(* One loop iteration: the expert it handles joins the processed ones.     *)
LEMMA HitKeepsRecent ==
    ASSUME Policy = "lru", Books, NEW e \in Resident, NEW P, P \subseteq Resident,
           RecentIn(id2slot, P), PolicyHit(e)
    PROVE  P \cup {e} \subseteq Resident' /\ RecentIn(id2slot', P \cup {e})
<1>1. Resident' = Resident
    BY HitBooks
<1>2. id2slot' = MoveToEnd(id2slot, e)
    BY DEF PolicyHit
<1> QED BY <1>1, <1>2, HitRecent

LEMMA TakeKeepsRecent ==
    ASSUME Policy = "lru", Books, NEW e \in Experts, e \notin Resident, TakeSlotFor(e),
           NEW P, P \subseteq Resident, IsFiniteSet(P), Cardinality(P) < NSlots,
           RecentIn(id2slot, P)
    PROVE  P \cup {e} \subseteq Resident' /\ RecentIn(id2slot', P \cup {e})
<1>1. BindFree(e) \/ (free = <<>> /\ BindOver(Head(id2slot).k, e))
    BY DEF TakeSlotFor
<1>2. RecentIn(id2slot', P \cup {e})
    BY <1>1, BindRecent
<1>3. CASE BindFree(e)
    BY <1>2, <1>3, BindFreeBooks
<1>4. CASE free = <<>> /\ BindOver(Head(id2slot).k, e)
    <2>1. id2slot # <<>>
        <3>1. Resident # {}
            BY <1>4 DEF BindOver
        <3> QED BY <3>1 DEF Resident, Keys
    <2>2. Head(id2slot).k \notin P
        BY <1>4, <2>1, HeadUnprocessed
    <2> QED BY <1>2, <1>4, <2>2, BindOverBooks
<1> QED BY <1>1, <1>3, <1>4

LEMMA LruInvInit == Init => LruInv
<1> SUFFICES ASSUME Init PROVE LruInv
    OBVIOUS
<1>1. TypeInv
    BY TypeInvInit
<1>2. Processed = {}
    BY DEF Init, Processed
<1>3. CallFits
    BY DEF Init, CallFits, Rest
<1> QED BY <1>1, <1>2, <1>3 DEF LruInv, NoSelfEviction, Recent, RecentIn

LEMMA LruInvStep == Policy = "lru" /\ LruInv /\ [Next]_vars => LruInv'
<1> SUFFICES ASSUME Policy = "lru", LruInv, [Next]_vars PROVE LruInv'
    OBVIOUS
<1>0. TypeInv /\ TypeInv'
    BY TypeInvStep DEF LruInv
<1>1. /\ CallFits /\ NoSelfEviction /\ RecentIn(id2slot, Processed) /\ Books
      /\ todo \subseteq routed /\ routed \subseteq Experts
    BY <1>0 DEF LruInv, Recent, TypeInv, TypeOK
<1>2. ASSUME CallFits', Processed' \subseteq Resident', RecentIn(id2slot', Processed')
      PROVE  LruInv'
    BY <1>0, <1>2 DEF LruInv, Recent, NoSelfEviction
<1>3. ASSUME Processed' = {}, CallFits' PROVE LruInv'
    BY <1>2, <1>3 DEF RecentIn
<1>4. ASSUME Raises PROVE LruInv'
    BY <1>3, <1>4 DEF Raises, Processed, CallFits, Rest
<1>5. ASSUME UNCHANGED poolVars, Processed' = Processed, CallFits' PROVE LruInv'
    BY <1>1, <1>2, <1>5 DEF poolVars, NoSelfEviction, Resident
\* A loop iteration on e.
<1>6. ASSUME NEW e \in todo, pc \in {"touch", "bind", "sweep"},
             pc' = pc, routed' = routed, todo' = todo \ {e},
             \/ e \in Resident /\ PolicyHit(e)
             \/ pc # "touch" /\ e \notin Resident /\ TakeSlotFor(e)
      PROVE  LruInv'
    <2>1. CallFits'
        BY <1>1, <1>6 DEF CallFits
    <2>2. Processed' = Processed \cup {e}
        <3>1. CASE pc = "touch"
            <4>1. Resident' = Resident /\ e \in Resident
                BY <1>1, <1>6, <3>1, HitBooks
            <4> QED BY <1>1, <1>6, <3>1, <4>1 DEF Processed
        <3>2. CASE pc # "touch"
            BY <1>1, <1>6, <3>2 DEF Processed
        <3> QED BY <3>1, <3>2
    <2>3. IsFiniteSet(Processed) /\ Cardinality(Processed) < NSlots
        <3>1. Processed \subseteq routed \ {e} /\ e \in routed
            BY <1>1, <1>6 DEF Processed
        <3>2. IsFiniteSet(routed)
            BY <1>1, ExpertsAssumption, FS_Subset
        <3>3. /\ IsFiniteSet(routed \ {e}) /\ Cardinality(routed \ {e}) = Cardinality(routed) - 1
              /\ Cardinality(routed) \in Nat
            BY <3>1, <3>2, FS_RemoveElement, FS_CardinalityType
        <3>4. /\ IsFiniteSet(Processed)
              /\ Cardinality(Processed) <= Cardinality(routed \ {e})
              /\ Cardinality(Processed) \in Nat
            BY <3>1, <3>3, FS_Subset, FS_CardinalityType
        <3>5. Cardinality(routed) <= NSlots /\ NSlots \in Nat
            BY <1>1, <1>6, NSlotsAssumption, ExpertsAssumption, FS_CardinalityType DEF CallFits, Rest
        <3> QED BY <3>3, <3>4, <3>5
    <2>4. Processed \cup {e} \subseteq Resident' /\ RecentIn(id2slot', Processed \cup {e})
        <3>1. CASE e \in Resident /\ PolicyHit(e)
            BY <1>1, <3>1, HitKeepsRecent DEF NoSelfEviction
        <3>2. CASE e \notin Resident /\ TakeSlotFor(e)
            BY <1>1, <2>3, <3>2, TakeKeepsRecent DEF NoSelfEviction
        <3> QED BY <1>6, <3>1, <3>2
    <2> QED BY <1>2, <2>1, <2>2, <2>4
<1>7. CASE PrefetchStart
    BY <1>1, <1>5, <1>7 DEF PrefetchStart, callVars, CallFits, Processed, Resident, poolVars
<1>8. CASE CallDecode
    BY <1>3, <1>8 DEF CallDecode, Begin, Fits, CallFits, Processed, Rest
<1>9. CASE CallPrefill
    <2>1. Processed' = {}
        BY <1>9 DEF CallPrefill, Begin, Processed
    <2> QED BY <1>3, <1>9, <2>1 DEF CallPrefill, Begin, Fits, CallFits, Rest
<1>10. CASE SweepStart
    <2>1. Processed' = {}
        BY <1>10 DEF SweepStart, Begin, Processed
    <2>2. NSlots \in Nat
        BY NSlotsAssumption, ExpertsAssumption, FS_CardinalityType
    <2> QED BY <1>3, <1>10, <2>1, <2>2 DEF SweepStart, Begin, CallFits, Rest
<1>11. CASE AbsorbStep
    <2> PICK e \in todo :
          \/ todo' = todo \ {e} /\ UNCHANGED <<pf, pc, missing, routed, out>>
          \/ Raises
        BY <1>11 DEF AbsorbStep
    <2>1. CASE Raises
        BY <1>4, <2>1
    <2>2. CASE UNCHANGED <<pf, pc, missing, routed, out>>
        BY <1>1, <1>3, <1>11, <2>2 DEF AbsorbStep, Processed, CallFits
    <2> QED BY <2>1, <2>2
<1>12. CASE AbsorbDone
    <2>1. Processed' = {}
        BY <1>12 DEF AbsorbDone, Processed, poolVars, Resident
    <2> QED BY <1>1, <1>3, <1>12, <2>1 DEF AbsorbDone, CallFits, Rest
<1>13. CASE TouchStep
    <2> PICK e \in todo : PolicyHit(e) /\ todo' = todo \ {e}
        BY <1>13 DEF TouchStep
    <2>1. e \in Resident
        BY <1>0, <1>13 DEF TypeInv, TodoHeld, TouchStep
    <2> QED BY <1>6, <1>13, <2>1 DEF TouchStep
<1>14. CASE DispatchHits
    <2>1. Processed' = Processed
        BY <1>14 DEF DispatchHits, Processed, Resident, poolVars
    <2> QED BY <1>1, <1>5, <1>14, <2>1 DEF DispatchHits, CallFits, Rest
<1>15. CASE BindStep
    <2> PICK e \in todo :
          \/ e \in Resident /\ PolicyHit(e) /\ todo' = todo \ {e} /\ UNCHANGED <<pc, routed>>
          \/ e \notin Resident /\ TakeSlotFor(e) /\ todo' = todo \ {e} /\ UNCHANGED <<pc, routed>>
          \/ Raises
        BY <1>15 DEF BindStep
    <2> QED BY <1>4, <1>6, <1>15 DEF BindStep
<1>16. CASE BindDone
    <2>1. Processed' = Processed
        BY <1>16 DEF BindDone, Processed
    <2> QED BY <1>1, <1>5, <1>16, <2>1 DEF BindDone, CallFits, Rest
<1>17. CASE Fetch
    BY <1>3, <1>17 DEF Fetch, Processed, CallFits, Rest
<1>18. CASE FetchUnmapped \/ FetchRaises \/ SweepRaises
    BY <1>4, <1>18 DEF FetchUnmapped, FetchRaises, SweepRaises
<1>19. CASE SweepAdopt
    <2> PICK e \in todo :
          \/ Adopt(e) /\ todo' = todo \ {e} /\ UNCHANGED <<pc, routed>>
          \/ Raises
        BY <1>19 DEF SweepAdopt
    <2>1. CASE Raises
        BY <1>4, <2>1
    <2>2. CASE Adopt(e) /\ todo' = todo \ {e} /\ UNCHANGED <<pc, routed>>
        BY <1>6, <1>19, <2>2 DEF SweepAdopt, Adopt
    <2> QED BY <2>1, <2>2
<1>20. CASE SweepRetouch
    <2>1. Processed' = Processed
        BY <1>1, <1>20 DEF SweepRetouch, Processed
    <2> QED BY <1>1, <1>5, <1>20, <2>1 DEF SweepRetouch, CallFits, Rest
<1>21. CASE RetouchStep
    <2> PICK e \in todo : id2slot' = MoveToEnd(id2slot, e) /\ todo' = todo \ {e}
        BY <1>21 DEF RetouchStep
    <2>1. e \in Resident /\ e \in Processed /\ Processed' = Processed
        BY <1>0, <1>1, <1>21 DEF TypeInv, TodoHeld, RetouchStep, Processed
    <2>2. Resident' = Resident
        BY <1>1, <1>21, <2>1, MovedBooks DEF RetouchStep
    <2>3. RecentIn(id2slot', Processed \cup {e})
        BY <1>1, <2>1, HitRecent
    <2>4. Processed \cup {e} = Processed
        BY <2>1
    <2> QED BY <1>1, <1>2, <1>21, <2>1, <2>2, <2>3, <2>4 DEF RetouchStep, CallFits, NoSelfEviction
<1>22. CASE SweepDone
    BY <1>3, <1>22 DEF SweepDone, Processed, CallFits, Rest
<1>23. CASE UNCHANGED vars
    <2>1. Processed' = Processed
        BY <1>23 DEF vars, Processed, Resident
    <2> QED BY <1>1, <1>5, <1>23, <2>1 DEF vars, poolVars, CallFits
<1> QED BY <1>7, <1>8, <1>9, <1>10, <1>11, <1>12, <1>13, <1>14, <1>15, <1>16, <1>17, <1>18,
           <1>19, <1>20, <1>21, <1>22, <1>23 DEF Next, Step

\* Under LRU no call evicts an expert it has touched or bound, and no sweep
\* one it has adopted, for every number of slots and whether or not reads
\* raise: eviction never reclaims a slot a running call is using.
THEOREM NeverEvictsItself == Policy = "lru" => (Spec => []NoSelfEviction)
<1> SUFFICES ASSUME Policy = "lru" PROVE Spec => []NoSelfEviction
    OBVIOUS
<1>1. LruInv /\ [Next]_vars => LruInv'
    BY LruInvStep
<1>2. LruInv => NoSelfEviction
    BY DEF LruInv
<1> QED BY LruInvInit, <1>1, <1>2, PTL DEF Spec

\* The pool never holds more experts than it has slots.
LEMMA ResidentFits ==
    ASSUME Books
    PROVE  IsFiniteSet(Resident) /\ Cardinality(Resident) <= NSlots
<1>1. NSlots \in Nat /\ IsFiniteSet(Slots) /\ Cardinality(Slots) = NSlots
    <2>1. NSlots \in Nat /\ NSlots >= 1
        BY NSlotsAssumption, ExpertsAssumption, FS_CardinalityType
    <2> QED BY <2>1, FS_Interval DEF Slots
<1> DEFINE f == [r \in Resident |-> Get(id2slot, r)]
<1>2. f \in Injection(Resident, Slots)
    <2>1. f \in [Resident -> Slots]
        BY DictIndex DEF Books, Resident
    <2>2. ASSUME NEW a \in Resident, NEW b \in Resident, f[a] = f[b] PROVE a = b
        <3>1. /\ [k |-> a, v |-> f[a]] \in Entries /\ [k |-> b, v |-> f[a]] \in Entries
            BY <2>2, DictRange DEF Books, Resident, Entries
        <3>2. [k |-> a, v |-> f[a]] = [k |-> b, v |-> f[a]]
            BY <3>1 DEF Books
        <3> QED BY <3>2
    <2> QED BY <2>1, <2>2 DEF Injection, IsInjective
<1> QED BY <1>1, <1>2, FS_Injection

-----------------------------------------------------------------------------
(* While no read raises: the rows of every resident expert are its own,    *)
(* but for the experts ensure() has bound and not yet read.                *)
RowsOK == \A x \in Entries :
    rows[x.v] = x.k \/ (pc \in {"bind", "fetch"} /\ x.k \in Range(missing))

MissingOK == IF pc \in {"bind", "fetch"} THEN Range(missing) \subseteq routed \ todo
                                        ELSE missing = <<>>

OutOK == \A e \in DOMAIN out : out[e] = e

ExactInv == LruInv /\ RowsOK /\ MissingOK /\ OutOK /\ (InCall => routed # {})
            /\ (pc = "fetch" => todo = {})

\* The rows of an expert are found at its slot.
LEMMA RowsAt ==
    ASSUME Books, RowsOK, NEW e \in Resident
    PROVE  rows[Get(id2slot, e)] = e \/ (pc \in {"bind", "fetch"} /\ e \in Range(missing))
<1> DEFINE x == [k |-> e, v |-> Get(id2slot, e)]
<1>1. x \in Entries /\ x.k = e /\ x.v = Get(id2slot, e)
    BY DictRange DEF Books, Resident, Entries
<1> HIDE DEF x
<1> QED BY <1>1 DEF RowsOK

LEMMA AdoptRows ==
    ASSUME TypeInv, RowsOK, pc \notin {"bind", "fetch"}, NEW e \in Experts, Adopt(e)
    PROVE  \A x \in Entries' : rows'[x.v] = x.k
<1> DEFINE s == Get(id2slot', e)
           x0 == [k |-> e, v |-> s]
<1>1. Books /\ Books' /\ rows \in [Slots -> Experts \cup {Zeros}]
    BY AdoptBooks DEF TypeInv, TypeOK
<1>2. x0 \in Entries' /\ x0.k = e /\ x0.v = s
      /\ \A x \in Entries' : x # x0 => x \in Entries
    <2>1. CASE e \in Resident /\ PolicyHit(e)
        <3>1. Entries' = Entries /\ e \in Resident'
            BY <1>1, <2>1, HitBooks
        <3> QED BY <1>1, <3>1, DictRange DEF Books, Resident, Entries
    <2>2. CASE e \notin Resident /\ TakeSlotFor(e)
        BY <1>1, <2>2, TakeBooks
    <2> QED BY <2>1, <2>2 DEF Adopt
<1>3. \A x \in Entries' : x.v \in Slots /\ (x.v = s => x = x0)
    <2>1. \A x \in Range(id2slot') : x.v \in Slots
        BY <1>1, DictType DEF Books, Range
    <2> HIDE DEF x0, s
    <2> QED BY <1>1, <1>2, <2>1 DEF Books, Entries
<1>4. rows' = [rows EXCEPT ![s] = e]
    BY DEF Adopt
<1> HIDE DEF x0, s
<1> SUFFICES ASSUME NEW x \in Entries' PROVE rows'[x.v] = x.k
    OBVIOUS
<1>5. CASE x = x0
    BY <1>1, <1>2, <1>3, <1>4, <1>5
<1>6. CASE x # x0
    <2>1. x \in Entries /\ x.v # s /\ x.v \in Slots
        BY <1>2, <1>3, <1>6
    <2> QED BY <1>1, <1>4, <2>1 DEF RowsOK
<1> QED BY <1>5, <1>6

LEMMA FetchRows ==
    ASSUME TypeInv, RowsOK, rows' = Written(Range(missing)), UNCHANGED id2slot
    PROVE  \A e \in Resident : rows'[Get(id2slot, e)] = e
<1> SUFFICES ASSUME NEW e \in Resident PROVE rows'[Get(id2slot, e)] = e
    OBVIOUS
<1> DEFINE ids == Range(missing)
           s == Get(id2slot, e)
<1>1. Books
    BY DEF TypeInv
<1>2. s \in Slots
    BY <1>1, DictIndex DEF Books, Resident
<1>3. \A f \in Resident : Get(id2slot, f) = s => f = e
    <2>1. \A f \in Resident : [k |-> f, v |-> Get(id2slot, f)] \in Entries
        BY <1>1, DictRange DEF Books, Resident, Entries
    <2> SUFFICES ASSUME NEW f \in Resident, Get(id2slot, f) = s PROVE f = e
        OBVIOUS
    <2>2. [k |-> f, v |-> s] = [k |-> e, v |-> s]
        BY <1>1, <2>1 DEF Books
    <2> QED BY <2>2
<1>4. rows'[s] = IF \E f \in ids : f \in Resident /\ Get(id2slot, f) = s
                 THEN CHOOSE f \in ids : f \in Resident /\ Get(id2slot, f) = s
                 ELSE rows[s]
    BY <1>2 DEF Written
<1> HIDE DEF ids, s
<1>5. CASE \E f \in ids : f \in Resident /\ Get(id2slot, f) = s
    <2>1. (CHOOSE f \in ids : f \in Resident /\ Get(id2slot, f) = s) = e
        BY <1>3, <1>5
    <2> QED BY <1>4, <1>5, <2>1 DEF s
<1>6. CASE ~\E f \in ids : f \in Resident /\ Get(id2slot, f) = s
    <2>1. e \notin ids
        BY <1>6 DEF s
    <2>2. rows[s] = e
        BY <1>1, <2>1, RowsAt DEF s, ids
    <2> QED BY <1>4, <1>6, <2>2 DEF s
<1> QED BY <1>5, <1>6

LEMMA ExactInvInit == Init => ExactInv
<1> SUFFICES ASSUME Init PROVE ExactInv
    OBVIOUS
<1>1. LruInv
    BY LruInvInit
<1>2. Entries = {} /\ DOMAIN out = {}
    BY DEF Init, Entries, Range
<1> QED BY <1>1, <1>2 DEF ExactInv, RowsOK, MissingOK, OutOK, Init, InCall

\* What a step does to the invariant, and what the host sees of it.
LEMMA ExactInvStep ==
    ASSUME Policy = "lru", ~ReadsFail, ExactInv, [Next]_vars
    PROVE  ExactInv' /\ [Stock!Next]_(Stock!vars)
<1> DEFINE Seen == UNCHANGED <<IF InCall THEN routed ELSE {}, IF InCall THEN <<>> ELSE out>>
<1>0. /\ TypeInv /\ LruInv' /\ Books /\ Books'
      /\ todo \subseteq routed /\ routed \subseteq Experts /\ pc \in Rest \cup {"absorb", "touch", "bind", "fetch", "sweep", "retouch"}
      /\ NoSelfEviction /\ RowsOK /\ MissingOK /\ OutOK
      /\ missing \in Seq(Experts)
    BY LruInvStep DEF ExactInv, LruInv, TypeInv, TypeOK
<1>1. ~Raises \/ ~(\E e \in Experts : TakeSlotRaises(e))
    BY DEF TakeSlotRaises
<1>2. ASSUME Seen PROVE [Stock!Next]_(Stock!vars)
    BY <1>2 DEF Stock!vars
<1>3. ASSUME \A x \in Entries' : rows'[x.v] = x.k, OutOK', MissingOK', InCall' => routed' # {},
             pc' = "fetch" => todo' = {}
      PROVE  ExactInv'
    BY <1>0, <1>3 DEF ExactInv, RowsOK
\* A step that leaves the books' entries and the rows alone.
<1>4. ASSUME Entries' = Entries, rows' = rows, pc \notin {"bind", "fetch"} \/ pc' \in {"bind", "fetch"},
             missing' = missing, OutOK', MissingOK', InCall' => routed' # {},
             pc' = "fetch" => todo' = {}
      PROVE  ExactInv'
    BY <1>0, <1>4 DEF ExactInv, RowsOK
<1>5. UNCHANGED poolVars => Entries' = Entries /\ Resident' = Resident
    BY DEF poolVars, Entries, Resident
<1>6. CASE PrefetchStart
    <2>1. ExactInv'
        BY <1>0, <1>4, <1>5, <1>6 DEF PrefetchStart, callVars, ExactInv, OutOK, MissingOK, InCall, Rest
    <2>2. Seen
        BY <1>6 DEF PrefetchStart, callVars, InCall
    <2> QED BY <1>2, <2>1, <2>2
\* The start of a call.
<1>7. ASSUME NEW ids \in SUBSET Experts, NEW where \in {"absorb", "bind"}, NEW work,
             Fits(ids), Begin(ids, where, work), out' = <<>>, UNCHANGED <<poolVars, rows>>
      PROVE  ExactInv' /\ [Stock!Next]_(Stock!vars)
    <2>1. pc \notin {"bind", "fetch"} /\ missing = <<>>
        BY <1>0, <1>7 DEF Begin, Rest, MissingOK
    <2>2. OutOK' /\ (InCall' => routed' # {})
        BY <1>7 DEF Begin, Fits, OutOK
    <2>3. MissingOK' /\ missing' = missing
        BY <1>7, <2>1 DEF Begin, MissingOK, Range
    <2>4. ExactInv'
        <3>1. pc' # "fetch" /\ (pc' = "absorb" \/ pc' = "bind")
            BY <1>7 DEF Begin
        <3> QED BY <1>4, <1>5, <1>7, <2>1, <2>2, <2>3, <3>1
    <2>5. ~InCall /\ InCall' /\ routed' = ids
        BY <1>7 DEF Begin, InCall, Rest
    <2>6. Stock!Ask
        BY <1>7, <2>5 DEF Stock!Ask, Fits
    <2> QED BY <2>4, <2>6 DEF Stock!Next
<1>8. CASE CallDecode
    <2>1. out' = <<>> /\ UNCHANGED <<poolVars, rows>>
        BY <1>8 DEF CallDecode
    <2>2. PICK ids \in SUBSET Experts, readOk \in BOOLEAN :
              Fits(ids) /\ Begin(ids, "absorb", IF readOk THEN (pf \cap ids) \ Resident ELSE {})
        BY <1>8 DEF CallDecode
    <2> DEFINE work == IF readOk THEN (pf \cap ids) \ Resident ELSE {}
    <2>3. Fits(ids) /\ Begin(ids, "absorb", work)
        BY <2>2
    <2> HIDE DEF work
    <2> QED BY <1>7, <2>1, <2>3
<1>9. CASE CallPrefill
    <2>1. out' = <<>> /\ UNCHANGED <<poolVars, rows>>
        BY <1>9 DEF CallPrefill
    <2>2. PICK ids \in SUBSET Experts : Fits(ids) /\ Begin(ids, "bind", ids)
        BY <1>9 DEF CallPrefill
    <2> QED BY <1>7, <2>1, <2>2
<1>10. CASE SweepStart
    <2>1. missing = <<>> /\ missing' = <<>> /\ pc' = "sweep" /\ pc \in Rest
          /\ out' = out /\ UNCHANGED <<poolVars, rows>>
        BY <1>0, <1>10 DEF SweepStart, Begin, MissingOK, Rest
    <2>2. ExactInv'
        BY <1>0, <1>4, <1>5, <2>1 DEF MissingOK, OutOK, InCall, Rest
    <2>3. Seen
        BY <2>1 DEF InCall, Rest
    <2> QED BY <1>2, <2>2, <2>3
<1>11. CASE AbsorbStep
    <2>1. PICK e \in todo : Adopt(e) /\ UNCHANGED <<pf, pc, missing, routed, out>>
        BY <1>0, <1>11 DEF AbsorbStep, TakeSlotRaises
    <2>2. pc = "absorb" /\ e \in Experts
        BY <1>0, <1>11 DEF AbsorbStep
    <2>3. \A x \in Entries' : rows'[x.v] = x.k
        BY <1>0, <2>1, <2>2, AdoptRows
    <2>4. ExactInv'
        BY <1>0, <1>3, <2>1, <2>2, <2>3 DEF ExactInv, MissingOK, OutOK, InCall
    <2>5. Seen
        BY <2>1 DEF InCall
    <2> QED BY <1>2, <2>4, <2>5
<1>12. CASE AbsorbDone
    <2>1. UNCHANGED <<poolVars, rows, missing, routed, out>> /\ pc = "absorb" /\ pc' \in {"touch", "bind"}
          /\ missing = <<>>
        BY <1>0, <1>12 DEF AbsorbDone, MissingOK
    <2>2. MissingOK'
        BY <2>1 DEF MissingOK, Range
    <2>3. ExactInv'
        BY <1>0, <1>4, <1>5, <2>1, <2>2 DEF ExactInv, OutOK, InCall
    <2>4. Seen
        BY <2>1 DEF InCall
    <2> QED BY <1>2, <2>3, <2>4
<1>13. CASE TouchStep
    <2>1. PICK e \in todo : PolicyHit(e)
        BY <1>13 DEF TouchStep
    <2>2. UNCHANGED <<rows, pc, missing, routed, out>> /\ pc = "touch"
        BY <1>13 DEF TouchStep
    <2>3. e \in Resident
        BY <1>0, <2>2 DEF TypeInv, TodoHeld
    <2>4. Entries' = Entries
        BY <1>0, <2>1, <2>3, HitBooks
    <2>5. ExactInv'
        BY <1>0, <1>4, <2>2, <2>4 DEF ExactInv, MissingOK, OutOK, InCall
    <2>6. Seen
        BY <2>2 DEF InCall
    <2> QED BY <1>2, <2>5, <2>6
<1>14. CASE DispatchHits
    <2>1. UNCHANGED <<poolVars, rows, missing, routed>> /\ pc = "touch" /\ pc' = "bind"
          /\ out' = [e \in routed \cap Resident |-> rows[Get(id2slot, e)]]
          /\ missing = <<>>
        BY <1>0, <1>14 DEF DispatchHits, MissingOK
    <2>2. OutOK'
        <3>1. \A e \in Resident : rows[Get(id2slot, e)] = e
            BY <1>0, <2>1, RowsAt
        <3> QED BY <2>1, <3>1 DEF OutOK
    <2>3. MissingOK'
        BY <2>1 DEF MissingOK, Range
    <2>4. ExactInv'
        BY <1>4, <1>5, <2>1, <2>2, <2>3 DEF ExactInv, InCall
    <2>5. Seen
        BY <2>1 DEF InCall
    <2> QED BY <1>2, <2>4, <2>5
<1>15. CASE BindStep
    <2>1. pc = "bind" /\ UNCHANGED rows
        BY <1>15 DEF BindStep
    <2>2. PICK e \in todo :
              /\ \/ e \in Resident /\ PolicyHit(e) /\ missing' = missing
                 \/ e \notin Resident /\ TakeSlotFor(e) /\ missing' = Append(missing, e)
              /\ todo' = todo \ {e} /\ UNCHANGED <<pc, routed, out>>
        BY <1>0, <1>15 DEF BindStep, TakeSlotRaises
    <2>3. Seen
        BY <2>2 DEF InCall
    <2>4. OutOK' /\ (InCall' => routed' # {})
        BY <1>0, <2>2 DEF ExactInv, OutOK, InCall
    <2>5. CASE e \in Resident /\ PolicyHit(e) /\ missing' = missing
        <3>1. Entries' = Entries
            BY <1>0, <2>5, HitBooks
        <3>2. MissingOK'
            BY <1>0, <2>1, <2>2, <2>5 DEF MissingOK
        <3> QED BY <1>2, <1>4, <2>1, <2>2, <2>3, <2>4, <2>5, <3>1, <3>2
    <2>6. CASE e \notin Resident /\ TakeSlotFor(e) /\ missing' = Append(missing, e)
        <3>1. e \in Experts
            BY <1>0
        <3>2. Range(missing') = Range(missing) \cup {e}
            <4>0. <<e>> \in Seq(Experts) /\ missing \in Seq(Experts)
                BY <1>0, <3>1
            <4>1. Range(missing \o <<e>>) = Range(missing) \cup Range(<<e>>)
                BY <4>0, RangeConcatenation, ZenonT(40)
            <4>2. Append(missing, e) = missing \o <<e>>
                BY <1>0, <3>1, AppendIsConcat
            <4>3. Range(<<e>>) = {e}
                BY DEF Range
            <4> QED BY <2>6, <4>1, <4>2, <4>3
        <3>3. MissingOK'
            BY <1>0, <2>1, <2>2, <3>2 DEF MissingOK
        <3>4. Entries' = {x \in Entries : x.k \in Resident'} \cup {[k |-> e, v |-> Get(id2slot', e)]}
            BY <1>0, <2>6, <3>1, TakeBooks
        <3>5. RowsOK'
            <4> SUFFICES ASSUME NEW x \in Entries' PROVE rows[x.v] = x.k \/ x.k \in Range(missing')
                BY <2>1, <2>2 DEF RowsOK
            <4>1. CASE x \in Entries
                BY <1>0, <2>1, <3>2, <4>1 DEF RowsOK
            <4>2. CASE x \notin Entries
                <5>1. x.k = e
                    BY <3>4, <4>2
                <5> QED BY <3>2, <5>1
            <4> QED BY <4>1, <4>2
        <3> QED BY <1>0, <1>2, <2>1, <2>2, <2>3, <2>4, <3>3, <3>5 DEF ExactInv
    <2> QED BY <2>2, <2>5, <2>6
<1>16. CASE BindDone
    <2>1. UNCHANGED <<poolVars, rows, missing, routed, out, todo>> /\ pc = "bind" /\ pc' = "fetch"
          /\ todo = {}
        BY <1>16 DEF BindDone
    <2>2. ExactInv'
        BY <1>0, <1>4, <1>5, <2>1 DEF ExactInv, MissingOK, OutOK, InCall
    <2>3. Seen
        BY <2>1 DEF InCall
    <2> QED BY <1>2, <2>2, <2>3
<1>17. CASE Fetch
    <2>1. /\ pc = "fetch" /\ pc' = "idle" /\ missing' = <<>> /\ UNCHANGED <<poolVars, routed>>
          /\ routed \ DOMAIN out \subseteq Resident
          /\ rows' = Written(Range(missing))
          /\ out' = [e \in routed |-> IF e \in DOMAIN out THEN out[e] ELSE rows'[Get(id2slot, e)]]
        BY <1>17 DEF Fetch
    <2>2. \A e \in Resident : rows'[Get(id2slot, e)] = e
        BY <1>0, <2>1, FetchRows DEF poolVars
    <2>3. out' = [e \in routed |-> e]
        BY <1>0, <2>1, <2>2 DEF OutOK
    <2>4. \A x \in Entries' : rows'[x.v] = x.k
        <3> SUFFICES ASSUME NEW x \in Entries PROVE rows'[x.v] = x.k
            BY <1>5, <2>1
        <3>1. x.k \in Resident /\ Get(id2slot, x.k) = x.v
            BY <1>0, DictRange DEF Books, Resident, Entries
        <3> QED BY <2>2, <3>1
    <2>5. ExactInv'
        BY <1>3, <2>1, <2>3, <2>4 DEF OutOK, MissingOK, InCall
    <2>6. InCall /\ ~InCall' /\ routed # {}
        BY <2>1 DEF InCall, ExactInv
    <2>7. Stock!Answer
        BY <2>3, <2>6 DEF Stock!Answer
    <2> QED BY <2>5, <2>7 DEF Stock!Next
<1>18. ~FetchUnmapped
    <2> SUFFICES ASSUME FetchUnmapped PROVE FALSE
        OBVIOUS
    <2>1. pc = "fetch" /\ ~(routed \ DOMAIN out \subseteq Resident /\ Range(missing) \subseteq Resident)
        BY DEF FetchUnmapped
    <2>2. todo = {} /\ Range(missing) \subseteq routed /\ routed \subseteq Resident
        BY <1>0, <2>1 DEF ExactInv, MissingOK, NoSelfEviction, Processed
    <2> QED BY <2>1, <2>2
<1>19. CASE SweepAdopt
    <2>1. pc = "sweep" /\ missing = <<>>
        BY <1>0, <1>19 DEF SweepAdopt, MissingOK
    <2>2. PICK e \in todo : Adopt(e) /\ UNCHANGED <<pc, missing, routed, out>>
        BY <1>0, <1>19 DEF SweepAdopt, TakeSlotRaises
    <2>3. e \in Experts
        BY <1>0
    <2>4. \A x \in Entries' : rows'[x.v] = x.k
        BY <1>0, <2>1, <2>2, <2>3, AdoptRows
    <2>5. ExactInv'
        BY <1>0, <1>3, <2>1, <2>2, <2>4 DEF MissingOK, OutOK, InCall
    <2>6. Seen
        BY <2>2 DEF InCall
    <2> QED BY <1>2, <2>5, <2>6
<1>20. CASE SweepRetouch \/ SweepDone
    <2>1. /\ UNCHANGED <<poolVars, rows, missing, out>> /\ pc \in {"sweep", "retouch"}
          /\ pc' \in {"retouch", "idle"} /\ missing = <<>>
        BY <1>0, <1>20 DEF SweepRetouch, SweepDone, MissingOK
    <2>2. ExactInv'
        BY <1>0, <1>4, <1>5, <2>1 DEF MissingOK, OutOK, InCall
    <2>3. Seen
        BY <2>1 DEF InCall
    <2> QED BY <1>2, <2>2, <2>3
<1>21. CASE RetouchStep
    <2>1. PICK e \in todo : id2slot' = MoveToEnd(id2slot, e)
        BY <1>21 DEF RetouchStep
    <2>2. UNCHANGED <<rows, missing, out, pc, slot_table, free>> /\ pc = "retouch" /\ missing = <<>>
        BY <1>0, <1>21 DEF RetouchStep, MissingOK
    <2>3. Entries' = Entries
        <3>1. e \in Resident
            BY <1>0, <2>2 DEF TypeInv, TodoHeld
        <3> QED BY <1>0, <2>1, <2>2, <3>1, MovedBooks
    <2>4. ExactInv'
        BY <1>0, <1>4, <2>2, <2>3 DEF MissingOK, OutOK, InCall
    <2>5. Seen
        BY <2>2 DEF InCall
    <2> QED BY <1>2, <2>4, <2>5
<1>22. CASE UNCHANGED vars
    <2>1. ExactInv'
        BY <1>0, <1>4, <1>22 DEF vars, ExactInv, MissingOK, OutOK, InCall, Entries
    <2>2. Seen
        BY <1>22 DEF vars, InCall
    <2> QED BY <1>2, <2>1, <2>2
<1>23. ~FetchRaises /\ ~SweepRaises
    BY DEF FetchRaises, SweepRaises
<1> QED BY <1>6, <1>8, <1>9, <1>10, <1>11, <1>12, <1>13, <1>14, <1>15, <1>16, <1>17, <1>18, <1>19,
           <1>20, <1>21, <1>22, <1>23 DEF Next, Step

\* Under LRU, while reads succeed, every answer comes from each expert's own
\* rows: slot reuse, prefetch and sweep adoption never show in an output.
THEOREM OutputAlwaysExact == Policy = "lru" /\ ~ReadsFail => (Spec => []OutputExact)
<1> SUFFICES ASSUME Policy = "lru", ~ReadsFail PROVE Spec => []OutputExact
    OBVIOUS
<1>1. ExactInv /\ [Next]_vars => ExactInv'
    BY ExactInvStep
<1>2. ExactInv => OutputExact
    BY DEF ExactInv, OutOK, OutputExact
<1> QED BY ExactInvInit, <1>1, <1>2, PTL DEF Spec

\* And the pool implements the stock layer: each call is answered, for all of
\* its experts, and never raises.
THEOREM PoolImplementsStock == Policy = "lru" /\ ~ReadsFail => (Spec => ImplementsStock)
<1> SUFFICES ASSUME Policy = "lru", ~ReadsFail PROVE Spec => Stock!Spec
    BY DEF ImplementsStock
<1>1. Init => Stock!Init
    BY DEF Init, Stock!Init, InCall
<1>2. ExactInv /\ [Next]_vars => ExactInv'
    BY ExactInvStep
<1>3. ExactInv /\ [Next]_vars => [Stock!Next]_(Stock!vars)
    BY ExactInvStep
<1> QED BY ExactInvInit, <1>1, <1>2, <1>3, PTL DEF Spec, Stock!Spec

\* A sweep leaves exactly its warm experts in the pool, each with its rows.
THEOREM SweepAlwaysWarms == Policy = "lru" /\ ~ReadsFail => (Spec => []SweepWarms)
<1> SUFFICES ASSUME Policy = "lru", ~ReadsFail PROVE Spec => []SweepWarms
    OBVIOUS
<1>1. ExactInv /\ [Next]_vars => ExactInv'
    BY ExactInvStep
<1>2. ExactInv => SweepWarms
    <2> SUFFICES ASSUME ExactInv, pc = "retouch"
                 PROVE  Resident = routed /\ \A e \in routed : rows[Get(id2slot, e)] = e
        BY DEF SweepWarms
    <2>1. Books /\ RowsOK /\ routed \subseteq Experts /\ routed \subseteq Resident
          /\ Cardinality(routed) = NSlots
        BY DEF ExactInv, LruInv, TypeInv, TypeOK, CallFits, NoSelfEviction, Processed
    <2>2. Resident \subseteq routed
        <3>1. IsFiniteSet(Resident) /\ Cardinality(Resident) <= NSlots
            BY <2>1, ResidentFits
        <3>2. Cardinality(routed) <= Cardinality(Resident)
            BY <2>1, <3>1, FS_Subset
        <3>3. Cardinality(Resident) \in Nat /\ NSlots \in Nat
            BY <3>1, NSlotsAssumption, ExpertsAssumption, FS_CardinalityType
        <3> QED BY <2>1, <3>1, <3>2, <3>3, FS_Subset
    <2>3. \A e \in Resident : rows[Get(id2slot, e)] = e
        BY <2>1, RowsAt
    <2> QED BY <2>1, <2>2, <2>3
<1> QED BY ExactInvInit, <1>1, <1>2, PTL DEF Spec
=============================================================================
