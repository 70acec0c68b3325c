---------------------------- MODULE PipelineStep ----------------------------
(***************************************************************************)
(* One step of the pipelined decoder (streamlx/pipeline.py, _step): the    *)
(* forwards of a token and its drafts, staggered one layer apart.  Every   *)
(* layer is split in two: begin routes the stream and submits the read of  *)
(* the experts it misses to the I/O threads, finish waits for the rows and *)
(* computes.  The pools stay as they are while streams are in flight; the  *)
(* last stream through a layer settles its pool.                           *)
(*                                                                         *)
(* A pool is the sequence of its resident experts, least recently used     *)
(* first: slots and their rows are module ExpertPool's, whose hit and      *)
(* adopt have this effect under "lru".  A layer's cache is the sequence of *)
(* streams that wrote it in this step.  Streams are numbered from 1.       *)
(***************************************************************************)
EXTENDS Integers, Sequences, FiniteSets, TLC, LruOrder

CONSTANTS
    Experts,    \* a layer's expert ids
    NSlots,     \* slots of each pool
    TopK,       \* experts the router picks per token
    NLayers,    \* layers of the model
    KMax,       \* k_max: streams in flight at most
    ReadsFail   \* whether an I/O thread's read may raise

ASSUME PipelineAssumption ==
    /\ NSlots \in Nat /\ TopK \in 1 .. NSlots /\ NSlots <= Cardinality(Experts)
    /\ NLayers \in Nat \ {0} /\ KMax \in Nat \ {0} /\ ReadsFail \in BOOLEAN

Layers == 1 .. NLayers
Streams == 1 .. KMax
VARIABLES
    pc,      \* what the host does next, at which layer and for which stream
    k,       \* _k_cur: streams of this step
    pool,    \* layer -> resident experts, least recently used first
    used,    \* _used: layer -> the experts of each stream so far
    infl,    \* _inflight: layer -> experts being read
    rows,    \* _rows: layer -> experts whose rows this step has read
    fin,     \* _fin: layer -> streams that finished it
    stream,  \* stream -> [uniq, need, missing, fut] at the layer it is in
    kv,      \* layer -> streams whose positions its cache holds
    snaps,   \* layer -> its cache before each stream
    accepted \* the streams the host accepted of the last step, 0 before that

books == <<used, infl, rows, fin>>
caches == <<kv, snaps, accepted>>
vars == <<pc, k, pool, used, infl, rows, fin, stream, kv, snaps, accepted>>

-----------------------------------------------------------------------------
(* The schedule: stream i leaves layer l - 1 just before it enters l, and  *)
(* stream 1 leaves l once all have entered it.                             *)
At(op) == pc.op = op
Running == pc.op \notin {"idle", "raised"}
To(op, l, i) == [op |-> op, l |-> l, i |-> i]
Idle == To("idle", 0, 0)
Raised == To("raised", 0, 0)

AfterBegin(l, i) ==
    IF i = k THEN To("finish", l, 1)
    ELSE IF l > 1 THEN To("finish", l - 1, i + 1)
    ELSE To("begin", l, i + 1)

AfterFinish(l, i) ==
    IF l < NLayers THEN To("begin", l + 1, i)
    ELSE IF i < k THEN To("finish", l, i + 1)
    ELSE To("commit", 0, 0)

-----------------------------------------------------------------------------
(* The pool, under "lru".                                                  *)
AllHit(order, es) == LruHits(Experts, order, es)
Adopted(order, es) == LruTakes(Experts, NSlots, order, es)

Flat(uses) == Fold([u \in Seq(Experts) |-> [s \in Seq(Experts) |-> s \o u]], <<>>, uses)

\* The last n distinct members of s, in order of last occurrence.
LastDistinct(s, n) == LastOf(AllHit(<<>>, s), n)

\* Mutant: the new rows are adopted before the residents are made recent.
SettledNewFirst(order, uses, got) ==
    LET keep == LastDistinct(Flat(uses), NSlots)
        adopted == Adopted(order, Only(keep, got \ Range(order)))
    IN  AllHit(adopted, Only(keep, Range(order) \cap Range(adopted)))

\* What _settle leaves of a pool: the residents among the last experts used
\* are made recent, then the new ones are adopted.
Settled(order, uses, got) ==
    LET keep == LastDistinct(Flat(uses), NSlots)
        resident == Only(keep, Range(order))
        fresh == Only(keep, got \ Range(order))
    IN  Adopted(AllHit(order, resident), fresh)

\* The pool after plain decoding of the same tokens, one ensure() each.
OneByOne(order, uses) == Adopted(order, Flat(uses))

-----------------------------------------------------------------------------
NoStream == [uniq |-> <<>>, need |-> {}, missing |-> {}, fut |-> "none"]
Routings == {s \in [1 .. TopK -> Experts] : IsInjective(s)}

\* Mutant: the reads in flight are not forgotten.
ClearKeepsInflight(n) ==
    /\ used' = [l \in Layers |-> <<>>] /\ UNCHANGED infl
    /\ rows' = [l \in Layers |-> {}] /\ fin' = [l \in Layers |-> 0]
    /\ k' = n

Clear(n) ==
    /\ used' = [l \in Layers |-> <<>>] /\ infl' = [l \in Layers |-> {}]
    /\ rows' = [l \in Layers |-> {}] /\ fin' = [l \in Layers |-> 0]
    /\ k' = n

\* A step of n streams.  After one that raised, the host starts over from
\* caches of its own.
Start ==
    /\ ~Running
    /\ \E n \in Streams : Clear(n)
    /\ pc' = To("begin", 1, 1)
    /\ stream' = [i \in Streams |-> NoStream]
    /\ kv' = [l \in Layers |-> <<>>] /\ snaps' = [l \in Layers |-> <<>>] /\ accepted' = 0
    /\ UNCHANGED pool

\* The layer's cache is snapshotted, the attention half writes it, and the
\* router names the experts: those neither resident nor being read for an
\* earlier stream are read.
Begin ==
    /\ At("begin")
    /\ LET l == pc.l
           i == pc.i
       IN  \E uniq \in Routings :
             LET need == Range(uniq) \ Range(pool[l])
                 missing == need \ infl[l]
             IN  /\ stream' = [stream EXCEPT ![i] =
                         [uniq |-> uniq, need |-> need, missing |-> missing,
                          fut |-> IF missing = {} THEN "none" ELSE "reading"]]
                 /\ used' = [used EXCEPT ![l] = Append(@, uniq)]
                 /\ infl' = [infl EXCEPT ![l] = @ \cup missing]
                 /\ snaps' = [snaps EXCEPT ![l] = Append(@, kv[l])]
                 /\ kv' = [kv EXCEPT ![l] = Append(@, i)]
    /\ pc' = AfterBegin(pc.l, pc.i)
    /\ UNCHANGED <<k, pool, rows, fin, accepted>>

\* An I/O thread has read a stream's experts.
Arrive ==
    /\ Running
    /\ \E i \in 1 .. k :
          /\ stream[i].fut = "reading"
          /\ stream' = [stream EXCEPT ![i].fut = "done"]
    /\ UNCHANGED <<pc, k, pool, books, caches>>

\* The experts of a stream that are neither among the rows it is handed nor
\* resident: _stream_forward would read them into a pool others rely on.
Lost(l, i) == (Range(stream[i].uniq) \ stream[i].need) \ Range(pool[l])

\* Every stream of the step has computed the layer.
LastOut(l) == fin[l] + 1 = k

\* The rows have arrived: they join the step's, and the stream is computed.
Finish ==
    /\ At("finish")
    /\ LET l == pc.l
           i == pc.i
           got == rows[l] \cup (IF stream[i].fut = "done" THEN stream[i].missing ELSE {})
       IN  /\ stream[i].fut # "reading"
           /\ stream' = [stream EXCEPT ![i].fut = "none"]
           /\ infl' = [infl EXCEPT ![l] = @ \ stream[i].missing]
           /\ fin' = [fin EXCEPT ![l] = @ + 1]
           /\ \/ /\ LastOut(l)
                 /\ pool' = [pool EXCEPT ![l] = Settled(@, used[l], got)]
                 /\ used' = [used EXCEPT ![l] = <<>>]
                 /\ rows' = [rows EXCEPT ![l] = {}]
              \/ /\ ~LastOut(l)
                 /\ rows' = [rows EXCEPT ![l] = got]
                 /\ UNCHANGED <<pool, used>>
    /\ pc' = AfterFinish(pc.l, pc.i)
    /\ UNCHANGED <<k, caches>>

\* A read raised: the step ends where it is, its cache writes in place.
ReadRaises ==
    /\ ReadsFail
    /\ At("finish") /\ stream[pc.i].fut = "reading"
    /\ pc' = Raised
    /\ UNCHANGED <<k, pool, books, stream, caches>>

\* Mutant: the snapshot of the last stream kept, not of the first undone.
RollbackShort(a) ==
    kv' = IF a < k THEN [l \in Layers |-> snaps[l][a]] ELSE kv

\* rollback(): keep the writes of streams 1 .. a.
Rollback(a) ==
    kv' = IF a < k THEN [l \in Layers |-> snaps[l][a + 1]] ELSE kv

\* The host's step is over: the first a streams are accepted.
Commit ==
    /\ At("commit")
    /\ \E a \in 1 .. k : Rollback(a) /\ accepted' = a
    /\ pc' = Idle
    /\ UNCHANGED <<k, pool, books, stream, snaps>>

\* Fewer of them after all: the answer stops among them, or the host feeds
\* another token than the next one.
TakeBack ==
    /\ pc = Idle
    /\ \E a \in 1 .. accepted - 1 : Rollback(a) /\ accepted' = a
    /\ UNCHANGED <<pc, k, pool, books, stream, snaps>>

Init ==
    /\ pc = Idle /\ k = 1
    /\ pool = [l \in Layers |-> <<>>]
    /\ used = [l \in Layers |-> <<>>] /\ infl = [l \in Layers |-> {}]
    /\ rows = [l \in Layers |-> {}] /\ fin = [l \in Layers |-> 0]
    /\ stream = [i \in Streams |-> NoStream]
    /\ kv = [l \in Layers |-> <<>>] /\ snaps = [l \in Layers |-> <<>>] /\ accepted = 0

Next == Start \/ Begin \/ Arrive \/ Finish \/ ReadRaises \/ Commit \/ TakeBack

Spec == Init /\ [][Next]_vars

-----------------------------------------------------------------------------
(* Properties.                                                             *)

Alike == Permutations(Experts)

TypeOK ==
    /\ pc.op \in {"idle", "raised", "begin", "finish", "commit"} /\ k \in Streams /\ accepted \in 0 .. k
    /\ pc.op \in {"begin", "finish"} => pc.l \in Layers /\ pc.i \in 1 .. k
    /\ \A l \in Layers : /\ Range(pool[l]) \subseteq Experts /\ Len(pool[l]) <= NSlots
                         /\ IsInjective(pool[l])
                         /\ infl[l] \cup rows[l] \subseteq Experts /\ fin[l] \in 0 .. k
    /\ \A i \in Streams : stream[i].fut \in {"none", "reading", "done"}

\* When a stream is computed, the rows of every expert it needed at begin
\* are there, read for it or for an earlier stream (the KeyError of
\* _finish's call_hint), and those it found resident still are
\* (_stream_forward's `lost` is empty), whatever settled in between.
InReach ==
    At("finish") /\ stream[pc.i].fut # "reading" =>
        /\ stream[pc.i].need \subseteq rows[pc.l] \cup stream[pc.i].missing
        /\ Lost(pc.l, pc.i) = {}

\* Between steps every layer's cache holds the positions of exactly the
\* streams that were accepted, in order, whatever order the staggered streams
\* took through the layers and however often the host takes tokens back.
LayersAgree == pc = Idle => \A l \in Layers : kv[l] = [i \in 1 .. accepted |-> i]

\* A settled pool holds the experts plain decoding of the step's tokens would
\* have left in it, one ensure() per token.
SettleKeeps ==
    [][\A l \in Layers : fin'[l] = fin[l] + 1 /\ fin'[l] = k
          => Range(pool'[l]) = Range(OneByOne(pool[l], used[l]))]_vars

\* Every variable keeps its type (a pool never holds more than its slots), and
\* a stream finds the rows it needs (pipeline.py, _finish).
RowsInReach == TypeOK /\ InReach

=============================================================================
