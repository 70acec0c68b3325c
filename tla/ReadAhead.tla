----------------------------- MODULE ReadAhead -----------------------------
(***************************************************************************)
(* The reads streamlx starts before it needs them (streamlx/integrate.py): *)
(* a prefill sweep reads its batches one ahead on a thread of its layer;   *)
(* its last batch read, it starts the next layer's first reads on the      *)
(* prefetch thread all layers share; decode calls put their predictions on *)
(* that thread too.  The threads hand the byte ranges to the reader's      *)
(* workers and wait for them.                                              *)
(*                                                                         *)
(* An executor of one thread is the queue of its tasks, the first of them  *)
(* running or about to.  A future is the id of its task; an id nobody      *)
(* refers to any more is free.  What is read is a set of experts.  Pools   *)
(* and their residents are module ExpertPool's.                            *)
(***************************************************************************)
EXTENDS Integers, Sequences, FiniteSets, SequencesExt, FiniteSetsExt, SeqFolds

CONSTANTS
    NExperts,     \* experts of a layer, their ids 1 .. NExperts
    NSlots,       \* slots of every pool
    NLayers,      \* streamed layers
    SweepBatch,   \* sweep_batch
    AheadMax,     \* experts of _NEXT_BYTES
    Workers,      \* the reader's threads
    Decodes,      \* whether the host also decodes
    MaxPrefetch,  \* prefetches in the queue at most
    MaxRaises,    \* how often a read raises, at most
    NTasks        \* tasks alive at most

ASSUME ReadAheadAssumption ==
    /\ \A n \in {NExperts, NSlots, NLayers, SweepBatch, AheadMax, Workers, NTasks} :
          n \in Nat \ {0}
    /\ NSlots <= NExperts /\ Decodes \in BOOLEAN
    /\ MaxPrefetch \in Nat /\ MaxRaises \in Nat

Experts == 1 .. NExperts
Layers == 1 .. NLayers
Tasks == 1 .. NTasks
Executors == {0} \cup Layers     \* 0: _pf_ex(); l: layer l's _sweep_ex
None == 0
NoFuture == <<>>

VARIABLES
    task,    \* task -> [st, layer, ids, kind]
    queue,   \* executor -> its tasks, first in first out
    early,   \* _early: layer -> expert -> future, NoFuture for None
    pf,      \* _pf: layer -> the future of its prediction, or None
    at,      \* the layer called next
    call,    \* the call in progress: [op, routed, batch, kept, fut]
    raises,
    reads    \* ghost: layer -> expert -> reads begun for the layer's next answer

vars == <<task, queue, early, pf, at, call, raises, reads>>

Blank == [st |-> "free", layer |-> 0, ids |-> {}, kind |-> "none"]
NoCall == [op |-> "none", routed |-> {}, batch |-> 0, kept |-> NoFuture, fut |-> None]
Unread == [e \in Experts |-> 0]

-----------------------------------------------------------------------------
(* Tasks.                                                                  *)
Queued == UNION {Range(queue[x]) : x \in Executors}
Referenced ==
    (UNION {Range(early[l]) : l \in Layers}) \cup Range(pf) \cup Range(call.kept)
        \cup {call.fut}

FreeTasks == Tasks \ (Queued \cup Referenced)

\* n tasks can be submitted, and the futures of the n.
Room(n) == n <= Cardinality(FreeTasks)
Fresh(n) == CHOOSE futs \in [1 .. n -> FreeTasks] : IsInjective(futs)

Running(x) == queue[x] # <<>> /\ task[Head(queue[x])].st = "running"

\* What becomes of the table in a step: finished tasks nobody holds are free.
Kept(table) ==
    LET held == Queued' \cup Referenced'
    IN  task' = [j \in Tasks |-> IF j \in held THEN table[j] ELSE Blank]

Submitted(kind, l, ids) == [st |-> "queued", layer |-> l, ids |-> ids, kind |-> kind]

\* The experts of a task are read once more.
ReadsBegun(j) ==
    reads' = [reads EXCEPT ![task[j].layer] =
                 [e \in Experts |-> @[e] + IF e \in task[j].ids THEN 1 ELSE 0]]

\* A thread takes up its next task.
Start(x) ==
    /\ queue[x] # <<>> /\ task[Head(queue[x])].st = "queued"
    /\ task' = [task EXCEPT ![Head(queue[x])].st = "running"]
    /\ ReadsBegun(Head(queue[x]))
    /\ UNCHANGED <<queue, early, pf, at, call, raises>>

\* Mutant: the prefetch thread is one of the reader's.
HeldByPrefetch == IF Running(0) THEN 1 ELSE 0

\* Workers that wait for spans others must read: the threads that wait are
\* not the reader's.
HeldWorkers == 0

\* The workers have read a task's spans, or one raised.
Finish(x) ==
    /\ Running(x) /\ HeldWorkers < Workers
    /\ queue' = [queue EXCEPT ![x] = Tail(@)]
    /\ UNCHANGED <<early, pf, at, call, reads>>
    /\ \/ Kept([task EXCEPT ![Head(queue[x])].st = "done"]) /\ UNCHANGED raises
       \/ /\ raises < MaxRaises /\ raises' = raises + 1
          /\ Kept([task EXCEPT ![Head(queue[x])].st = "raised"])

-----------------------------------------------------------------------------
(* Batches.  Both sides go in id order.                                    *)
NBatches(S) == (Cardinality(S) + SweepBatch - 1) \div SweepBatch
BatchOf(S, e) == (Cardinality({f \in S : f <= e}) + SweepBatch - 1) \div SweepBatch
Batch(S, i) == {e \in S : BatchOf(S, e) = i}

Restricted(futures, S) == [e \in DOMAIN futures \cap S |-> futures[e]]

\* Mutant: reads nobody takes are left in the queue.
UntakenNone(l, routed) == {}

\* Futures of the previous layer's reads this call has no use for.
Untaken(l, routed) ==
    Range(early[l]) \ Range(Restricted(early[l], routed))

\* future.cancel() of each: no effect on one that runs or is finished.
Cancelled(futures) == {j \in futures : task[j].st = "queued"}

Without(q, gone) == Only(q, Range(q) \ gone)
CancelTasks(gone) ==
    [j \in Tasks |-> IF j \in gone THEN [task[j] EXCEPT !.st = "cancelled"] ELSE task[j]]

\* What is left to read of a batch.
Need(batch, kept) == batch \ DOMAIN kept

-----------------------------------------------------------------------------
(* The sweep.                                                              *)
Covers(routed) == 10 * Cardinality(routed) >= 7 * NExperts

Sweep(routed) ==
    LET l == at
        kept == Restricted(early[l], routed)
        gone == Cancelled(Untaken(l, routed))
        need == Need(Batch(routed, 1), kept)
        fut == IF need = {} THEN None ELSE Fresh(1)[1]
    IN  /\ call.op = "none" /\ Cardinality(routed) > NSlots
        /\ need # {} => Room(1)
        /\ call' = [op |-> "sweep", routed |-> routed, batch |-> 1, kept |-> kept,
                    fut |-> fut]
        /\ early' = [early EXCEPT ![l] = NoFuture]
        /\ queue' = [x \in Executors |->
                        IF x = l /\ fut # None THEN Append(queue[x], fut)
                        ELSE Without(queue[x], gone)]
        /\ UNCHANGED <<pf, at, raises, reads>>
        /\ Kept(IF fut = None THEN CancelTasks(gone)
                ELSE [CancelTasks(gone) EXCEPT ![fut] = Submitted("own", l, need)])

\* Mutant: one of the early futures of a batch is waited for.
BatchFuturesOne ==
    LET es == Batch(call.routed, call.batch) \cap DOMAIN call.kept
    IN  (IF es = {} THEN {} ELSE {call.kept[CHOOSE e \in es : \A f \in es : e <= f]})
        \cup ({call.fut} \ {None})

\* The futures the batch waits for.
BatchFutures ==
    {call.kept[e] : e \in Batch(call.routed, call.batch) \cap DOMAIN call.kept}
        \cup ({call.fut} \ {None})

Over(j) == task[j].st \in {"done", "raised", "cancelled"}
Ready == call.op = "sweep" /\ \A j \in BatchFutures : Over(j)
Rows == UNION {task[j].ids : j \in BatchFutures}

\* A batch's rows are there and another follows: its read is started.
NextBatch ==
    LET i == call.batch + 1
        need == Need(Batch(call.routed, i), call.kept)
        fut == IF need = {} THEN None ELSE Fresh(1)[1]
    IN  /\ Ready /\ \A j \in BatchFutures : task[j].st = "done"
        /\ i <= NBatches(call.routed) /\ (need # {} => Room(1))
        /\ call' = [call EXCEPT !.batch = i, !.fut = fut]
        /\ queue' = [queue EXCEPT ![at] = IF fut = None THEN @ ELSE Append(@, fut)]
        /\ UNCHANGED <<early, pf, at, raises, reads>>
        /\ Kept(IF fut = None THEN task ELSE [task EXCEPT ![fut] = Submitted("own", at, need)])

AfterLayer == at' = IF at = NLayers THEN 1 ELSE at + 1

LimitTo(a, b) == IF a < b THEN a ELSE b
AheadCount(routed) ==
    LimitTo(Cardinality(routed), IF AheadMax > SweepBatch THEN AheadMax ELSE SweepBatch)

\* Mutant: reads are started for a layer that has some waiting.
ReadsNextAgain == /\ at < NLayers
                  /\ Covers(call.routed) /\ NSlots < Cardinality(call.routed)

ReadsNext == /\ at < NLayers /\ early[at + 1] = NoFuture
             /\ Covers(call.routed) /\ NSlots < Cardinality(call.routed)

\* The last batch's rows are there: the next layer's first reads are
\* started.  Which experts rank highest in its recent sweeps is left open.
LastBatch ==
    /\ Ready /\ \A j \in BatchFutures : task[j].st = "done"
    /\ call.batch = NBatches(call.routed)
    /\ call' = NoCall /\ AfterLayer /\ UNCHANGED <<pf, raises>>
    /\ reads' = [reads EXCEPT ![at] = Unread]
    /\ \/ ~ReadsNext /\ UNCHANGED <<queue, early>> /\ Kept(task)
       \/ /\ ReadsNext
          /\ \E top \in kSubset(AheadCount(call.routed), Experts) :
                LET n == NBatches(top)
                    futs == Fresh(n)
                IN  /\ Room(n)
                    /\ early' = [early EXCEPT ![at + 1] = [e \in top |-> futs[BatchOf(top, e)]]]
                    /\ queue' = [queue EXCEPT ![0] = @ \o futs]
                    /\ Kept([j \in Tasks |->
                          IF j \in Range(futs)
                          THEN Submitted("early", at + 1, {e \in top : futs[BatchOf(top, e)] = j})
                          ELSE task[j]])

\* result() raises, the batch's own read asked last: so does the call, and
\* the host starts over.
SweepRaises ==
    /\ call.op = "sweep"
    /\ \E j \in BatchFutures :
          /\ task[j].st \in {"raised", "cancelled"}
          /\ (j = call.fut => Ready)
    /\ call' = NoCall /\ at' = 1 /\ reads' = [reads EXCEPT ![at] = Unread]
    /\ UNCHANGED <<queue, early, pf, raises>> /\ Kept(task)

-----------------------------------------------------------------------------
(* Other calls.                                                            *)

\* A call that fits the pool drops what was read for a sweep; a decode call
\* then takes its prediction, if it routes an expert of it, and waits.
PoolCall ==
    LET gone == Cancelled(Untaken(at, {}))
    IN  /\ call.op = "none"
        /\ early' = [early EXCEPT ![at] = NoFuture]
        /\ queue' = [queue EXCEPT ![0] = Without(@, gone)]
        /\ reads' = [reads EXCEPT ![at] = Unread] /\ UNCHANGED raises
        /\ \/ AfterLayer /\ UNCHANGED <<pf, call>>
           \/ /\ Decodes
              /\ pf' = [pf EXCEPT ![at] = None]
              /\ \E fut \in {None, pf[at]} :
                    call' = [NoCall EXCEPT !.op = "decode", !.fut = fut]
              /\ UNCHANGED at
        /\ Kept(CancelTasks(gone))

\* The prediction has arrived, or raised, which is ignored.  The next
\* layer's experts are predicted or not; those it misses are read.
DecodeDone ==
    /\ call.op = "decode" /\ (call.fut # None => Over(call.fut))
    /\ call' = NoCall /\ AfterLayer /\ UNCHANGED <<early, raises, reads>>
    /\ \/ UNCHANGED <<queue, pf>> /\ Kept(task)
       \/ /\ at < NLayers
          /\ pf' = [pf EXCEPT ![at + 1] = None]
          /\ UNCHANGED queue /\ Kept(task)
       \/ /\ at < NLayers /\ Room(1)
          /\ Cardinality({j \in Queued : task[j].kind = "prefetch"}) < MaxPrefetch
          /\ pf' = [pf EXCEPT ![at + 1] = Fresh(1)[1]]
          /\ queue' = [queue EXCEPT ![0] = Append(@, Fresh(1)[1])]
          /\ Kept([task EXCEPT ![Fresh(1)[1]] = Submitted("prefetch", at + 1, {})])

\* A stream of a pipelined step brings its rows: reads ahead stay as they are.
StreamCall ==
    /\ Decodes /\ call.op = "none" /\ AfterLayer
    /\ UNCHANGED <<task, queue, early, pf, call, raises, reads>>

\* The host has nothing more to compute; what is being read is read.
Leave ==
    /\ call.op = "none" /\ call' = [call EXCEPT !.op = "left"]
    /\ UNCHANGED <<task, queue, early, pf, at, raises, reads>>

Init ==
    /\ task = [j \in Tasks |-> Blank]
    /\ queue = [x \in Executors |-> <<>>]
    /\ early = [l \in Layers |-> NoFuture] /\ pf = [l \in Layers |-> None]
    /\ at = 1 /\ call = NoCall /\ raises = 0 /\ reads = [l \in Layers |-> Unread]

\* What ends a call in progress.
Proceed == NextBatch \/ LastBatch \/ SweepRaises \/ DecodeDone

Next ==
    \/ \E x \in Executors : Start(x) \/ Finish(x)
    \/ \E routed \in SUBSET Experts : Sweep(routed)
    \/ Proceed \/ PoolCall \/ StreamCall \/ Leave

\* Threads take up their tasks, the workers read, a host that has called
\* waits for the answer.
Spec ==
    /\ Init /\ [][Next]_vars /\ WF_vars(Proceed)
    /\ \A x \in Executors : WF_vars(Start(x)) /\ WF_vars(Finish(x))

-----------------------------------------------------------------------------
(* Properties.                                                             *)

TypeOK ==
    /\ \A j \in Tasks : /\ task[j].st \in {"free", "queued", "running", "done",
                                           "raised", "cancelled"}
                        /\ task[j].ids \subseteq Experts
                        /\ j \in Queued => task[j].st \in {"queued", "running"}
    /\ \A x \in Executors : /\ Range(queue[x]) \subseteq Tasks /\ IsInjective(queue[x])
                            /\ \A i \in 2 .. Len(queue[x]) : task[queue[x][i]].st = "queued"
    /\ \A l \in Layers : /\ DOMAIN early[l] \subseteq Experts
                         /\ pf[l] \in Tasks \cup {None}
    /\ at \in Layers /\ call.op \in {"none", "sweep", "decode", "left"} /\ raises \in 0 .. MaxRaises

\* When the futures of a batch have their results, the rows of all its
\* experts are among them (_expert_sweep: experts_from_raw finds every key).
RowsComplete ==
    Ready /\ (\A j \in BatchFutures : task[j].st = "done")
        => Batch(call.routed, call.batch) \subseteq Rows

\* While reads succeed, the threads begin no read of an expert twice for one
\* answer of its layer, whether the sweep, the one before it or both asked, and
\* by the time a batch's rows are there each of its experts has been read
\* (_expert_sweep: "each read exactly once per chunk").
ReadOnce ==
    raises = 0 =>
        /\ \A l \in Layers : \A e \in Experts : reads[l][e] <= 1
        /\ Ready => \A e \in call.routed :
              BatchOf(call.routed, e) <= call.batch => reads[at][e] = 1

\* A read the sweep has taken is never one it has cancelled.
TakenAlive == \A e \in DOMAIN call.kept : task[call.kept[e]].st # "cancelled"

\* While reads succeed, no read that was started for a sweep waits on the
\* shared thread when nobody will take it (_take_early: "reads of those not
\* yet started are cancelled").
NoOrphanWaits ==
    raises = 0 => \A j \in Queued : task[j].kind = "early" /\ task[j].st = "queued" => j \in Referenced

\* Every call is answered: no thread waits for workers that wait for it.
CallsEnd == call.op \in {"sweep", "decode"} ~> call.op = "none"

\* "One prediction in flight per layer; an unconsumed one is dropped"
\* (pool.py, prefetch_start).
OneInFlight ==
    \A l \in Layers :
        Cardinality({j \in Queued : task[j].kind = "prefetch" /\ task[j].layer = l}) <= 1

\* Every variable keeps its type (a task waits in one queue at most), a sweep
\* cancels nothing it has taken, and a batch whose futures are done is whole
\* (integrate.py, _expert_sweep and _take_early).
BatchesWhole == TypeOK /\ TakenAlive /\ RowsComplete

=============================================================================
