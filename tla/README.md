# streamlx in TLA+

A verification project for `src/` (streamlx: MoE models larger than RAM, expert
weights streamed from SSD). It holds TLA+ modules translated from the Python
source, TLC runs over small instances, and TLAPS proofs for every instance.
`PROJECT.json` maps each definition to the lines it models.

Contents: [1 the system](#1-the-system), [2 the modules](#2-the-modules),
[3 the runs](#3-the-runs), [4 disagreements](#4-where-the-code-and-what-it-says-disagree),
[5 the proofs](#5-the-proofs), [6 not modelled](#6-not-modelled),
[7 plan](#7-plan), [8 running it](#8-running-it).

## 1. The system

| Component | State | Operations | Talks to |
|---|---|---|---|
| **Expert pool** `pool.py` `StreamingSwitchMLP`, one per MoE layer | `id2slot` (ordered: the LRU list), `slot_table`, `free`, slabs, s3fifo queues, prefetch in flight | `ensure`, `touch`, `adopt`, `prefetch_start`, `prefetch_absorb` | reader |
| **Streaming switch** `integrate.py` `StreamingSwitchGLU` | reads started for a sweep, routing histogram, link to the next layer | `__call__`: decode, prompt chunk, slices, sweep; `_stream_forward` for the pipeline | its pool, the next layer's pool and switch, reader |
| **Residency plan, install** `integrate.py` | none once loaded | `plan_residency`, `load_streaming_model` (the split into slots), `preload_popular` | index, pools |
| **Pipelined step** `pipeline.py` `PipelinedDecoder` | streams in flight, `_used`, `_inflight`, `_rows`, `_fin`, snapshots; gate and K-controller statistics | `step` (`_begin`, `_finish`, `_settle`), `rollback`, `generate`, `_gate_account`, `_choose_k` | adapter, pools, reader, drafter |
| **Lookahead decoder** `pipeline.py` `LookaheadDecoder` | `pending`, `snaps`, `consumed`, `end_offset`, `last_hidden`, `primed_offset`, `pairs` | `prime`, `call`, `discard_pending` | the host, the pipelined step, the draft head |
| **Adapters, drafters** `pipeline_adapters.py` | the draft head's cache, context waiting for it | `begin`/`finish` halves of a layer, `offset`, `reset_drafter`, `prime_pairs`, `draft`, `feed_pairs` | host model |
| **Prompt cache** `kvcache.py` `PagedPromptCache` | index (`_segs`, `_next`, `_ends`, `_bytes`), files, writer queue, `_pending`, `_cur` | `fetch_nearest_cache`, `save_progress`, `insert_cache`, `flush`; writer thread | server, the directory |
| **Reader** `reader.py` | file descriptors, executor | `read_experts_raw`, `read_experts`, `_plan` (span merging) | files |
| **Index** `stindex.py` | tensor locations | `switch_triples`, `expert_range` | files |
| **Attention** `attention.py` | none | row-blocked attention | - |
| **Server, tools** `examples/` | the request in progress, the last lookup | `_recording_fetch`, `_prefill_history`, `_chunks`, `_snapshot`; `generate.py`'s loops | prompt cache, model |

What is hard in it, and what makes each part correct:

- *Pool.* An eviction must never reclaim a slot that a running call reads or is
  about to fill; three redundant books on slots must agree even when a call
  raises half way; a prefetch launched in one state is absorbed in another.
  Correct: each call is answered as the stock layer, which holds every expert,
  would answer it.
- *Streaming switch.* Reads are started a batch and a layer ahead on other
  threads, and the call that finds them may not want them. Rows are grouped, cut,
  padded and put back. Correct: each row's result comes from its own row and
  experts on the stock kernel; every expert is read once; every call ends.
- *Pipelined step.* K streams in different layers share pools and reads that
  complete in any order. Correct: a stream always finds the experts it
  needs; caches are rolled back to the streams accepted in all layers; the pools end
  up with what plain decoding would have left in them.
- *Lookahead.* The cache runs ahead of what the host asked for, and the host may
  sample another token, rewind, move or swap the cache at any time. Correct: the
  host cannot tell it from plain decoding.
- *Decode loop, gate, acceptance.* Drafts of any quality, a gate that measures two
  arms one at a time, sampling that must not show. Correct: the ids are those of a
  plain loop (or, sampled, of the host's distribution); the gate holds the arm that
  is faster and keeps probing the other.
- *Prompt cache.* Two threads, an index built from increments, evictions between
  dependent segments, crashes between a file and its index entry. Correct: a
  request is given caches computed from exactly its own first tokens, and no
  request waits for ever.
- *Server.* What is stored under a key is counted from what an earlier call
  recorded. Correct: stored caches are their key's, and a turn's history is found
  by the next.
- *Pure parts* (reader, residency, attention, chunks): boundaries, ties and
  rounding.

`PROJECT.json` "hazards" lists these one by one, each at its line and with the
properties that cover it.

## 2. The modules

```
OrderedDict <- ExpertPool, PagedPromptCache
SeqFolds    <- LruOrder, PagedPromptCache, PrefillHistory, ReadAhead, TokenSlices
LruOrder    <- PipelineStep, SweepRows, TouchFirst
StockSwitch (abstract) <- ExpertPool
PlainDecode (abstract) <- Lookahead
PlainLoop   (abstract) <- Generate

layer:     TouchFirst  ReadAhead  SweepRows  TokenSlices
pipeline:  SelfGate  SpeculativeSampling  DraftHead
the rest:  ReadRanges  Residency  AttentionBlocks  PrefillHistory

for TLC:   MCExpertPool (ExpertPool)
           MCPromptCache (PagedPromptCache, two instances)
           MCReadAhead (ReadAhead, two instances)
           MCLayerCall (Residency, ReadRanges, SweepRows, TokenSlices, TouchFirst)
           MCDecodeLoop (Generate, DraftHead, SpeculativeSampling, SelfGate)
           MCPrefill (PrefillHistory, three instances, AttentionBlocks)

proofs:    SeqFoldsProofs (SeqFolds, LruOrder) <-
               ExpertPoolProofs, PipelineStepProofs, LookaheadProofs, PagedPromptCacheProofs,
               DecodeLoopProofs (MCDecodeLoop), PrefillProofs (MCPrefill),
               SwitchProofs (ReadAhead, MCLayerCall)
```

A module of the `layer`, `pipeline` and `rest` lines stands alone: what it says of another
component is that component's effect, stated in its header.

An MC module that joins parts adds nothing to them: the initial state chooses a
part (or one of a module's instances), its own `Init` and `Next` take over, and
the variables of the others stay off. The parts joined in one are the ones a layer's
call, the decode loop or a prefill goes through, and none of them reads what
another writes, so running one at a time loses no behaviour. Where a property of the
MC module is several properties of a part at once, the part's module states each.
The parts' constants are constants of the MC module, which the `.cfg` gives values;
so theorems of a part are theorems of the MC module's specification (`PartsSpec`),
for every value of them.

**`OrderedDict`**: Python's insertion-ordered dictionaries as sequences of
entries. External, modelled from how `pool.py` and `kvcache.py` use them.

**`SeqFolds`**: selection from a sequence, its sum and its last entries, over a fold
whose step is a function: `FoldLeft` and `SelectSeq` compute the same, but take an
operator, so that nothing can be proved of them. External.

**`LruOrder`**: a pool by its recency order; what `touch`, `ensure` and `adopt` do to it
under LRU, for one expert (`LruHit`, `LruTake`) and for a sequence of them.

**`StockSwitch`**: what a streamed layer promises. A call asks for a set of
experts and is answered with each expert's own rows, or raises where it may.

**`ExpertPool`**: one layer's pool and the calls the switch makes on it. Rows are
abstracted to the expert they belong to (`Zeros`: never written). A call is a
sequence of steps, one per loop iteration of the code, so an exception
(`FetchRaises`, `SweepRaises`, `TakeSlotRaises`, `FetchUnmapped`) leaves exactly
the state the code leaves: `absorb` (`prefetch_absorb`), `touch` and
`DispatchHits` (`_overlapped`), `bind` and `fetch` (`ensure`), `sweep` and
`retouch` (`_expert_sweep`). The set routed, the order of its experts and the
success of a prefetch are inputs. `_s3_evict_main`'s loop is a closed form;
`MCExpertPool` checks it against the loop on every main queue of up to four
experts (an `ASSUME` that TLC evaluates in `pool_lru`).

**`PagedPromptCache`**: index, directory, writer thread, server thread, crash and
restart. A key is a hash of the tokens before a segment's end, so those tokens
stand for it; a payload is the tokens its slices were computed from; recency is
position. `Fetch` is the first half of `fetch_nearest_cache` (up to `flush()`),
`FetchReturn` the rest; `SaveProgress`/`Insert` run up to `_save`'s wait for room
and `Enqueue` is its end; `WriterPlace` is the write and `os.replace`,
`WriterAdd` the index update and eviction under the lock, `WriterDone` the
notification. `Sliced` tells models whose every layer can be cut at any token
from those that restore at segment ends only. A `_restore` that raises is a miss
(`Miss` under `Faults`); a stored progress may fail and loses the request's cut
points (`SaveRaises`). `tmp` is the `<key>.tmp` files: a write that fails or is cut by
a crash may leave one, a later write of that key moves it into place, and only opening
the directory removes the others. Until then they take room that `max_bytes` does not
count.

**`PlainDecode`**: one token per call, each answered by that token's logits on
the host's sequence.

**`Lookahead`**: `LookaheadDecoder` and its host. A forward depends on
the tokens up to its own, so logits and hiddens are that sequence. A pipelined
step is one action with any drafts and any outcome of their verification. `View`
is the refinement mapping: the host's cache less the accepted streams it has not
asked for. `head` is what the draft head's own cache covers.

**`PipelineStep`**: the staggered schedule of `_step`, one action per `_begin` and
`_finish`, reads completing on I/O threads (`Arrive`) at any time or raising, and
`_settle` by the last stream through a layer. A pool is its LRU order; its slots
are `ExpertPool`'s. `Commit` is the end of the host's step: acceptance and
`rollback`. `TakeBack` is a rollback further down from the same snapshots, before the
next step (`generate()` at a stop id, `LookaheadDecoder` when the host feeds another
token); `accepted` is how many streams the host counts on.

**`TouchFirst`**: two pools given the same calls, one through `_overlapped` (touch
the hits, then `ensure` the misses), one through `ensure`. A pool is its LRU order.

**`ReadAhead`**: the executors. A one-thread executor is the queue of its tasks;
`early` is `_early`, `pf` is `_pf`'s future, `call` the call in progress. `Sweep` is
`_expert_sweep` up to its first read (with `_take_early`), `NextBatch` and `LastBatch`
the turns of its loop (the last with `_read_next_layer`), `PoolCall` the calls that
fit, `DecodeDone` the end of a decode call with `prefetch_start`, `StreamCall` a
pipelined stream. `Start` and `Finish` are the threads; `Finish` may raise, and the
host then starts over (`SweepRaises`). A step that submits needs `Room` among the
`NTasks` ids; the run never lacks it. Which experts are likely next is left open.
`reads` is history: how often the threads have begun a read of an expert for its layer's
next answer, whoever asked. It is counted at the threads, so a read issued twice by any
two places is seen.

**`SweepRows`**: a prompt chunk's (row, expert) pairs through `_pooled` and
`_expert_sweep`: grouping, batches, padding, kernels, putting back, and the warm set
adopted and retouched. A result is named by the row and the expert it came from.

**`TokenSlices`**: the slice loop at the end of `__call__`. `graph` is what MLX has
built and not evaluated; `Eval` reads the slots as they are then.

**`PlainLoop`**, **`Generate`**: `generate.py`'s greedy loop, and `generate()`. A
forward answers with the path's next id where the cache is on the greedy path and
with any id elsewhere, so a wrong cache shows. `Draft`, `PlainStep`, `Step` (with
`_accepted` and the first `rollback`), `CommitOne` (one id handed out, the second
`rollback` at a stop id), `Overshot` and `Committed` are the parts of one turn of the
loop. Every draft the head could make is tried.

**`SelfGate`**: `_gate_account` with `_g_begin`, `_choose_k`'s exploring, `_draft_for`'s
arms and the stale flag. Durations are small integers; rates are pairs, compared by
multiplying out. The environment sets what a token costs in each arm (`Drift` changes
it) and adds `Extra` to steps that pay for something else. Which stream count the
controller's estimates prefer is left open. An optimistic estimate for an unmeasured
preferred count is charged like any other; `tau`, a draft time kept by a raised step
and a first call without pairs are left out.

**`SpeculativeSampling`**: one position of a sampled step. Chances are computed
exactly, as whole parts of `Whole`: `Draft` is the head's draw and the gate, `Judge`
the acceptance, `Emit` what the host then has. The gate is each branch of `_draft_for`:
with `tau` the fixed confidence, with `adaptive` the controller's choice (any drawn
confidence may be launched or not: its estimates are left open), with neither all. A
position's emission depends on p, q and the gate alone, so one position stands for
all.

**`DraftHead`**: the drafting calls of an adapter with either drafter. Committed pairs
are numbered; a head's cache is the pairs (0: a drafted id) its entries stand for.

**`ReadRanges`**: a batch read from `expert_range` through `_plan` and the worker
buckets to the views; one action per loop turn, workers in any order, short reads.

**`Residency`**: `plan_residency`, one layer an action, and the split into slots.

**`AttentionBlocks`**: `_attend`. A row's result is the set of keys it attends to; the
stock kernel's rows are external, its probe (`_builds_scores`) a free choice. `Unblocked`
is the handler: any block may raise, and the stock call then builds all the scores.
That call, and one of fewer than `MinRows` queries, are outside what `BlocksExact` says
of scores.

**`PrefillHistory`**: `_prefill_history` between a lookup and the answer. `Fetch` is the
lookup (either store, by what it gives back) and what `_recording_fetch` or
`paged.last` keeps of it, `Start`/`Chunk`/`Stop` the function, `NothingBefore` its early
return, `Answer`/`Abort`/`Forget` the stock server around it. `NextTurn` repeats the
history with or without the template's tail, as thinking templates do. `had`, `owed`,
`late` and `count` record what properties need: how much a request was restored with,
what an answered one leaves to its next turn, and whether it was restored past that.
Of the paged store's lookup the model has the longest key usable whole and the cut into
one of its successors; that a failed write may hide what hangs from it is
`PagedPromptCache`'s matter. `Forget` drops only what nothing succeeds, as eviction does.

`ExpertPool` is composed with none of the others: `PipelineStep` uses its hit and
adopt by their effect on the LRU order, `ReadAhead` leaves slots out, `SweepRows` and
`TokenSlices` have a call at a time. A step is atomic in `Lookahead`, `Generate` and
`SelfGate`; `PipelineStep` opens it up.

Operators commented "Mutant" are wrong on purpose: each is a plausible bug, and
substituting it for the definition it follows makes TLC refute the property
listed with it in `PROJECT.json` "mutants".

## 3. The runs

| Run | Instance | Shows |
|---|---|---|
| `pool_lru` | 5 experts, 3 slots, LRU, 1 prediction per prefetch, reads succeed | `ImplementsStock` (refinement), `NoSelfEviction`, `SlotMap`, `SweepWarms` |
| `pool_s3fifo` | 3 experts, 2 slots, s3fifo, reads may raise | `S3BooksAgree`: types, the slot books, the queues |
| `pool_short_read` | 3 experts, 2 slots, LRU, reads may raise | violation of `OutputExact` |
| `pool_s3fifo_raises` | the same, s3fifo, reads succeed | violation of `NeverRaises` |
| `kv_store` | 2 tokens, sequences up to 3; cap 2, queue cap 1, sliced, all faults, temporary files of one segment; or cap 3, queue cap 2, whole segments only, no faults | `BooksKept`, `DiskAgrees`, `RestoreExact`, `BytesGrowthBounded`, `RequestsServed`; without faults `CalmChainsWhole` |
| `look_exact` | 2 tokens, 2 containers, K = 3, sequences up to 4 | `ImplementsPlain` (refinement), `PendingKept` |
| `look_drafter` | the same, 1 container, sequences up to 5 | violation of `DrafterExact` |
| `pipe_step` | 4 experts, 2 slots, top-1, 2 layers, K = 3, reads may raise | `RowsInReach`, `LayersAgree`, `SettleKeeps` |
| `read_ahead` | 2 layers of 4 experts, 2 slots, batches of 2, 1 worker; with decode calls and reads that succeed, or prefill only and one read that raises | `BatchesWhole`, `ReadOnce`, `NoOrphanWaits`, `CallsEnd` |
| `layer_call`, plan | 3 layers and a stage, widths 1 to 3, 2 or 4 experts, k = 2, budgets to 38 | `PlanHolds` |
| `layer_call`, ranges | 3 tensors of 4 rows in 2 files, strides 1, 2, gaps 0, 2, 3 at limits 2 and 5, 2 workers | `RangesExact`, `SpansMaximal` |
| `layer_call`, rows | 3 experts, 2 slots, k = 2, 2 to 4 rows, batches of 2, thresholds 6/3/2 for 64/16/4 | `RowsInPlace`, `SameKernel`, `WarmestLast` |
| `layer_call`, slices | 5 experts, 3 slots, 3 rows, k = 2 or 4 | `SlicesExact` |
| `layer_call`, touch | 6 experts, 4 slots, k = 2 | `OneCallAgrees` |
| `decode_loop`, loop | 2 ids, one of them a stop id, 4 wanted, K = 3, with and without `plain_fn` | `ImplementsPlainLoop` (refinement), `CacheFollows`, `FedInOrder` |
| `decode_loop`, head | windows 0, 2, 3, depth 3, 8 pairs | `HeadContext` |
| `decode_loop`, sampling | 3 ids, sixths, all p, q, tau, with and without controller and floor | `LosslessLaunched` |
| `decode_loop`, gate | probes of 1 to 2, holds 2 to 4, K up to 3, costs 2 or 3; one drift, or one new sequence, or one step that raises; the host resets | `GateHolds`, `ProbesOther` |
| `prefill`, turns | messages of 1 or 9, 3 requests, steps 3 and 8 | `StoredExact`, `HistoryRestored`, `ChunksEven`, `ProgressRises` |
| `prefill`, again | one word, messages of 1, 4 requests, step 2, copies from one token on | the same |
| `prefill`, long | one request of 1 to 26 and its tail, ten steps | `ChunksEven` |
| `prefill`, blocks | 3 to 11 queries, 0 to 9 keys before, units of 2, limit 60 | `BlocksExact` |

**Bounds and why they suffice.** Pool: with 5 experts and 3 slots a call can have two hits
and a miss, or a hit and two misses, while a third expert is evicted; the prefetch can
name an expert that is absorbed, resident by then, or not routed; a sweep's warm set can
be disjoint from the residents. For s3fifo 2 slots give both queues one entry, so each is
full at once and all branches of `_s3_insert` run. Prompt cache: three tokens give chains
of three segments, branching and partial successors; the caps are below what can be
stored, so eviction, a segment above the cap, and a server thread waiting for room all
occur; `MaxDisk` above `MaxBytes` lets a restart find more than fits. Temporary files are
followed for one segment (`TmpKeys`): they do not act on one another. The calm server of
`kv_store` has a cap that fits any one sequence (section 4 says why that matters) and no
failing writes (an orphaned successor of a failed write is what `Walk` is for). Lookahead:
K = 3 is the program's default, so a step can leave 0, 1 or 2 pending streams and be
interrupted after any of them; two containers give swap, move and swap back. Pipeline: two
layers make the schedule's three cases (first layer, later layer, drain), three streams
share reads pairwise, and four experts over two slots force every settle to evict.
Read-ahead: two layers are a sweep and the one it reads for; four experts in batches of
two give early reads that are all, partly or not routed, and one worker is the fewest that
could starve. `NTasks` is above what is ever alive (were no task free where one is needed,
TLC would report the `CHOOSE`). Rows and slices: pairs of a row fall in different batches,
ties in counts occur, and the scaled thresholds leave batches both sides of the kernel's.
Generate: three streams accept one, two or three ids; four wanted ids are overshot, met
exactly and stopped short. Gate: a probe can end early or in full, a hold doubles up to
its cap and falls back; the properties do not depend on the length of a probe or hold
beyond that. Sampling: sixths let p and q agree, differ, and be zero on some ids. Reader:
spans at, under and over both limits, merged over a gap, split by a file, more than
workers and fewer. Attention: blocks of one to several units, a last block shorter, fewer
and more keys than queries allow. Server: a message of nine is chunked at both steps and
long enough for a RAM copy, one of one is not; three requests are a turn, its next turn
and one between them that fails or belongs to another conversation; four short ones are a
turn asked again after the one that followed it, and its next turn then.

Counters are bounded only by `MaxLen`, `MaxPrompt`, `MaxDisk`, `MaxPairs`, `MaxRequests`,
`MaxPrefetch`, `MaxRaises`, `NTasks`, `TmpKeys` and `Upsets`, each named where it is
declared; the gate's own counters stop where their value no longer matters. Symmetry over
tokens, containers or experts is used in runs without liveness only, and no definition
there orders those values (`ExpertPool`'s sweep goes in id order, so its runs use numbers
and no symmetry).

**Deadlock** is checked in the runs of `ExpertPool`, `PagedPromptCache`, `Lookahead`
(except `look_drafter`, whose host stops when the bound on its sequence is reached)
and `PipelineStep`. The others model something that
ends (a call, a read, a load, a number of requests, a sampled position, or a host that
leaves: `ReadAhead`'s `Leave`); that they do not end early is `CallsEnd`,
`ImplementsPlainLoop` and `SlicesExact`.

**Fairness.** `PagedPromptCache`: weak fairness of the writer thread and of the server
thread while it waits (`FetchReturn`, `Enqueue`); the condition variable is notified after
every write and re-tested, and the writer loops for ever, a failed write included. Nothing
obliges a request to arrive or a segment to be saved, and a crash may come at any time.
`ReadAhead`: weak fairness of every executor's `Start` and `Finish` (threads run and
`pread` returns or raises) and of the call's own steps; nothing obliges the host to call.
`Generate` and `PlainLoop`: weak fairness of the loop, one thread that waits for nothing
but reads. `SelfGate`: weak fairness of `Step`, the host goes on decoding: the gate
promises nothing to a host that stops. The other modules state no fairness and no
liveness.

## 4. Where the code and what it says disagree

Three bugs, each a run that TLC refutes (quoted in `PROJECT.json` "findings"):

1. **Stale rows after a read that raised** (`pool_short_read`). `ensure()` binds
   slots before it reads; after an exception the bound experts are hits.
2. **s3fifo evicts an expert of the running call** (`pool_s3fifo_raises`): two
   misses of one call can meet in the one-entry small queue; the call raises.
3. **The draft head fed out of order** (`look_drafter`): `prime()` leaves `pairs`
   of earlier hits. Answers stay exact; only drafts suffer.

Statements of the code's own that its models do not satisfy either. The modules state
them beside the properties that hold, but no run of the project checks them; a
configuration with the constants named, the others as in the module's run, shows the
counterexample.

- *Sampling behind the confidence gate is lossless* (`SpeculativeSampling`, `Lossless`;
  constants as in `decode_loop.cfg`). The gate drops drafts by the confidence of the id
  drawn, so likely ids come out too often (`pipeline.py:748`): with p = q = (1/6, 5/6)
  and tau = 2/6 the rarer id is emitted with chance 1/36. The controller, the default
  at tau 0, does the same past its floor (`pipeline.py:760`). Acceptance itself is
  exact (`LosslessLaunched`: where every draft drawn is launched).
- *The gate settles on the faster arm* (`SelfGate`, `SettlesOnFaster`, `Upsets` = 1). After
  a change of regime the held arm's rate is not measured again while the other's is,
  and the slower arm may be held again and again (`pipeline.py:493`).
- *Cold steps are not charged to an arm* (`ColdNotCharged`, `HostResets` FALSE): `_warm_gate`
  is reset by `reset_stats()`, not by `prime()` (`pipeline.py:471`).
- *A head that could not be fed is asked again after a prefill* (`PrimeRearms`, `Feeds` and
  `HostResets` FALSE): `prime()` does not clear the stale flag (`pipeline.py:735`).
- *One prediction in flight per layer* (`ReadAhead`, `OneInFlight`, `Decodes` TRUE and
  `MaxPrefetch` = 2): a dropped prediction is still read, in front of the next
  (`pool.py:326`).
- *Eviction decisions of `touch()` match plain `ensure`* (`TouchFirst`, `EvictionsMatch`,
  as in `layer_call.cfg`): one call's do (`OneCallAgrees`), two calls' need not
  (`pool.py:294`).
- *Experts stay within a budget that covers k slots everywhere* (`Residency`, `BudgetKept`,
  as in `layer_call.cfg`): where layers differ in width the even split may be below k slots
  for one of them, which gets k all the same (`integrate.py:789`).
- *No stored chain ever loses its prefix* (`PagedPromptCache`, `ChainsWhole`, one token,
  `MaxLen` = 4, `MaxBytes` = 2, `PendingCap` = 4, `Sliced` TRUE): segments still queued
  do not hold their prefix, so a sequence beyond `max_bytes` leaves an orphan
  (`kvcache.py:198`).
- *The longest prefix shared with anything stored is restored* (`RestoresLongest`, two
  tokens, `MaxBytes` = 5, `Sliced` TRUE): only successors of the longest whole chain are
  cut into (`kvcache.py:374`).
- *The next turn repeats everything before it, so it restores it whole* (`PrefillHistory`,
  `NextTurnWhole`, constants as in `MCPrefill`'s part `again`; `serve.py:31`): where
  caches cannot be trimmed, or are cut only from where a stored one ends, a chunk of a
  longer conversation can end inside the tail an earlier turn was asked with. That turn
  asked again is restored up to there; `cut` looks for the tail in what is left, does not
  find it, and nothing is stored where the history ends (`serve.py:168`).
  `HistoryRestored` excepts just such turns (`late`).
- `_settle` adopts new rows after refreshing residents, so the recency order it
  leaves differs from one-by-one decoding (`SettleKeeps` states the contents,
  which agree).

## 5. The proofs

| Theorem | For every | States |
|---|---|---|
| *`ExpertPoolProofs`* | | |
| `SlotMapAlways` | experts, slots, policy, reads raising or not | `Spec => [](TypeOK /\ SlotMap)` |
| `S3BooksAlwaysAgree` | experts, slots; s3fifo; reads raising or not | `Spec => []S3BooksAgree` |
| `EvictMainByTurns` | main queue | the closed form of `_s3_evict_main` is one turn of its loop, then the closed form of what the turn leaves |
| `NeverEvictsItself` | experts, slots; LRU; reads raising or not | `Spec => []NoSelfEviction` |
| `OutputAlwaysExact` | experts, slots; LRU; reads succeed | `Spec => []OutputExact` |
| `SweepAlwaysWarms` | the same | `Spec => []SweepWarms` |
| `PoolImplementsStock` | the same | `Spec => ImplementsStock` |
| *`SwitchProofs`* | | |
| `BatchesAlwaysWhole` | experts, layers, slots, batches, tasks; decode calls or none; reads raising or not | `Spec => []BatchesWhole` |
| `ReadAlwaysOnce` | the same | `Spec => []ReadOnce` |
| `NoOrphanAlways` | the same | `Spec => []NoOrphanWaits` |
| `RowsAlwaysInPlace` | experts, slots, k, rows, batch size, thresholds | `PartsSpec => []RowsInPlace` |
| `KernelAlwaysSame` | the same | `PartsSpec => []SameKernel` |
| `WarmestAlwaysLast` | the same | `PartsSpec => []WarmestLast` |
| `SlicesAlwaysExact` | experts, slots, k's, rows | `PartsSpec => []SlicesExact` |
| `OneCallAlwaysAgrees` | experts, slots, k | `PartsSpec => OneCallAgrees` |
| *`PipelineStepProofs`* | | |
| `InReachAlways` | layers, streams, experts, slots, routing; reads raising or not | `Spec => []RowsInReach` |
| `CachesAgree` | the same | `Spec => []LayersAgree` |
| `SettlesAsPlain` | the same | `Spec => SettleKeeps` |
| *`LookaheadProofs`* | | |
| `PendingAlwaysKept` | tokens, containers, K, bounds | `Spec => []PendingKept` |
| `LookaheadImplementsPlain` | the same | `Spec => ImplementsPlain` |
| *`DecodeLoopProofs`* | | |
| `CacheAlwaysFollows` | tokens, stop ids, length, K, path | `Spec => []CacheFollows` |
| `FedAlwaysInOrder` | the same | `Spec => []FedInOrder` |
| `StepsAsPlain` | the same | every step is one of `PlainLoop` or a stutter |
| `HeadContextAlways` | windows, depth, pairs, either drafter | `PartsSpec => []HeadContext` |
| `GateAlwaysHolds` | costs, probes, holds, stream counts; `Feeds`, `HostResets` | `PartsSpec => []GateHolds` |
| *`PagedPromptCacheProofs`* | | |
| `BooksAlwaysKept` | tokens, lengths, caps, faults or none | `Spec => []BooksKept` |
| `DiskAlwaysAgrees` | the same | `Spec => []DiskAgrees` |
| `RestoresAlwaysExact` | the same | `Spec => []RestoreExact` |
| `GrowthAlwaysBounded` | the same | `Spec => GrowthBounded` |
| `ChainsAlwaysWhole` | tokens, lengths, caps no smaller than a sequence; no faults | `Spec => []ChainsWhole` |
| *`PrefillProofs`* | | |
| `StoredAlwaysExact` | messages, tail, steps, bounds, either store | `Spec => []StoredExact` |
| `ChunksAlwaysEven` | the same | `Spec => []ChunksEven` |
| `HistoryAlwaysRestored` | the same | `Spec => []HistoryRestored` |
| `ProgressAlwaysRises` | the same | `Spec => ProgressRises` |
| `BlocksAlwaysExact` | queries, earlier keys, units, limits, causal or not | `PartsSpec => []BlocksExact` |

*Assumptions* are those of the modules, each about what the program accepts as a
configuration (counts are positive, flags are Boolean, a stop id is a token):
the five of `ExpertPool`, `ReadAheadAssumption`, `PipelineAssumption`, `LookaheadAssumption`,
`GenerateAssumption`, `BoundsAssumption`, `FlagsAssumption`, `PrefillAssumption`, and the
`PartsAssumption` of `MCLayerCall`, `MCDecodeLoop` and `MCPrefill`, which is the
assumptions of the modules they instantiate. TLC evaluates them in the runs. Nothing
else is assumed; where a theorem needs a policy, reads that succeed, a cap or what the
host does, that is its hypothesis, and a run (or section 4) shows what happens without.

*Lemmas about data.* `ExpertPoolProofs` begins with what each dictionary operation does to
keys, values and order. `SeqFoldsProofs` gets induction over naturals and over
sequences, each over a *set* of those for which the claim holds, from the library's
theorem that `<` is well-founded (its induction theorems take a predicate, which
the provers cannot instantiate); then what a fold whose step is a function is for one
entry more, and what selecting, concatenating and cutting do to one another. Of a
recency order: it keeps to its slots, no one is in it twice, and after experts are taken
one by one it ends with them, once each, in the order they were last taken
(`BetweenBounds`, `LruTakesEnd`).

*Expert pool.* `TypeInv` joins types and slot books; it is inductive because a slot
leaves `free` or its owner in the very step that binds it. `NoSelfEviction` is not
inductive: that an LRU eviction spares the call's own experts depends on *where* they
are. `LruInv` says that the experts processed so far are the most recent entries of
`id2slot`, and that there are at most `NSlots` of them together with those to come: so
the oldest entry is never one of them while a slot is needed. `ExactInv` adds that every
bound slot holds its expert's rows, except those of experts still in `missing`, which
are pairwise distinct and all resident, and that what was computed for the hits is
exact; from it follow `OutputExact`, that `FetchUnmapped` cannot happen, the step
simulation for `StockSwitch`, and `SweepWarms`. The hypotheses are needed: with failing
reads or s3fifo `pool_short_read` and `pool_s3fifo_raises` refute the conclusions.

For s3fifo, `S3Inv` says that the queues keep to their capacities, which add up to
`NSlots`; that residents are in the small or the main queue, and never ghosts; and, with
two slots or more, that those two queues hold residents only and no one twice. The last
part makes the step provable: an insertion that evicts no one finds fewer queued than
slots, so a slot is free (`PoolFull`, `NoSlotRaise`). With one slot both capacities are
one, a call may raise between the insertion and the binding, and a queue may keep one
expert that is not resident; the invariant allows just that.

*Read ahead.* `RInv` follows the futures. A task waits in one queue, once, and only the
first of a queue runs; each early future of a layer is of a read of its own expert for
that layer, whoever queued it, and stays so because ids are reused only when nobody holds
them; a sweep's own read is of just what it had not taken (`BatchesWhole`). `ReadOnce`
needs `Once`: of an expert at most one read waits, and none once one has begun (`Alone`);
what was read ahead for a layer is what that layer holds, so nothing is asked for a second
time (`HeldAhead`, the part a raise breaks); and of what a sweep routes only the batches
so far have been asked for, besides what it took (`SweptOnce`). A call cancels only reads
of its own layer's, so what another layer will take cannot be among them (`GivenUp`).
`NoOrphanWaits` needs more: that the batches behind a sweep are done, since it waited for
them, so that what it lets go of at its last batch waits no more; and that every batch has
an expert (`BatchesFull`), or a read started for the next layer would be held by none. It
holds while no read has raised: a sweep that raises leaves the reads it had taken in the
queue.

*Sweep.* `CkInv` describes a sweep by the pairs in expert order. `Argsorted` gives them
sorted (`ArgsortedProperties`), so that the pairs of the experts taken so far are a
prefix, which each batch continues (`UptoBounds`, `BatchPairs`): the results so far are
that prefix's, and at the end putting them back by the inverse order gives every row its
own (`RowsInPlace`). Padding reaches whichever threshold the stock call is above
(`PadReaches`), so every batch runs its kernel. The pool ends with the warm experts
taken so far: only warm ones are adopted, and there are as many of them as slots. So at the
end it holds just them, and the retouch puts them in order.

*Slices.* `SlInv`: experts ensured are the pool's last entries, so those of a slice that
fits are in their slots when its gather is built and still when it is evaluated. A slice
and the row after it do not fit together, so every cut of the rows that fits ends a run
within each slice: there are no fewer.

*Touch first.* From one order both pools end as the same `NSlots` - K others, followed by
the call's K experts, in two orders; so they hold the same experts (`OneCallAgrees`) but
the next call may not evict the same (section 4).

*Pipelined step.* `IInv` counts: how many streams have entered and left each layer is a
function of the clock (`EnteredAt`, `LeftAt`), so a stream's layer input is there when it
begins and a layer's settle comes after all its streams. About reads it says that what a
stream waits for is resident, being read for it, or was found by a stream before it in the
same layer, in whatever order they arrive. A layer's snapshots are the prefixes before
each stream and outlive the step, so a rollback, the first or a later one, leaves just the
streams accepted (`LayersAgree`). `SettlesAsPlain` compares one settle with one-by-one
decoding: adopting every stream's rows at once and adopting them in turn keep the same
last `NSlots` experts (`AdoptLast`, `AllHitSplit`, over folds).

*Lookahead.* `LInv` states all of the decoder's records by one sequence: the host's
sequence continued by what the model would answer. Cache, pending logits and hiddens are
consecutive pieces of it, the container that owns them is the host's or was swapped away
with them, and a call that does not continue it drops them. The refinement maps each
call of the decoder to a call of `PlainDecode`, rollbacks and swaps to stutters.

*Generate.* `GInv`: the cache is a prefix of the greedy path, of the length the phase of
the loop's turn gives, and the drafts accepted are the path's own ids, by induction up to
the first that differs. `StepsAsPlain` is the safety half of `ImplementsPlainLoop`; its
fairness stays with TLC.

*Draft head.* `HInv`: what the cache and the waiting pairs are, or what a chain in
progress will be undone to, ends with the committed pairs as far back as a layer sees.
Trimming the waiting pairs to a window keeps that end, and a reset empties both.

*Gate.* `GateInv`: while a regime lasts, the time a probe has been charged is its tokens'
cost, so a measured rate is the arm's cost whatever number of tokens it was measured on
(`LowerScaled`), and the arm held is the one the two rates order first (`HoldsFaster`). It
needs that no step is charged while it pays for something else, which is where
`HostResets` comes in (a cold step must find `_warm_gate` set), and that the arm asked
for is the arm run, which is where `Feeds` does (a stale head drafts nothing).
Section 4's `ColdNotCharged` and `PrimeRearms` are what happens otherwise.

*Prompt cache.* `KInv` joins types; the index (a chain's parent is the prefix it was cut
at, the successor sets and byte count are sums over the index); what is pending (each
pending segment is in the writer's hands or queued once, and `_pending` and its bytes are
theirs); and that nothing waiting is indexed or queued already. The last is the one that
is not obvious: a save looks only at the index, and what keeps two saves of a request from
queueing one segment twice is that each save is longer than those before it. A temporary
file is never a stored segment's: only a write leaves it, a segment waiting is not stored,
and the write that stores it takes the file. Then a walk's payloads concatenate to its
key, by induction along the chain, so whatever is restored is the request's own first
tokens; and eviction ends within `max_bytes` because the longest key stored always is a
leaf. `CInv` adds that what is stored, what a restart finds, what waits to be written and
what the request saves next form chains. Eviction takes leaves, the oldest first, and the
segment just added is the last: as a whole sequence fits the cap, what the next one hangs
on stays. Both hypotheses are needed: a write that fails drops the segment its successor
hangs on, and a cap below one sequence evicts it (section 4).

*Prefill.* `PInv`: from the lookup to the answer, the cache is the request's first tokens
and the prompt its others, whichever of the two records (`fetch`, `last`) the base was
taken from; then a key counted from the base is the cache's own, and what is stored is
its key's (`StoredExact`). For the chunks, `SweepsRight` bounds how many there are and
how long (a last chunk under a quarter step spread over the others adds at most a
quarter), and `EvenedSum` adds them up. `HInv` follows a history: where caches cannot be
trimmed, or are the paged store's, what was used whole is a stored key and so, in the
paged store, is every point a chunk ended at, so a prefill that did not begin past the
history stores it where it stops, or found it restored already (`StopPromise`,
`NothingBeforePromise`); an answer's own entry replaces no shorter one (`AnswerPromise`);
and the next turn's lookup gives the history back (`HistoryFound`), as the key used whole
or, in the paged cache, as a part of what succeeds the longest one (`Holds`).

*Attention.* `BlocksInv`: the rows done so far attend to what the stock call's rows would,
for each of the masks a block can be given, wherever the block begins; and its scores
are at most the limit, or one unit's; once a block has raised only the rows are claimed.

*Model-checked only.*
- Liveness: `RequestsServed`, `CallsEnd`, `ProbesOther`, and the fairness
  of `ImplementsPlainLoop`. The prover has neither `ENABLED` nor `WF`.
- That `_s3_evict_main`'s loop ends (`EvictMainByTurns` says what it returns if it does):
  an `ASSUME` of `MCExpertPool` runs it on every main queue of up to four entries.
- `PlanHolds`, `RangesExact`, `SpansMaximal` and `LosslessLaunched`, whose modules
  (`Residency`, `ReadRanges`, `SpeculativeSampling`) have no theorems. The last two use the
  library's folds and selections with operators, which the provers cannot expand;
  `SeqFolds` would have to replace them first. `Residency` takes sums over sets of layers.
- `CalmChainsWhole` and `BytesGrowthBounded` join the two servers of `MCPromptCache`; the
  theorems `ChainsAlwaysWhole` and `GrowthAlwaysBounded` state them for one server.
- What a run of parts says of `ReadAhead`, `Generate` or `PrefillHistory` is proved of that
  module's `Spec`, for every value of the constants its instances are given.

## 6. Not modelled

Tensor arithmetic and the bitwise claims about it (`switch_forward`, the layer halves in
`pipeline_adapters.py`, expert scales): that MLX's kernels give equal rows equal results
is taken from it, and the models say which row meets which weights on which kernel.
Hit, miss and time statistics; the GPU keepalive. The routing prediction
(`_pf_pred_lazy`) and the K controller's estimates: free choices wherever they matter.
Model fingerprints and header parsing (`_open` binds to one directory; a torn file is
one that is gone); a file whose content goes bad while the process runs; a stat or
unlink that fails after the file was moved; `insert_cache` for tokens that do not
extend the request in progress. Wrapping a model (`_wrap`, shims, remapping), flags
and memory caps of the server, the command-line tools but for `generate.py`'s loops.
Component by component: `PROJECT.json` "components"; hazards without a property have a
note there.

## 7. Plan

Order of what comes next, most important first.

1. *Proofs*: `PlanHolds` of `Residency`; `RangesExact` and `SpansMaximal` of `ReadRanges`,
   `LosslessLaunched` of `SpeculativeSampling`, once their folds are `SeqFolds`'.
2. *Files*: a state per file in `PagedPromptCache` (readable, cut short) for
   what an unreadable file does for good, and for restarts that find more than fits.
3. *Compositions*: `ReadAhead` over `ExpertPool`, `Generate` over `PipelineStep`.

## 8. Running it

`tlc -workers 2 -config <run>.cfg <module>.tla` for a run (the module is in
`PROJECT.json`); the longest, `kv_store`, takes about three minutes. `tlapm <module>.tla`
checks the proofs of a module; `PagedPromptCacheProofs` and `SwitchProofs`, the longest,
take about three minutes each.
