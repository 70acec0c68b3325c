-------------------------- MODULE PagedPromptCache --------------------------
(***************************************************************************)
(* The prompt cache on SSD (streamlx/kvcache.py, PagedPromptCache): an     *)
(* index of segments shared by every request with the same prefix, the     *)
(* files behind it, and two threads: the server's, which runs one request  *)
(* at a time (fetch_nearest_cache, save_progress, insert_cache), and the   *)
(* writer's.  The process may crash at any step and be restarted on the    *)
(* same directory.                                                         *)
(*                                                                         *)
(* A key hashes the tokens before a segment's end, so it is modelled by    *)
(* those tokens; <<>> stands for the code's "" (the start of a sequence).  *)
(* A segment's payload is the tokens its layers' slices were computed      *)
(* from, key[start + 1 .. end], and its size is their number.  `used` and  *)
(* a file's mtime are positions: segs and disk list their entries least    *)
(* recently used first.  A chain just restored shares one timestamp; its   *)
(* order within does not matter, since only its leaf can be evicted.       *)
(***************************************************************************)
EXTENDS Integers, Sequences, FiniteSets, FiniteSetsExt, SequencesExt, OrderedDict, SeqFolds

CONSTANTS
    Tokens,      \* the vocabulary
    MaxLen,      \* bound on a sequence: prompt and answer
    MaxBytes,    \* max_bytes: --kv-cache-gib
    PendingCap,  \* _pending_cap: bytes of host copies waiting for the disk
    Sliced,      \* _sliced_only: every layer's cache can be cut at any token
    Faults,      \* whether reads, writes and _save may raise, and a crash tear a file
    MaxDisk,     \* bound: no crash leaves more than this many bytes of files
    TmpKeys      \* bound: the only segments whose temporary files are left behind

ASSUME BoundsAssumption == MaxLen \in Nat /\ MaxBytes \in Nat /\ PendingCap \in Nat /\ MaxDisk \in Nat
ASSUME FlagsAssumption == Sliced \in BOOLEAN /\ Faults \in BOOLEAN

Root == <<>>
NoCur == [cut |-> -1, prev |-> Root]
TokenSeqs == UNION {[1 .. n -> Tokens] : n \in 1 .. MaxLen}
Take(t, n) == SubSeq(t, 1, n)

VARIABLES
    dir,      \* whether _open has bound the process to the directory
    index,    \* segs: key -> [prev, start]; nexts: <<prev, key>>; bytes
    disk,     \* the directory's segment files: key -> [prev, start]
    tmp,      \* the keys whose <key>.tmp is in the directory
    q,        \* segments queued for the writer
    hand,     \* the segment the writer is at, <<>> when none
    wpc,      \* where the writer is
    pending,  \* _pending: bytes queued or being written
    rpc,      \* where the server thread is
    req,      \* tokens of the request in progress, <<>> when none
    saving,   \* the segment _save is waiting to queue, <<>> when none
    cur,      \* _cur: last cut of the active request, and its key
    restored  \* tokens the caches fetch just returned were restored from

server == <<rpc, req, saving, cur, restored>>
writer == <<hand, wpc>>
vars == <<dir, index, disk, tmp, q, hand, wpc, pending, rpc, req, saving, cur, restored>>

-----------------------------------------------------------------------------
(* The index.                                                              *)

Seg(key, prev, start) == [k |-> key, v |-> [prev |-> prev, start |-> start]]
Size(s) == Len(s.k) - s.v.start
Payload(s) == SubSeq(s.k, s.v.start + 1, Len(s.k))
TotalSize(segs) == Fold([s \in Range(segs) |-> [n \in Int |-> n + Size(s)]], 0, segs)
Links(segs) == {<<s.v.prev, s.k>> : s \in Range(segs)}
EmptyIndex == [segs |-> <<>>, nexts |-> {}, bytes |-> 0]

\* The entries of d without those of these keys.
Less(d, keys) ==
    Fold([x \in Range(d) |-> [t \in Seq(Range(d)) |-> IF x.k \in keys THEN t ELSE Append(t, x)]],
         <<>>, d)

\* The entries of d with s as the latest, whether or not its key was there.
Renewed(d, s) == Append(Less(d, {s.k}), s)

Stored(key) == key \in Keys(index.segs)

Add(ix, s) ==
    LET old == IF s.k \in Keys(ix.segs)
               THEN Size([k |-> s.k, v |-> Get(ix.segs, s.k)]) ELSE 0
    IN  [segs |-> Renewed(ix.segs, s),
         nexts |-> ix.nexts \cup {<<s.v.prev, s.k>>},
         bytes |-> ix.bytes - old + Size(s)]

\* Mutant: the segment stays listed among its prefix's successors.
DropKeepsLink(ix, s) ==
    [segs |-> Less(ix.segs, {s.k}), nexts |-> ix.nexts, bytes |-> ix.bytes - Size(s)]

Drop(ix, s) ==
    [segs |-> Less(ix.segs, {s.k}),
     nexts |-> ix.nexts \ {<<s.v.prev, s.k>>},
     bytes |-> ix.bytes - Size(s)]

\* Mutant: plain least recently used, prefixes included.
AnySegment(ix) == ix.segs

\* What no segment extends, least recently used first.
Leaves(ix) == Less(ix.segs, {link[1] : link \in ix.nexts})

DropOldestLeaf(ix) ==
    IF ix.bytes > MaxBytes /\ Leaves(ix) # <<>> THEN Drop(ix, Head(Leaves(ix))) ELSE ix

\* Mutant: a single round of eviction.
EvictOnce(ix) == DropOldestLeaf(ix)

\* Leaves go until the index fits; a dropped leaf may make its prefix one.
\* (There are no more rounds than segments; the singletons make TLC evaluate
\* each round once.)
Evict(ix) ==
    LET Indices == [segs : Seq(Range(ix.segs)), nexts : SUBSET ix.nexts, bytes : Int]
        Round == [x \in Indices |-> CHOOSE y \in {DropOldestLeaf(z) : z \in {x}} : TRUE]
    IN  IF ix.bytes <= MaxBytes THEN ix
        ELSE Fold([s \in Range(ix.segs) |-> Round], ix, ix.segs)

\* The segments from the start of the sequence to `key`, <<>> when one of
\* them is gone.
Walk(segs, key) ==
    LET At(k) == segs[IndexOf(segs, k)]
        Back == [c \in Seq(Range(segs)) |->
                    IF Head(c).v.prev \in Keys(segs) THEN <<At(Head(c).v.prev)>> \o c ELSE c]
        chain == Fold([s \in Range(segs) |-> Back], <<At(key)>>, segs)
    IN  IF chain[1].v.prev = Root /\ chain[1].v.start = 0 THEN chain ELSE <<>>

\* _open: index the files, then drop those whose prefix is gone.
Whole(files) == Only(files, {s \in Range(files) : Walk(files, s.k) # <<>>})
Opened(files) ==
    [segs |-> Whole(files), nexts |-> Links(Whole(files)), bytes |-> TotalSize(Whole(files))]

-----------------------------------------------------------------------------
(* fetch_nearest_cache.                                                    *)

\* A request arrives, any earlier one being over or aborted: the index is
\* opened if the process is new (the only time temporary files are cleared),
\* and the writer is waited for.
Fetch(t) ==
    /\ rpc = "ready"
    /\ rpc' = "flush" /\ req' = t
    /\ dir' = TRUE
    /\ \/ dir /\ UNCHANGED <<index, disk, tmp>>
       \/ ~dir /\ index' = Opened(disk) /\ disk' = Whole(disk) /\ tmp' = {}
    /\ cur' = NoCur /\ restored' = <<>>
    /\ UNCHANGED <<q, writer, pending, saving>>

\* The ends at which a stored chain covers a proper prefix of the request.
WholeEnds(t) == {n \in 1 .. Len(t) - 1 : Stored(Take(t, n)) /\ Walk(index.segs, Take(t, n)) # <<>>}
Best(t) == Take(t, Max(WholeEnds(t) \cup {0}))
ChainTo(best) == IF best = Root THEN <<>> ELSE Walk(index.segs, best)
Common(a, b) ==
    Max({n \in 0 .. Min({Len(a), Len(b)}) : Take(a, n) = Take(b, n)})

\* The successors of the best chain, with the tokens each shares with what
\* is wanted next.
Successors(t, best) ==
    {[seg |-> s, same |-> Common(Payload(s), SubSeq(t, Len(best) + 1, Len(t) - 1))] :
        s \in {x \in Range(index.segs) : <<best, x.k>> \in index.nexts}}

\* The successors to cut into: one sharing the most (Faults: of those read).
Partials(t, best) ==
    IF ~Sliced THEN {}
    ELSE {p \in Successors(t, best) :
            p.same > 0 /\ (Faults \/ \A o \in Successors(t, best) : o.same <= p.same)}

\* _restore: the payloads of the chain, then the first tokens of a partial.
Concat(chain) ==
    Fold([s \in Range(chain) |-> [t \in Seq(Tokens) |-> t \o Payload(s)]], <<>>, chain)
Touched(segs, used) == Less(segs, Keys(used)) \o used

\* Mutant: a partial successor is restored whole, not cut at the shared tokens.
RestoreWholePartial(chain, partial) ==
    LET used == chain \o [i \in DOMAIN partial |-> partial[i].seg]
    IN  /\ restored' = Concat(used)
        /\ index' = [index EXCEPT !.segs = Touched(index.segs, used)]
        /\ disk' = Touched(disk, used)
        /\ cur' = IF chain = <<>> THEN [cut |-> 0, prev |-> Root]
                  ELSE [cut |-> Len(Last(chain).k), prev |-> Last(chain).k]

Restore(chain, partial) ==
    LET rest == [i \in DOMAIN partial |-> Take(Payload(partial[i].seg), partial[i].same)]
    IN  /\ restored' = Concat(chain) \o (IF rest = <<>> THEN <<>> ELSE rest[1])
        /\ \E used \in {chain \o [i \in DOMAIN partial |-> partial[i].seg]} :
              /\ index' = [index EXCEPT !.segs = Touched(index.segs, used)]
              /\ disk' = Touched(disk, used)
        /\ cur' = IF chain = <<>> THEN [cut |-> 0, prev |-> Root]
                  ELSE [cut |-> Len(Last(chain).k), prev |-> Last(chain).k]

Miss == /\ restored' = <<>>
        /\ cur' = [cut |-> 0, prev |-> Root]
        /\ UNCHANGED <<index, disk>>

FetchReturn ==
    /\ rpc = "flush" /\ pending = 0
    /\ rpc' = "ready"
    /\ \E best \in {Best(req)} : \E chain \in {ChainTo(best)}, parts \in {Partials(req, best)} :
          \/ \E p \in parts : Restore(chain, <<p>>)
          \/ (parts = {} \/ Faults) /\ chain # <<>> /\ Restore(chain, <<>>)
          \/ ((parts = {} /\ chain = <<>>) \/ Faults) /\ Miss
    /\ UNCHANGED <<dir, tmp, q, writer, pending, req, saving>>

-----------------------------------------------------------------------------
(* _save, for save_progress and insert_cache.                              *)

\* Nothing to do when the key is stored; else wait for room in the queue.
Save(t, n, cut, prev) ==
    IF Stored(Take(t, n)) THEN UNCHANGED <<rpc, saving>>
    ELSE rpc' = "room" /\ saving' = <<Seg(Take(t, n), prev, cut)>>

\* Where prefill may report progress, whatever the chunk size: beyond what
\* was restored and stored, and at least one token short of the prompt.
Progress == Max({cur.cut, Len(restored)}) + 1 .. Len(req) - 1

\* Prefill reached tokens[:n].
SaveProgress ==
    /\ rpc = "ready" /\ req # <<>> /\ cur # NoCur
    /\ \E n \in Progress :
          /\ Save(req, n, cur.cut, cur.prev)
          /\ cur' = [cut |-> n, prev |-> Take(req, n)]
    /\ restored' = <<>>
    /\ UNCHANGED <<dir, index, disk, tmp, q, writer, pending, req>>

\* _save raised: the request goes on without its cut points.
SaveRaises ==
    /\ Faults
    /\ rpc = "ready" /\ req # <<>> /\ cur # NoCur /\ Progress # {}
    /\ cur' = NoCur
    /\ restored' = <<>>
    /\ UNCHANGED <<dir, index, disk, tmp, q, writer, pending, rpc, req, saving>>

\* The answer is complete: t is the prompt and the answer's tokens the cache
\* has seen.
Insert ==
    /\ rpc = "ready" /\ req # <<>>
    /\ \E t \in TokenSeqs :
          /\ IsPrefix(req, t)
          /\ \/ cur # NoCur /\ Save(t, Len(t), cur.cut, cur.prev)
             \/ cur = NoCur /\ Save(t, Len(t), 0, Root)
    /\ cur' = NoCur /\ req' = <<>> /\ restored' = <<>>
    /\ UNCHANGED <<dir, index, disk, tmp, q, writer, pending>>

\* The queue has room, or is empty: a segment above the cap passes alone.
Enqueue ==
    /\ rpc = "room"
    /\ pending = 0 \/ pending + Size(saving[1]) <= PendingCap
    /\ pending' = pending + Size(saving[1])
    /\ q' = q \o saving
    /\ rpc' = "ready" /\ saving' = <<>>
    /\ UNCHANGED <<dir, index, disk, tmp, writer, req, cur, restored>>

-----------------------------------------------------------------------------
(* The writer thread.                                                      *)

\* What a write leaves aside when it does not get to its end: <key>.tmp, or
\* nothing more when the file could not even be opened.
LeavesTmp(key) ==
    \/ UNCHANGED tmp
    \/ key \in TmpKeys /\ tmp' = tmp \cup {key}

\* The file is written aside, over what an earlier write left there, and moved
\* into place.
WriterPlace ==
    /\ wpc = "get" /\ q # <<>>
    /\ hand' = <<Head(q)>> /\ q' = Tail(q)
    /\ disk' = Renewed(disk, Head(q)) /\ tmp' = tmp \ {Head(q).k}
    /\ wpc' = "placed"
    /\ UNCHANGED <<dir, index, pending, server>>

\* Mutant: a failed write returns without giving its bytes back.
WriterFailsKeepsPending ==
    /\ Faults
    /\ wpc = "get" /\ q # <<>>
    /\ q' = Tail(q)
    /\ UNCHANGED <<dir, index, disk, tmp, pending, hand, wpc, server>>

\* The write or the rename raises (OSError): nothing is indexed, and what was
\* written stays in <key>.tmp, until a write of the same key or a restart.
WriterFails ==
    /\ Faults
    /\ wpc = "get" /\ q # <<>>
    /\ hand' = <<Head(q)>> /\ q' = Tail(q)
    /\ LeavesTmp(Head(q).k)
    /\ wpc' = "done"
    /\ UNCHANGED <<dir, index, disk, pending, server>>

\* Mutant: the evicted segments' files are left behind.
WriterAddLeaksFiles ==
    /\ wpc = "placed"
    /\ index' = Evict(Add(index, hand[1]))
    /\ wpc' = "done"
    /\ UNCHANGED <<dir, disk, tmp, q, hand, pending, server>>

\* Under the lock: add it to the index and evict down to MaxBytes.
WriterAdd ==
    /\ wpc = "placed" /\ wpc' = "done"
    /\ \E added \in {Add(index, hand[1])} : index' = Evict(added)
    /\ disk' = Less(disk, Keys(disk) \ Keys(index'.segs))
    /\ UNCHANGED <<dir, tmp, q, hand, pending, server>>

\* Its bytes are given back, and whoever waits on them is notified.
WriterDone ==
    /\ wpc = "done"
    /\ pending' = pending - Size(hand[1])
    /\ hand' = <<>> /\ wpc' = "get"
    /\ UNCHANGED <<dir, index, disk, tmp, q, server>>

-----------------------------------------------------------------------------
(* Crash and restart: only the files survive, less one torn or deleted; a   *)
(* write under way leaves its temporary file.                              *)
Init ==
    /\ dir = FALSE /\ index = EmptyIndex /\ disk = <<>> /\ tmp = {}
    /\ q = <<>> /\ hand = <<>> /\ wpc = "get" /\ pending = 0
    /\ rpc = "ready" /\ req = <<>> /\ saving = <<>> /\ cur = NoCur /\ restored = <<>>

Crash ==
    /\ dir /\ TotalSize(disk) <= MaxDisk
    /\ dir' = FALSE /\ index' = EmptyIndex
    /\ \/ UNCHANGED disk
       \/ Faults /\ \E k \in Keys(disk) : disk' = Less(disk, {k})
    /\ IF wpc = "get" /\ q # <<>> THEN LeavesTmp(Head(q).k) ELSE UNCHANGED tmp
    /\ q' = <<>> /\ hand' = <<>> /\ wpc' = "get" /\ pending' = 0
    /\ rpc' = "ready" /\ req' = <<>> /\ saving' = <<>> /\ cur' = NoCur /\ restored' = <<>>

Server == FetchReturn \/ Enqueue
Writer == WriterPlace \/ WriterFails \/ WriterAdd \/ WriterDone
Next ==
    \/ \E t \in TokenSeqs : Fetch(t)
    \/ SaveProgress \/ SaveRaises \/ Insert
    \/ Server \/ Writer \/ Crash

\* The writer thread takes what is queued; a waiting server thread, once
\* notified, goes on.  Nothing obliges a request to arrive or a save to be
\* asked for.
Spec == Init /\ [][Next]_vars /\ WF_vars(Server) /\ WF_vars(Writer)

-----------------------------------------------------------------------------
(* Properties.                                                             *)

Alike == Permutations(Tokens)

Segments == [k : TokenSeqs, v : [prev : TokenSeqs \cup {Root}, start : 0 .. MaxLen]]

TypeOK ==
    /\ dir \in BOOLEAN
    /\ \A s \in Range(index.segs) \cup Range(disk) \cup Range(q) \cup Range(hand) \cup Range(saving) :
          s \in Segments /\ Size(s) > 0
    /\ tmp \subseteq TokenSeqs /\ index.bytes \in Nat /\ pending \in Nat
    /\ wpc \in {"get", "placed", "done"} /\ rpc \in {"ready", "flush", "room"}
    /\ cur.cut \in -1 .. MaxLen

\* The incremental books equal what they stand for: the successor sets the
\* leaf test and fetch's succ lookup read, the byte count eviction stops at
\* and the pending bytes flush() waits on, through failures and restarts.
BooksAgree ==
    /\ index.nexts = Links(index.segs)
    /\ index.bytes = TotalSize(index.segs)
    /\ pending = TotalSize(q \o hand)

FilesIndexed == dir => disk = index.segs \o (IF wpc = "placed" THEN hand ELSE <<>>)
TmpUnstored == tmp \cap Keys(disk) = {}

\* The directory's segment files are the indexed segments, in the order a
\* restart would evict them, and a temporary file is never that of a stored
\* segment: whatever writes fail, are tried again, are cut by a crash or are
\* evicted, no segment file is leaked (its bytes would escape max_bytes), and
\* a segment stored on a later try leaves nothing of the failed one.
DiskAgrees == FilesIndexed /\ TmpUnstored

\* A request's caches are restored from exactly its first tokens, one token
\* at least being left to compute.
RestoreExact ==
    rpc = "ready" /\ req # <<>> => /\ IsPrefix(restored, req)
                                   /\ Len(restored) < Len(req)

\* No stored chain ever loses its prefix (_evict's docstring).
ChainsWhole == \A s \in Range(index.segs) : Walk(index.segs, s.k) # <<>>

\* Stored bytes grow only up to MaxBytes; a restart may find more on disk.
GrowthBounded == [][dir => index'.bytes <= Max({index.bytes, MaxBytes})]_vars

\* The server thread is never left waiting on the writer.
RequestsServed == rpc # "ready" ~> rpc = "ready"

\* A request restores the longest prefix it shares with anything stored (the
\* module's docstring), here with caches that can be cut at any token.
RestoresLongest ==
    [][FetchReturn => \A s \in Range(index.segs) :
          Walk(index.segs, s.k) # <<>>
              => Common(s.k, Take(req, Len(req) - 1)) <= Len(restored')]_vars

\* Every variable keeps its type, no segment is empty, and the incremental
\* books equal what they stand for (kvcache.py, _add, _drop and _pending).
BooksKept == TypeOK /\ BooksAgree

=============================================================================
