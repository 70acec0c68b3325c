--------------------------- MODULE PrefillHistory ---------------------------
(***************************************************************************)
(* The server's prefill (examples/serve.py, _prefill_history): a request's *)
(* uncached prompt is computed in chunks up to where its history ends, the *)
(* cache is stored there, and stream_generate gets the rest.  The next     *)
(* turn repeats the history, and not always what follows it.               *)
(*                                                                         *)
(* Requests run one at a time.  A cache is the tokens it was computed      *)
(* from; the store is either the stock RAM cache or PagedPromptCache (a    *)
(* module of its own), here only what each gives back.  Either may forget  *)
(* an entry at any time.                                                   *)
(***************************************************************************)
EXTENDS Integers, Sequences, FiniteSets, FiniteSetsExt, SequencesExt, SeqFolds

CONSTANTS
    Words,        \* a message, or an answer, repeats one of them
    Lengths,      \* how long messages are
    SuffixLen,    \* tokens the template appends to ask for an answer
    Steps,        \* --prefill-step-size: what it may be
    MinSnapshot,  \* the shortest history worth a RAM copy
    MaxSnapshot,  \* the longest the RAM cache's cap lets be copied
    MaxLen,       \* bound on a sequence
    MaxRequests   \* bound on the requests

ASSUME PrefillAssumption ==
    /\ Lengths \subseteq Nat \ {0} /\ Steps \subseteq Nat \ {0}
    /\ \A n \in {SuffixLen, MinSnapshot, MaxSnapshot, MaxLen, MaxRequests} : n \in Nat

Suffix == [i \in 1 .. SuffixLen |-> "ask"]
Message(w, n) == [i \in 1 .. n |-> w]
Take(t, n) == SubSeq(t, 1, n)
Common(a, b) == Max({n \in 0 .. Min({Len(a), Len(b)}) : Take(a, n) = Take(b, n)})

VARIABLES
    paged,      \* whether --kv-cache-dir was given
    trimmable,  \* can_trim_prompt_cache: no recurrent or rotating layer
    step,       \* prefill_step_size
    store,      \* what is stored: [key, held, from]
    req,        \* tokens of the request in progress, <<>> before the first
    fetch,      \* _STATE["fetch"]: tokens of the last RAM lookup, <<>> once popped
    last,       \* paged.last[0]
    cut,        \* paged._cur[1]: where the request's next segment begins
    prompt,     \* kwargs["prompt"]: what is still to be computed
    cache,      \* kwargs["prompt_cache"]
    base,       \* tokens restored, as _prefill_history reckons them
    todo,       \* chunks not yet computed
    shown,      \* progress last reported for the request: [at, of]
    had,        \* history: tokens of the whole entry the request was restored with
    owed,       \* history: what the last request left for its next turn
    late,       \* history: whether it had been restored past its own history
    count,      \* history: requests so far
    pc          \* "idle", "fetched", "chunks", "rest"

server == <<paged, trimmable, step>>
vars == <<server, store, req, fetch, last, cut, prompt, cache, base, todo, shown, had, owed, late, count, pc>>

-----------------------------------------------------------------------------
(* The store.                                                              *)

Keys == {e.key : e \in store}
Unreported == [at |-> 0, of |-> 0]
\* The paged cache keeps the slice of it that begins at from.
Entry(key, held) == [key |-> key, held |-> held, from |-> IF paged THEN cut ELSE 0]

\* The longest stored key that t goes on from, and the segments stored from there.
Whole(t) == Max({Len(k) : k \in {k \in Keys : IsStrictPrefix(k, t)}} \cup {0})
Succeeds(e, t) == e.from = Whole(t) /\ IsPrefix(Take(t, e.from), e.key)

\* How much of t an entry gives back.  A cache that cannot trim is used whole
\* or not at all; the paged one cuts only what succeeds the longest key used
\* whole.  It leaves a token to compute, the stock one does not when the key
\* is t itself.
Gives(e, t) ==
    IF e.key = t /\ ~paged THEN Len(t)
    ELSE IF trimmable /\ (paged => Succeeds(e, t)) THEN Min({Common(e.key, t), Len(t) - 1})
    ELSE IF IsStrictPrefix(e.key, t) THEN Len(e.key)
    ELSE 0

Found(t) == Max({Gives(e, t) : e \in store} \cup {0})

\* What fetch_nearest_cache of the paged cache records.
Recorded(n) == n

\* A request comes in: a new conversation, or the next turn of the one in the
\* store, or the same again.
Fetch(t) ==
    /\ pc = "idle" /\ count < MaxRequests /\ count' = count + 1
    /\ LET n == Found(t) IN
        /\ \/ n = 0 /\ cache' = <<>>
           \/ \E e \in store : n > 0 /\ Gives(e, t) = n /\ cache' = Take(e.held, n)
        /\ prompt' = SubSeq(t, n + 1, Len(t))
        /\ IF paged THEN last' = Recorded(n) /\ cut' = Whole(t) /\ UNCHANGED fetch
                    ELSE fetch' = t /\ UNCHANGED <<last, cut>>
        /\ had' = IF paged THEN Whole(t) ELSE n
    /\ req' = t /\ pc' = "fetched"
    /\ shown' = Unreported
    /\ UNCHANGED <<server, store, base, todo, owed, late>>

-----------------------------------------------------------------------------
(* _prefill_history.                                                       *)

\* Mutant: the template's tail is computed with the rest.
HistoryEndAtTail(p) == Len(p) - 1

EndsInTail(p) == Len(p) >= SuffixLen /\ SubSeq(p, Len(p) - SuffixLen + 1, Len(p)) = Suffix

\* Its cut: before the template's tail when the prompt has it, else a token short.
HistoryEnd(p) ==
    Len(p) - (IF Suffix # <<>> /\ EndsInTail(p) THEN SuffixLen ELSE 1)

\* Mutant: a last chunk of up to half a step is spread over the others.
SweepsHalf(n, s) ==
    LET k == (n + s - 1) \div s
    IN  IF k > 1 /\ n - (k - 1) * s < s \div 2 THEN k - 1 ELSE k

\* One fewer chunk when the last would be under a quarter step.
Sweeps(n, s) ==
    LET k == (n + s - 1) \div s
    IN  IF k > 1 /\ n - (k - 1) * s < s \div 4 THEN k - 1 ELSE k

\* _chunks: evened out, the longer ones first.
Chunks(n, s) ==
    LET k == Sweeps(n, s)
    IN  [i \in 1 .. k |-> (n \div k) + (IF i <= n % k THEN 1 ELSE 0)]

\* Mutant: the prompt alone, as if nothing had been restored.
BaseOfPrompt == 0

Base ==
    IF paged THEN last
    ELSE IF fetch # <<>> THEN Len(fetch) - Len(prompt) ELSE 0

\* Nothing to do before the tail: stream_generate computes the whole prompt.
\* (The stash is popped first.)
NothingBefore ==
    /\ pc = "fetched" /\ HistoryEnd(prompt) < 1
    /\ fetch' = <<>> /\ pc' = "rest"
    /\ UNCHANGED <<server, store, req, last, cut, prompt, cache, base, todo, shown, had, owed, late, count>>

Start ==
    /\ pc = "fetched" /\ HistoryEnd(prompt) >= 1
    /\ base' = Base
    /\ todo' = Chunks(HistoryEnd(prompt), step)
    /\ shown' = [at |-> 0, of |-> Len(prompt)]
    /\ pc' = "chunks"
    /\ UNCHANGED <<server, store, req, fetch, last, cut, prompt, cache, had, owed, late, count>>

Done == HistoryEnd(prompt) - Total(todo)

\* A chunk: the model reads its tokens into the cache; the paged cache stores
\* the request up to there.
Chunk ==
    /\ pc = "chunks" /\ todo # <<>>
    /\ LET n == Head(todo)
           done == Done + n
       IN  /\ cache' = cache \o SubSeq(prompt, Done + 1, done)
           /\ store' = IF paged /\ Take(req, base + done) \notin Keys
                       THEN store \cup {Entry(Take(req, base + done), cache')} ELSE store
           /\ cut' = IF paged THEN base + done ELSE cut
           /\ shown' = [at |-> done, of |-> Len(prompt)]
    /\ todo' = Tail(todo)
    /\ UNCHANGED <<server, req, fetch, last, prompt, base, had, owed, late, count, pc>>

\* _snapshot: a copy for the RAM cache, unless its entries can be trimmed or
\* the copy would be too short or too large.
Copied(n) == ~trimmable /\ MinSnapshot <= n /\ Len(cache) <= MaxSnapshot

Snapshot(n) ==
    IF ~paged /\ fetch # <<>> /\ Copied(n) THEN store \cup {Entry(Take(fetch, n), cache)}
    ELSE store

\* Mutant: the callback reports stream_generate's own counts.
ProgressOfRest(end, p, t) == [at |-> p, of |-> t]

\* The callback given to stream_generate.
Progress(end, p, t) == [at |-> end + p, of |-> end + t]

\* The history is in: the rest goes to stream_generate, which reports first.
Stop ==
    /\ pc = "chunks" /\ todo = <<>>
    /\ LET end == HistoryEnd(prompt) IN
        /\ store' = Snapshot(base + end)
        /\ prompt' = SubSeq(prompt, end + 1, Len(prompt))
        /\ shown' = Progress(end, 0, Len(prompt) - end)
    /\ fetch' = <<>> /\ pc' = "rest"
    /\ UNCHANGED <<server, req, last, cut, cache, base, todo, had, owed, late, count>>

-----------------------------------------------------------------------------
(* The stock server around it.                                             *)

\* What a turn asked: every prompt ends with the template's tail.
History(t) == Take(t, Max({0, Len(t) - Max({SuffixLen, 1})}))

\* What the request leaves for its next turn: its history, if the store is
\* meant to have it (a RAM copy may be too short or too large to be taken).
Leaves(t) ==
    IF paged \/ trimmable \/ Len(History(t)) \in MinSnapshot .. MaxSnapshot
    THEN History(t) ELSE <<>>

\* The tail and the answer are computed, and the cache stored as it ends: the
\* stock store replaces an entry, the paged one keeps it.
Answer(a) ==
    /\ pc = "rest"
    /\ LET all == cache \o prompt \o a
       IN  store' = IF paged /\ req \o a \in Keys THEN store
                    ELSE {e \in store : e.key # req \o a} \cup {Entry(req \o a, all)}
    /\ shown' = IF shown.of = 0 THEN [at |-> Len(prompt), of |-> Len(prompt)]
                ELSE [shown EXCEPT !.at = shown.of]
    /\ cache' = <<>> /\ prompt' = <<>> /\ base' = 0
    /\ owed' = Leaves(req) /\ late' = ((paged \/ ~trimmable) /\ had > Len(History(req)))
    /\ had' = 0 /\ pc' = "idle"
    /\ UNCHANGED <<server, req, fetch, last, cut, todo, count>>

\* The client goes away, or a read raises, before the answer is in.  What was
\* stashed stays.
Abort ==
    /\ pc # "idle"
    /\ cache' = <<>> /\ prompt' = <<>> /\ base' = 0 /\ todo' = <<>>
    /\ shown' = Unreported /\ had' = 0 /\ owed' = <<>> /\ late' = FALSE /\ pc' = "idle"
    /\ UNCHANGED <<server, store, req, fetch, last, cut, count>>

\* The store's own bound; the paged one drops a segment once none succeeds it.
Forget(e) ==
    /\ pc = "idle" /\ count < MaxRequests
    /\ paged => \A d \in store : ~(d.from = Len(e.key) /\ IsPrefix(e.key, d.key))
    /\ store' = store \ {e} /\ owed' = <<>> /\ late' = FALSE
    /\ UNCHANGED <<server, req, fetch, last, cut, prompt, cache, base, todo, shown, had, count, pc>>

Opening(w, n) == Message(w, n) \o Suffix

\* The next turn: the history, then the answer, with or without the tail it was
\* prompted with, then a message.
NextTurn(tail, w, n) ==
    History(req) \o tail \o Message("reply", 1) \o Opening(w, n)

Request ==
    \E w \in Words, n \in Lengths :
        \E t \in {Opening(w, n), req}
                 \cup (IF req = <<>> THEN {} ELSE {NextTurn(tail, w, n) : tail \in {Suffix, <<>>}}) :
            t # <<>> /\ Len(t) < MaxLen /\ Fetch(t)

Init ==
    /\ paged \in BOOLEAN /\ trimmable \in BOOLEAN /\ step \in Steps
    /\ store = {} /\ req = <<>> /\ fetch = <<>> /\ last = 0 /\ cut = 0
    /\ prompt = <<>> /\ cache = <<>> /\ base = 0 /\ todo = <<>>
    /\ shown = Unreported /\ had = 0 /\ owed = <<>> /\ late = FALSE /\ count = 0 /\ pc = "idle"

Next ==
    \/ Request
    \/ NothingBefore
    \/ Start
    \/ Chunk
    \/ Stop
    \/ Answer(Message("reply", 1))
    \/ Abort
    \/ \E e \in store : Forget(e)

Spec == Init /\ [][Next]_vars

-----------------------------------------------------------------------------
(* Properties.                                                             *)

\* What is stored under a sequence of tokens is the cache of that sequence:
\* the base a chunk's key or a copy's key is counted from is this request's,
\* whatever an earlier one restored, missed or left stashed when it failed.
StoredExact == \A e \in store : e.key = e.held

\* "The next turn repeats everything before it, so it restores it whole"
\* (serve.py:31).
NextTurnWhole ==
    pc = "fetched" /\ owed # <<>> /\ IsStrictPrefix(owed, req) => Len(cache) >= Len(owed)

\* Once a turn is answered, a request that repeats its history finds all of it
\* stored, whatever follows it there, even when caches cannot be trimmed or are
\* cut only from where a stored one ends; so only what is new is computed.
\* Excepted is a turn that went on from an entry ending in its own tail (where a
\* chunk of a longer conversation had ended): cut looks for the tail in what is
\* left, and stores none of that turn where its history ends.
HistoryRestored == late \/ NextTurnWhole

\* The chunks of a prefill add up to what is to be computed, with none empty;
\* they are at most 1.25 steps long, differ by a token at most, and are no more
\* than chunks of a whole step would be: each sweeps nearly every expert.
ChunksEven ==
    pc = "chunks" =>
        /\ Done >= 0 /\ Done < HistoryEnd(prompt) + (IF todo = <<>> THEN 1 ELSE 0)
        /\ \A i \in DOMAIN todo :
            /\ todo[i] >= 1 /\ 4 * todo[i] <= 5 * step
            /\ todo[1] - todo[i] \in {0, 1}
        /\ Done = 0 => (Len(todo) - 1) * step < HistoryEnd(prompt)
        /\ Done = Len(cache) - base

\* The progress a client is shown of a request never goes back or over the
\* total, across the change from this prefill to stream_generate's own.
ProgressRises ==
    [][pc # "idle" /\ Unreported \notin {shown, shown'} =>
        shown'.at >= shown.at /\ shown'.of = shown.of /\ shown'.at <= shown'.of]_vars

=============================================================================
