----------------------------- MODULE Lookahead -----------------------------
(***************************************************************************)
(* Serving a host's one-token decode calls from pipelined steps            *)
(* (streamlx/pipeline.py, LookaheadDecoder).  A step runs the called token *)
(* and its drafts; the accepted drafts' forwards stay pending, their cache *)
(* writes in place, until the host asks for exactly their tokens.          *)
(*                                                                         *)
(* A forward depends on the tokens up to and including its own, so logits  *)
(* and hiddens are modelled by that sequence, and a cache by the tokens it *)
(* holds; its offset is their number.  Sampling is greedy (acceptance by   *)
(* argmax); the host may pick any token whatever the logits say.  The step *)
(* itself is module PipelineStep's: here it is atomic.                     *)
(*                                                                         *)
(* The host follows the class's protocol: before a forward of its own it   *)
(* calls discard_pending, after a prefill prime; it rewinds a cache to an  *)
(* offset it counted itself, and moves or replaces caches without notice.  *)
(* A decode call follows a prompt.                                         *)
(***************************************************************************)
EXTENDS Integers, Sequences, SequencesExt

CONSTANTS
    Tokens,    \* the vocabulary
    Caches,    \* cache containers the host may hand over
    KMax,      \* k_max
    HasPlain,  \* whether the host gave a plain_fn
    MaxLen,    \* bound on a sequence
    MaxPrompt, \* bound on what the host prefills at once
    HostMay    \* what the host does besides calls and prefills

ASSUME LookaheadAssumption ==
    /\ KMax \in Nat \ {0} /\ MaxLen \in Nat /\ MaxPrompt \in Nat /\ HasPlain \in BOOLEAN
    /\ HostMay \subseteq {"rewind", "move", "new"}

None == -1         \* Python's None, for offsets
NoCache == "none"  \* ... for the cache the decoder holds
NoHidden == <<>>   \* ... for hiddens: the empty sequence has none
Off == <<-1>>      \* the head's cache no longer covers a prefix of the sequence
Take(s, n) == SubSeq(s, 1, n)

VARIABLES
    content,      \* cache -> tokens it holds (external)
    host,         \* the cache the host decodes on (external)
    cache,        \* self.cache
    pending,      \* accepted streams not yet asked for: [tok, logits]
    snaps,        \* the cache before each stream of the last step
    consumed,     \* streams of it the host has taken
    end_offset,   \* offset the last step left
    last_hidden,  \* hidden of the last consumed token
    primed,       \* primed_offset
    pairs,        \* [hid, tok] not yet fed to the drafter
    head,         \* tokens the draft head's own cache covers (external)
    answer        \* logits the host was last given

decoder == <<cache, pending, snaps, consumed, end_offset, last_hidden, primed, pairs>>
vars == <<content, host, cache, pending, snaps, consumed, end_offset, last_hidden,
          primed, pairs, head, answer>>

Offset(c) == Len(content[c])

-----------------------------------------------------------------------------
(* Undoing speculation.                                                    *)

\* The cache the decoder holds, restored to the snapshot after the consumed
\* streams.
RolledBack ==
    IF consumed < Len(snaps) THEN [content EXCEPT ![cache] = snaps[consumed + 1]]
    ELSE content

\* Mutant: a cache the host has moved is restored all the same.
DiscardedAlways == IF pending = <<>> THEN content ELSE RolledBack

\* discard_pending's effect on the caches: undone when the cache is where
\* the step left it, or exactly at the consumed point.
Discarded ==
    IF pending # <<>> /\ Offset(cache) \in {end_offset, end_offset - Len(pending)}
    THEN RolledBack ELSE content

-----------------------------------------------------------------------------
(* The host.                                                               *)

\* A prompt, or several tokens at once, through the host's own forward, then
\* prime(): the head is primed with the whole sequence.
Prefill ==
    /\ \E n \in 1 .. MaxPrompt : \E toks \in [1 .. n -> Tokens] :
          LET clean == Discarded
          IN  /\ Len(clean[host]) + n <= MaxLen
              /\ content' = [clean EXCEPT ![host] = @ \o toks]
              /\ last_hidden' = content'[host] /\ primed' = Len(content'[host])
              /\ head' = content'[host]
    /\ pending' = <<>> /\ snaps' = <<>>
    /\ answer' = <<>>
    /\ UNCHANGED <<host, cache, consumed, end_offset, pairs>>

\* What the host's cache stands for: what it holds but for the streams the
\* host has not asked for.
Ahead == pending # <<>> /\ host = cache /\ Offset(cache) = end_offset
View == IF Ahead THEN Take(content[host], end_offset - Len(pending)) ELSE content[host]

\* The host trims its cache to an offset in its sequence.
Rewind ==
    /\ "rewind" \in HostMay
    /\ \E n \in 0 .. Len(View) :
          /\ n < Offset(host)
          /\ content' = [content EXCEPT ![host] = Take(@, n)]
    /\ answer' = <<>>
    /\ UNCHANGED <<host, decoder, head>>

\* The host moves the request, nothing being pending, to another container.
Move ==
    /\ "move" \in HostMay /\ pending = <<>>
    /\ \E c \in Caches \ {host} :
          content' = [content EXCEPT ![c] = content[host]] /\ host' = c
    /\ answer' = <<>>
    /\ UNCHANGED <<decoder, head>>

\* The host drops the request for another, on a fresh cache.
New ==
    /\ "new" \in HostMay
    /\ \E c \in Caches \ {host} : content' = [content EXCEPT ![c] = <<>>] /\ host' = c
    /\ answer' = <<>>
    /\ UNCHANGED <<decoder, head>>

-----------------------------------------------------------------------------
(* call(tok).                                                              *)

Swapped == host # cache
Served(tok) ==
    ~Swapped /\ pending # <<>> /\ end_offset = Offset(cache) /\ Head(pending).tok = tok

\* The token is the pending stream's: its logits are ready.
CallHit ==
    /\ \E tok \in Tokens : Served(tok)
    /\ pending' = Tail(pending) /\ consumed' = consumed + 1
    /\ pairs' = Append(pairs, [hid |-> last_hidden, tok |-> Head(pending).tok])
    /\ last_hidden' = Head(pending).logits
    /\ answer' = Head(pending).logits
    /\ UNCHANGED <<content, host, cache, snaps, end_offset, primed, head>>

\* The caches once nothing is pending: the host asked for another token, or
\* it moved or swapped the cache.
Clean ==
    IF Swapped \/ (pending # <<>> /\ end_offset # Offset(cache)) THEN Discarded
    ELSE IF pending # <<>> THEN RolledBack
    ELSE content

\* A container never seen is the same sequence if it sits where priming left
\* it; otherwise what was learnt of the old one is dropped.
SameSeq == ~Swapped \/ (pending = <<>> /\ primed # None /\ Offset(host) = primed)

ToFeed(tok) ==
    IF SameSeq /\ last_hidden # NoHidden
    THEN Append(pairs, [hid |-> last_hidden, tok |-> tok]) ELSE <<>>

\* The head's cache after it is fed: each pair must continue it.
Feed(covered, fed) ==
    FoldLeft(LAMBDA c, p : IF c # Off /\ p.hid = c THEN Append(c, p.tok) ELSE Off,
             covered, fed)

\* Streams 1 .. a are valid: each draft is the previous stream's output.
Accepted(drafts, outs) ==
    LET wrong == {i \in DOMAIN drafts : drafts[i] # outs[i]}
    IN  IF wrong = {} THEN Len(drafts) + 1 ELSE CHOOSE i \in wrong : \A j \in wrong : i <= j

\* Mutant: the snapshots are taken after the streams' writes.
StepSnapsLate(base, toks, a) ==
    /\ content' = [Clean EXCEPT ![host] = base \o Take(toks, a)]
    /\ snaps' = [i \in DOMAIN toks |-> base \o Take(toks, i)]
    /\ pending' = [i \in 1 .. a - 1 |-> [tok |-> toks[i + 1], logits |-> base \o Take(toks, i + 1)]]
    /\ consumed' = 1
    /\ end_offset' = Len(base) + a

\* A step over `toks` from the sequence `base`, a of its streams kept.
Step(base, toks, a) ==
    /\ content' = [Clean EXCEPT ![host] = base \o Take(toks, a)]
    /\ snaps' = [i \in DOMAIN toks |-> base \o Take(toks, i - 1)]
    /\ pending' = [i \in 1 .. a - 1 |-> [tok |-> toks[i + 1], logits |-> base \o Take(toks, i + 1)]]
    /\ consumed' = 1
    /\ end_offset' = Len(base) + a

\* Without drafts, the host's own one-token forward.
PlainStep(base, tok) ==
    /\ content' = [Clean EXCEPT ![host] = Append(base, tok)]
    /\ snaps' = <<>> /\ pending' = <<>>
    /\ consumed' = 0
    /\ end_offset' = Len(base) + 1

CallStep ==
    /\ \E tok \in Tokens, n \in 0 .. KMax - 1 :
       \E drafts \in [1 .. n -> Tokens], outs \in [1 .. n -> Tokens] :
          LET base == Clean[host]
          IN  /\ ~Served(tok) /\ base # <<>>
              /\ n > 0 => ToFeed(tok) # <<>>
              /\ Len(base) + n + 1 <= MaxLen
              /\ IF n = 0 /\ HasPlain THEN PlainStep(base, tok)
                 ELSE Step(base, <<tok>> \o drafts, Accepted(drafts, outs))
              /\ last_hidden' = Append(base, tok)
              /\ answer' = Append(base, tok)
              /\ head' = IF KMax > 1 THEN Feed(head, ToFeed(tok)) ELSE head
    /\ cache' = host /\ pairs' = <<>>
    /\ primed' = IF Swapped THEN None ELSE primed
    /\ UNCHANGED host

Init ==
    /\ content = [c \in Caches |-> <<>>] /\ host \in Caches
    /\ cache = NoCache /\ pending = <<>> /\ snaps = <<>> /\ consumed = 0
    /\ end_offset = None /\ last_hidden = NoHidden /\ primed = None
    /\ pairs = <<>> /\ head = <<>> /\ answer = <<>>

Next == Prefill \/ Rewind \/ Move \/ New \/ CallHit \/ CallStep

Spec == Init /\ [][Next]_vars

-----------------------------------------------------------------------------
(* Properties.                                                             *)

Seqs == UNION {[1 .. n -> Tokens] : n \in 0 .. MaxLen}
Alike == Permutations(Caches) \cup Permutations(Tokens)

TypeOK ==
    /\ \A c \in Caches : content[c] \in Seqs
    /\ host \in Caches /\ cache \in Caches \cup {NoCache}
    /\ Len(pending) < KMax /\ Len(pairs) < KMax /\ Len(snaps) <= KMax
    /\ consumed \in 0 .. KMax
    /\ end_offset \in {None} \cup 0 .. MaxLen /\ primed \in {None} \cup 0 .. MaxLen

\* While the host has not touched the cache, what it holds beyond the host's
\* sequence is the pending streams' tokens, each with the logits of its own
\* prefix, and the snapshot a rollback would restore is that sequence.
PendingInPlace ==
    Ahead => /\ content[cache] = View \o [i \in DOMAIN pending |-> pending[i].tok]
             /\ \A i \in DOMAIN pending :
                   pending[i].logits = Take(content[cache], Len(View) + i)
             /\ snaps[consumed + 1] = View

\* The host sees plain decoding: the answer to each call is the logits of
\* that token's forward on the host's own sequence, whatever it samples and
\* whenever it rewinds, moves or replaces its cache.
Plain == INSTANCE PlainDecode WITH seq <- View
ImplementsPlain == Plain!Spec

\* The pairs fed to the draft head continue what its own cache covers, so
\* that it is exact (the class docstring).
DrafterExact == head # Off

\* Every variable keeps its type, and the pending streams lie in the host's
\* cache where their snapshots say (pipeline.py, LookaheadDecoder).
PendingKept == TypeOK /\ PendingInPlace

=============================================================================
