----------------------------- MODULE ReadRanges -----------------------------
(***************************************************************************)
(* A batch read (streamlx/reader.py, read_experts_raw and read_ranges over *)
(* streamlx/stindex.py's expert_range): the rows of some experts in every  *)
(* tensor of a layer are sorted by place, merged into spans request by     *)
(* request, the spans dealt to the workers, read, and cut into views.      *)
(*                                                                         *)
(* A tensor is stacked: expert e's row starts e rows after its start.  The *)
(* tensors lie one after the other with gaps, in one file or several; a    *)
(* view is named by the bytes it shows, <<file, first byte, count>>.       *)
(***************************************************************************)
EXTENDS Integers, Sequences, FiniteSets, SequencesExt

CONSTANTS
    NExperts,   \* experts of the layer, their ids 0 .. NExperts - 1
    NTensors,   \* projections times parts
    Files,      \* shards, numbers
    Strides,    \* row_stride of a tensor: what it may be
    Gaps,       \* bytes between two tensors: what they may be
    MergeGap,   \* merge_gap
    MaxSpan,    \* max_span
    Workers     \* _workers

\* Assumed of the constants.
ReadRangesAssumption ==
    /\ \A n \in {NExperts, NTensors, Workers} : n \in Nat \ {0}
    /\ Files \subseteq Nat /\ Gaps \subseteq Nat /\ Strides \subseteq Nat \ {0}
    /\ MergeGap \in Nat /\ MaxSpan \in Nat

Tensors == 1 .. NTensors
ExpertIds == 0 .. NExperts - 1
Slots == 1 .. Workers

VARIABLES
    loc,      \* tensor -> [path, start, stride]
    ids,      \* experts asked for
    todo,     \* requests not yet planned, in order of place
    spans,    \* what is read: [path, off, n, members]
    deal,     \* spans not yet dealt, longest first
    buckets,  \* worker -> its spans
    unread,   \* workers whose bucket is not read yet
    views,    \* <<expert, tensor>> -> bytes, as results are harvested
    pc        \* "plan", "deal", "read", "done" or "raised"

vars == <<loc, ids, todo, spans, deal, buckets, unread, views, pc>>

\* expert_range, as a request.
ExpertRange(t, e) ==
    [key |-> <<e, t>>, path |-> loc[t].path,
     off |-> loc[t].start + e * loc[t].stride, n |-> loc[t].stride]

Before(r, s) == r.path < s.path \/ (r.path = s.path /\ r.off < s.off)
Requests == {ExpertRange(t, e) : t \in Tensors, e \in ids}

\* Rows never overlap, so no two requests have the same place.
InOrder(requests) ==
    [i \in 1 .. Cardinality(requests) |->
        CHOOSE r \in requests : Cardinality({s \in requests : Before(s, r)}) = i - 1]

-----------------------------------------------------------------------------
(* _plan.                                                                  *)
Single(r) == [path |-> r.path, off |-> r.off, n |-> r.n, members |-> <<[key |-> r.key, rel |-> 0, n |-> r.n]>>]

\* Mutant: adjacent ranges only.
JoinsAdjacent(span, r) ==
    r.path = span.path /\ r.off = span.off + span.n /\ r.off + r.n - span.off <= MaxSpan

Joins(span, r) ==
    LET gap == r.off - (span.off + span.n)
    IN  /\ r.path = span.path /\ 0 <= gap /\ gap <= MergeGap
        /\ r.off + r.n - span.off <= MaxSpan

\* Mutant: a member's place is counted from the end of those before it.
GrownPacked(span, r) ==
    [span EXCEPT !.n = r.off + r.n - span.off,
                 !.members = Append(@, [key |-> r.key, rel |-> span.n, n |-> r.n])]

Grown(span, r) ==
    [span EXCEPT !.n = r.off + r.n - span.off,
                 !.members = Append(@, [key |-> r.key, rel |-> r.off - span.off, n |-> r.n])]

PlanRequest ==
    /\ pc = "plan" /\ todo # <<>>
    /\ LET r == Head(todo)
           joins == spans # <<>> /\ Joins(Last(spans), r)
       IN  spans' = IF joins THEN Append(Front(spans), Grown(Last(spans), r))
                    ELSE Append(spans, Single(r))
    /\ todo' = Tail(todo)
    /\ UNCHANGED <<loc, ids, deal, buckets, unread, views, pc>>

\* sorted() keeps the order of equals.
LongestFirst(s) ==
    LET order == SortSeq([i \in 1 .. Len(s) |-> i],
                         LAMBDA i, j : s[i].n > s[j].n \/ (s[i].n = s[j].n /\ i < j))
    IN  [i \in 1 .. Len(s) |-> s[order[i]]]

\* With no more spans than workers each is a task of its own.
Planned ==
    /\ pc = "plan" /\ todo = <<>>
    /\ \/ /\ Len(spans) > Workers
          /\ deal' = LongestFirst(spans) /\ pc' = "deal"
          /\ UNCHANGED <<buckets, unread>>
       \/ /\ Len(spans) <= Workers
          /\ buckets' = [i \in Slots |-> IF i <= Len(spans) THEN <<spans[i]>> ELSE <<>>]
          /\ unread' = 1 .. Len(spans) /\ pc' = "read"
          /\ UNCHANGED deal
    /\ UNCHANGED <<loc, ids, todo, spans, views>>

Load(bucket) == FoldLeft(LAMBDA sum, span : sum + span.n, 0, bucket)

\* loads.index(min(loads)).
LeastLoaded ==
    CHOOSE i \in Slots : \A j \in Slots :
        Load(buckets[i]) < Load(buckets[j]) \/ (Load(buckets[i]) = Load(buckets[j]) /\ i <= j)

DealSpan ==
    /\ pc = "deal" /\ deal # <<>>
    /\ buckets' = [buckets EXCEPT ![LeastLoaded] = Append(@, Head(deal))]
    /\ deal' = Tail(deal)
    /\ UNCHANGED <<loc, ids, todo, spans, unread, views, pc>>

Dealt ==
    /\ pc = "deal" /\ deal = <<>>
    /\ unread' = {i \in Slots : buckets[i] # <<>>} /\ pc' = "read"
    /\ UNCHANGED <<loc, ids, todo, spans, deal, buckets, views>>

-----------------------------------------------------------------------------
(* Reading.  Workers run in any order, results are taken in theirs.        *)
View(span, member) == <<span.path, span.off + member.rel, member.n>>

\* The views of a bucket's results.
Harvest(bucket) ==
    LET placed == UNION {{<<m.key, View(span, m)>> : m \in Range(span.members)} : span \in Range(bucket)}
        keys == {p[1] : p \in placed}
    IN  [key \in keys |-> (CHOOSE p \in placed : p[1] = key)[2]]

ReadBucket ==
    /\ pc = "read"
    /\ \E i \in unread :
          /\ unread' = unread \ {i}
          /\ views' = LET got == Harvest(buckets[i])
                      IN  [key \in DOMAIN views \cup DOMAIN got |->
                              IF key \in DOMAIN got THEN got[key] ELSE views[key]]
    /\ UNCHANGED <<loc, ids, todo, spans, deal, buckets, pc>>

\* A pread returns fewer bytes than asked.
ShortRead ==
    /\ pc = "read" /\ unread # {}
    /\ pc' = "raised" /\ views' = <<>>
    /\ UNCHANGED <<loc, ids, todo, spans, deal, buckets, unread>>

Harvested ==
    /\ pc = "read" /\ unread = {} /\ pc' = "done"
    /\ UNCHANGED <<loc, ids, todo, spans, deal, buckets, unread, views>>

\* The layouts of a checkpoint: tensors one after the other.
Init ==
    /\ \E path \in [Tensors -> Files], stride \in [Tensors -> Strides], gap \in [Tensors -> Gaps] :
          LET start[t \in Tensors] ==
                  IF t = 1 THEN gap[1] ELSE start[t - 1] + NExperts * stride[t - 1] + gap[t]
          IN  /\ \A t \in 2 .. NTensors : path[t - 1] <= path[t]
              /\ loc = [t \in Tensors |-> [path |-> path[t], start |-> start[t], stride |-> stride[t]]]
    /\ ids \in (SUBSET ExpertIds) \ {{}}
    /\ todo = InOrder(Requests)
    /\ spans = <<>> /\ deal = <<>> /\ buckets = [i \in Slots |-> <<>>]
    /\ unread = {} /\ views = <<>> /\ pc = "plan"

Next ==
    PlanRequest \/ Planned \/ DealSpan \/ Dealt \/ ReadBucket \/ ShortRead \/ Harvested

Spec == Init /\ [][Next]_vars

-----------------------------------------------------------------------------
(* Properties.                                                             *)

\* A read that succeeds gives, for every expert and tensor asked, exactly the
\* bytes of its row: no request is lost in a merge or in a bucket, no view is
\* displaced by the gaps its span reads over.
RowsExact ==
    pc = "done" =>
        views = [key \in ids \X Tensors |->
                    LET tensor == loc[key[2]]
                    IN  <<tensor.path, tensor.start + key[1] * tensor.stride, tensor.stride>>]

\* A span of several requests is within max_span, and reads at most merge_gap
\* bytes for nothing between two of them.
SpansBounded ==
    \A i \in 1 .. Len(spans) :
        LET span == spans[i]
            useful == FoldLeft(LAMBDA sum, m : sum + m.n, 0, span.members)
        IN  /\ Len(span.members) > 1 => span.n <= MaxSpan
            /\ span.n - useful <= MergeGap * (Len(span.members) - 1)

\* Two neighbouring spans could not have been one.
Coalesced ==
    \A i \in 1 .. Len(spans) - 1 :
        LET a == spans[i]
            b == spans[i + 1]
        IN  a.path = b.path =>
                \/ b.off - (a.off + a.n) > MergeGap
                \/ b.off + b.members[1].n - a.off > MaxSpan

\* Greedy dealing keeps the buckets even: two loads differ by no more than
\* the longest span.
Balanced ==
    pc \in {"read", "done"} /\ Len(spans) > Workers =>
        \A i, j \in Slots :
            Load(buckets[i]) - Load(buckets[j]) <= LongestFirst(spans)[1].n
=============================================================================
