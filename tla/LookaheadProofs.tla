--------------------------- MODULE LookaheadProofs ---------------------------
(***************************************************************************)
(* The lookahead decoder implements plain decoding, whatever its drafts    *)
(* and its host, and its pending streams stay where its snapshots say.     *)
(***************************************************************************)
EXTENDS Lookahead, SeqFoldsProofs

\* The sequences a cache, a hidden or logits may stand for.
Texts == {s \in Seq(Tokens) : Len(s) <= MaxLen}

LType ==
    /\ content \in [Caches -> Texts]
    /\ host \in Caches /\ cache \in Caches \cup {NoCache}
    /\ pending \in Seq([tok : Tokens, logits : Texts])
    /\ snaps \in Seq(Texts) /\ Len(snaps) <= KMax
    /\ consumed \in 0 .. KMax
    /\ end_offset \in {None} \cup 0 .. MaxLen /\ primed \in {None} \cup 0 .. MaxLen
    /\ last_hidden \in Texts
    /\ pairs \in Seq([hid : Texts, tok : Tokens])
    /\ Len(pending) + Len(pairs) < KMax

\* How much of the step the host has asked for.
Asked == end_offset - Len(pending)

\* What the step's cache holds, or held before the host went back in it: all
\* of W, its first Asked tokens asked for, the others pending.
Stands(W) ==
    /\ Len(W) = end_offset /\ Asked \in Nat
    /\ \A i \in 1 .. Len(pending) :
          /\ pending[i] = [tok |-> W[Asked + i], logits |-> Take(W, Asked + i)]
          /\ snaps[consumed + i] = Take(W, Asked + i - 1)
    /\ content[cache] = W \/ \E m \in 0 .. Asked : content[cache] = Take(W, m)

Speculated ==
    pending # <<>> =>
        /\ cache \in Caches /\ consumed + Len(pending) <= Len(snaps)
        /\ \E W \in Texts : Stands(W)

LInv == LType /\ Speculated

-----------------------------------------------------------------------------
(* What the caches hold once nothing is pending.                           *)

LEMMA TextPrefix ==
    ASSUME NEW s \in Texts, NEW n \in 0 .. Len(s)
    PROVE  Take(s, n) \in Texts /\ Len(Take(s, n)) = n /\ s \in Seq(Tokens)
BY PrefixProperties, LookaheadAssumption DEF Texts, Take

\* Where the step's cache may be, and what the snapshot holds.
LEMMA Standing ==
    ASSUME LType, Speculated, pending # <<>>
    PROVE  \E W \in Texts :
              /\ Stands(W) /\ Len(W) = end_offset /\ Len(W) \in Nat
              /\ Asked \in Nat /\ Asked < Len(W) /\ Len(pending) \in Nat \ {0}
              /\ end_offset = Asked + Len(pending)
              /\ cache \in Caches /\ consumed < Len(snaps) /\ consumed + 1 \in 1 .. Len(snaps)
              /\ snaps[consumed + 1] = Take(W, Asked) /\ Take(W, Asked) \in Texts
              /\ Offset(cache) = end_offset => content[cache] = W
              /\ Offset(cache) # end_offset =>
                    \E m \in 0 .. Asked : content[cache] = Take(W, m) /\ Offset(cache) = m
<1>1. Len(pending) \in Nat \ {0} /\ Len(snaps) \in Nat /\ consumed \in Nat
    BY EmptySeq, LenProperties, LookaheadAssumption DEF LType
<1>2. PICK W \in Texts : Stands(W)
    BY DEF Speculated
<1>3. Len(W) = end_offset /\ Asked \in Nat /\ Asked < Len(W) /\ Len(W) \in Nat
    BY <1>1, <1>2, LenProperties DEF Stands, Asked, Texts
<1>4. end_offset = Asked + Len(pending)
    BY <1>1, <1>3 DEF Asked
<1>5. cache \in Caches /\ consumed < Len(snaps) /\ consumed + 1 \in 1 .. Len(snaps)
    BY <1>1 DEF Speculated
<1>6. snaps[consumed + 1] = Take(W, Asked)
    <2>1. snaps[consumed + 1] = Take(W, Asked + 1 - 1)
        <3>1. 1 \in 1 .. Len(pending)
            BY <1>1
        <3> QED BY <1>2, <3>1 DEF Stands
    <2>2. Asked + 1 - 1 = Asked
        BY <1>3
    <2> QED BY <2>1, <2>2
<1>7. \A m \in 0 .. Asked : Len(Take(W, m)) = m /\ Take(W, m) \in Texts
    BY <1>3, TextPrefix
<1>8. Asked \in 0 .. Asked
    BY <1>3
<1>9. /\ Offset(cache) = end_offset => content[cache] = W
      /\ Offset(cache) # end_offset =>
            \E m \in 0 .. Asked : content[cache] = Take(W, m) /\ Offset(cache) = m
    BY <1>2, <1>3, <1>7 DEF Stands, Offset
<1> QED BY <1>1, <1>2, <1>3, <1>4, <1>5, <1>6, <1>7, <1>8, <1>9

\* However the host left its cache, what the decoder makes of it before a
\* forward is the host's own sequence.
LEMMA CleanIsView ==
    ASSUME LType, Speculated
    PROVE  /\ Discarded \in [Caches -> Texts] /\ Discarded[host] = View
           /\ Clean \in [Caches -> Texts] /\ Clean[host] = View
           /\ View \in Texts
<1>1. content \in [Caches -> Texts] /\ host \in Caches
    BY DEF LType
<1>2. CASE pending = <<>>
    <2>1. Discarded = content /\ Clean = content /\ View = content[host]
        BY <1>2 DEF Discarded, Clean, View, Ahead
    <2> QED BY <1>1, <2>1
<1>3. CASE pending # <<>>
    <2>1. PICK W \in Texts :
              /\ Asked \in Nat /\ Asked < Len(W) /\ Len(W) = end_offset /\ Len(W) \in Nat
              /\ cache \in Caches /\ consumed < Len(snaps)
              /\ snaps[consumed + 1] = Take(W, Asked) /\ Take(W, Asked) \in Texts
              /\ Offset(cache) = end_offset => content[cache] = W
              /\ Offset(cache) # end_offset =>
                    \E m \in 0 .. Asked : content[cache] = Take(W, m) /\ Offset(cache) = m
        BY <1>3, Standing
    <2>2. RolledBack = [content EXCEPT ![cache] = Take(W, Asked)]
        BY <2>1 DEF RolledBack
    <2>3. RolledBack \in [Caches -> Texts]
        BY <1>1, <2>1, <2>2
    <2>4. CASE Offset(cache) = end_offset
        <3>1. Discarded = RolledBack /\ Clean = RolledBack
            BY <1>3, <2>4 DEF Discarded, Clean
        <3>2. View = IF host = cache THEN Take(W, Asked) ELSE content[host]
            BY <1>3, <2>1, <2>4 DEF View, Ahead, Asked
        <3> QED BY <1>1, <2>1, <2>2, <2>3, <3>1, <3>2
    <2>5. CASE Offset(cache) # end_offset
        <3>1. View = content[host]
            BY <1>3, <2>5 DEF View, Ahead
        <3>2. Clean = Discarded
            BY <1>3, <2>5 DEF Clean
        <3>3. CASE Offset(cache) = Asked
            <4>1. Discarded = RolledBack /\ content[cache] = Take(W, Asked)
                BY <1>3, <2>1, <2>5, <3>3 DEF Discarded, Asked
            <4> QED BY <1>1, <2>1, <2>2, <2>3, <3>1, <3>2, <4>1
        <3>4. CASE Offset(cache) # Asked
            <4>1. Discarded = content
                BY <1>3, <2>5, <3>4 DEF Discarded, Asked
            <4> QED BY <1>1, <3>1, <3>2, <4>1
        <3> QED BY <3>3, <3>4
    <2> QED BY <2>4, <2>5
<1> QED BY <1>2, <1>3

\* Nothing pending: the host's cache is its sequence.
LEMMA NothingAhead == pending = <<>> => View = content[host] /\ Speculated
BY DEF View, Ahead, Speculated

-----------------------------------------------------------------------------
(* The steps.                                                              *)

LEMMA LInitInv == Init => LInv /\ Plain!Init
<1> SUFFICES ASSUME Init PROVE LInv /\ Plain!Init
    OBVIOUS
<1>1. /\ <<>> \in Texts /\ Len(<<>>) = 0 /\ <<>> \in Seq([tok : Tokens, logits : Texts])
      /\ <<>> \in Seq(Texts) /\ <<>> \in Seq([hid : Texts, tok : Tokens])
    BY EmptySeq, LookaheadAssumption DEF Texts
<1>2. LType
    BY <1>1, LookaheadAssumption DEF Init, LType, NoHidden
<1>3. Speculated /\ Plain!Init
    BY NothingAhead DEF Init, Plain!Init, Speculated
<1> QED BY <1>2, <1>3 DEF LInv

\* A forward of the host's own lengthens its sequence.
LEMMA PrefillStep == LInv /\ Prefill => LInv' /\ Plain!Prefill
<1> SUFFICES ASSUME LInv, Prefill PROVE LInv' /\ Plain!Prefill
    OBVIOUS
<1>1. LType /\ Speculated
    BY DEF LInv
<1> PICK n \in 1 .. MaxPrompt : \E toks \in [1 .. n -> Tokens] :
         /\ Len(Discarded[host]) + n <= MaxLen
         /\ content' = [Discarded EXCEPT ![host] = @ \o toks]
         /\ last_hidden' = content'[host] /\ primed' = Len(content'[host])
    BY DEF Prefill
<1>2. PICK toks \in [1 .. n -> Tokens] :
         /\ Len(Discarded[host]) + n <= MaxLen
         /\ content' = [Discarded EXCEPT ![host] = @ \o toks]
         /\ last_hidden' = content'[host] /\ primed' = Len(content'[host])
    OBVIOUS
<1>3. /\ pending' = <<>> /\ snaps' = <<>> /\ answer' = <<>>
      /\ host' = host /\ cache' = cache /\ consumed' = consumed /\ end_offset' = end_offset
      /\ pairs' = pairs
    BY DEF Prefill
<1>4. Discarded \in [Caches -> Texts] /\ Discarded[host] = View /\ View \in Texts
    BY <1>1, CleanIsView
<1>5. toks \in Seq(Tokens) /\ Len(toks) = n /\ n \in Nat \ {0} /\ host \in Caches /\ MaxLen \in Nat
    <2>1. n \in Nat \ {0}
        BY LookaheadAssumption
    <2>2. toks \in Seq(Tokens)
        BY <2>1, SeqDef
    <2>3. Len(toks) = n
        BY <2>1, <2>2, LenProperties
    <2> QED BY <1>1, <2>1, <2>2, <2>3, LookaheadAssumption DEF LType
<1> DEFINE s == View \o toks
<1>6. /\ s \in Texts /\ Len(s) = Len(View) + n /\ Len(View) \in Nat
      /\ SubSeq(s, 1, Len(View)) = View
    <2>1. View \in Seq(Tokens)
        BY <1>4 DEF Texts
    <2> DEFINE v == View
               t == toks
    <2> HIDE DEF v
    <2>2. /\ v \o toks \in Seq(Tokens) /\ Len(v \o toks) = Len(v) + n /\ Len(v) \in Nat
          /\ SubSeq(v \o toks, 1, Len(v)) = v
        <3>1. v \in Seq(Tokens)
            BY <2>1 DEF v
        <3>2. v \o toks \in Seq(Tokens) /\ Len(v \o toks) = Len(v) + Len(toks)
            <4>1. t \in Seq(Tokens)
                BY <1>5
            <4> HIDE DEF t
            <4>2. v \o t \in Seq(Tokens) /\ Len(v \o t) = Len(v) + Len(t)
                BY <3>1, <4>1, ConcatProperties
            <4> QED BY <4>2 DEF t
        <3>4. Len(v) \in Nat
            BY <3>1, LenProperties
        <3>3. SubSeq(v \o toks, 1, Len(v)) = v
            BY <1>5, <3>1, PrefixOfConcat
        <3> QED BY <1>5, <3>2, <3>3, <3>4
    <2> QED BY <1>2, <1>4, <2>2 DEF v, Texts
<1>7. content'[host] = s /\ content' \in [Caches -> Texts]
    BY <1>2, <1>4, <1>5, <1>6
<1>8. LType'
    <2>1. <<>> \in Seq([tok : Tokens, logits : Texts]) /\ <<>> \in Seq(Texts) /\ Len(<<>>) = 0
        BY EmptySeq
    <2>2. Len(pending) \in Nat /\ Len(pairs) \in Nat /\ KMax \in Nat
        BY <1>1, LenProperties, LookaheadAssumption DEF LType
    <2>3. primed' \in 0 .. MaxLen
        BY <1>2, <1>5, <1>6, <1>7 DEF Texts
    <2> QED BY <1>1, <1>2, <1>3, <1>6, <1>7, <2>1, <2>2, <2>3, LookaheadAssumption DEF LType
<1>9. Speculated' /\ View' = s
    BY <1>3, <1>7 DEF Speculated, View, Ahead
<1>10. Plain!Prefill
    BY <1>3, <1>5, <1>6, <1>9 DEF Plain!Prefill
<1> QED BY <1>8, <1>9, <1>10 DEF LInv

\* Going back in it, the host never stops among the pending streams.
LEMMA RewindStep == LInv /\ Rewind => LInv' /\ Plain!Rewind
<1> SUFFICES ASSUME LInv, Rewind PROVE LInv' /\ Plain!Rewind
    OBVIOUS
<1>1. LType /\ Speculated /\ View \in Texts
    BY CleanIsView DEF LInv
<1>2. PICK n \in 0 .. Len(View) :
         n < Offset(host) /\ content' = [content EXCEPT ![host] = Take(@, n)]
    BY DEF Rewind
<1>3. /\ host' = host /\ cache' = cache /\ pending' = pending /\ snaps' = snaps
      /\ consumed' = consumed /\ end_offset' = end_offset /\ last_hidden' = last_hidden
      /\ primed' = primed /\ pairs' = pairs /\ answer' = <<>>
    BY DEF Rewind, decoder
<1>4. /\ host \in Caches /\ content \in [Caches -> Texts] /\ content[host] \in Texts
      /\ n \in 0 .. Len(content[host]) /\ Len(View) \in Nat
    BY <1>1, <1>2, LenProperties DEF LType, Texts, Offset
<1>5. /\ content'[host] = Take(content[host], n) /\ Take(content[host], n) \in Texts
      /\ Len(Take(content[host], n)) = n /\ content' \in [Caches -> Texts]
      /\ \A c \in Caches : c # host => content'[c] = content[c]
    BY <1>2, <1>4, TextPrefix
<1>6. LType'
    BY <1>1, <1>3, <1>5 DEF LType
<1>7. CASE pending = <<>>
    <2>1. View = content[host] /\ View' = content'[host] /\ Speculated'
        BY <1>3, <1>7 DEF View, Ahead, Speculated
    <2>2. Plain!Rewind
        BY <1>2, <1>3, <1>5, <2>1 DEF Plain!Rewind, Take
    <2> QED BY <1>6, <2>1, <2>2 DEF LInv
<1>8. CASE pending # <<>>
    <2>1. PICK W \in Texts :
              /\ Stands(W) /\ Len(W) = end_offset /\ Len(W) \in Nat
              /\ Asked \in Nat /\ Asked < Len(W)
              /\ end_offset = Asked + Len(pending)
              /\ Offset(cache) = end_offset => content[cache] = W
              /\ Offset(cache) # end_offset =>
                    \E m \in 0 .. Asked : content[cache] = Take(W, m) /\ Offset(cache) = m
        BY <1>1, <1>8, Standing
    <2>2. W \in Seq(Tokens)
        BY DEF Texts
    <2>3. CASE host # cache
        <3>1. cache \in Caches
            BY <1>1, <1>8 DEF Speculated
        <3>2. View = content[host] /\ View' = content'[host] /\ content'[cache] = content[cache]
            BY <1>3, <1>5, <2>3, <3>1 DEF View, Ahead
        <3>3. Stands(W)'
            BY <1>3, <2>1, <3>2 DEF Stands, Asked
        <3>4. Speculated'
            BY <1>1, <1>3, <1>8, <3>3 DEF Speculated
        <3>5. Plain!Rewind
            BY <1>2, <1>3, <1>5, <3>2 DEF Plain!Rewind, Take
        <3> QED BY <1>6, <3>4, <3>5 DEF LInv
    <2>4. CASE host = cache
        <3>1. PICK m \in 0 .. Len(W) : /\ content[host] = Take(W, m) /\ Offset(cache) = m
                                       /\ m = end_offset \/ m <= Asked
            <4>1. Take(W, Len(W)) = W
                BY <2>2, PrefixProperties DEF Take
            <4> QED BY <2>1, <2>4, <4>1
        <3>2. View = Take(W, IF m = end_offset THEN Asked ELSE m)
            <4>1. m = end_offset => content[host] = W
                BY <2>1, <2>4, <3>1
            <4> QED BY <1>8, <2>1, <2>4, <3>1, <4>1 DEF View, Ahead, Asked
        <3>3. n <= Asked /\ n <= m /\ n \in Nat /\ Len(View) = IF m = end_offset THEN Asked ELSE m
            <4>1. Len(View) = IF m = end_offset THEN Asked ELSE m
                BY <2>1, <2>2, <3>1, <3>2, PrefixProperties DEF Take
            <4> QED BY <1>2, <2>1, <3>1, <4>1
        <3>4. content'[cache] = Take(W, n) /\ Take(View, n) = Take(W, n)
            <4>1. Take(Take(W, m), n) = Take(W, n)
                BY <2>1, <2>2, <3>1, <3>3, PrefixProperties DEF Take
            <4>2. Take(Take(W, Asked), n) = Take(W, n)
                BY <2>1, <2>2, <3>3, PrefixProperties DEF Take
            <4> QED BY <1>5, <2>4, <3>1, <3>2, <4>1, <4>2
        <3>5. View' = Take(View, n)
            <4>1. Offset(cache)' = n
                BY <1>3, <1>5, <2>4 DEF Offset
            <4>2. n # end_offset
                BY <2>1, <3>3
            <4> QED BY <1>3, <2>4, <3>4, <4>1, <4>2 DEF View, Ahead
        <3>6. Stands(W)'
            <4>1. n \in 0 .. Asked
                BY <2>1, <3>3
            <4> QED BY <1>3, <2>1, <3>4, <4>1 DEF Stands, Asked
        <3>7. Speculated'
            BY <1>1, <1>3, <1>8, <3>6 DEF Speculated
        <3>8. Plain!Rewind
            BY <1>2, <1>3, <3>5 DEF Plain!Rewind, Take
        <3> QED BY <1>6, <3>7, <3>8 DEF LInv
    <2> QED BY <2>3, <2>4
<1> QED BY <1>7, <1>8

\* Moved to another container, the sequence stays.
LEMMA MoveStep == LInv /\ Move => LInv' /\ Plain!Rewind
<1> SUFFICES ASSUME LInv, Move PROVE LInv' /\ Plain!Rewind
    OBVIOUS
<1>1. PICK c \in Caches \ {host} :
         content' = [content EXCEPT ![c] = content[host]] /\ host' = c
    BY DEF Move
<1>2. /\ pending = <<>> /\ cache' = cache /\ pending' = pending /\ snaps' = snaps
      /\ consumed' = consumed /\ end_offset' = end_offset /\ last_hidden' = last_hidden
      /\ primed' = primed /\ pairs' = pairs /\ answer' = <<>>
    BY DEF Move, decoder
<1>3. LType' /\ Speculated'
    BY <1>1, <1>2 DEF LInv, LType, Speculated
<1>4. View' = View /\ View \in Seq(Tokens)
    BY <1>1, <1>2, CleanIsView DEF View, Ahead, LInv, LType, Texts
<1>5. SubSeq(View, 1, Len(View)) = View /\ Len(View) \in 0 .. Len(View)
    BY <1>4, SubSeqFull, LenProperties
<1> QED BY <1>2, <1>3, <1>4, <1>5 DEF LInv, Plain!Rewind

\* Another request starts from nothing, even on the container whose streams
\* are pending.
LEMMA NewStep == LInv /\ New => LInv' /\ Plain!Rewind
<1> SUFFICES ASSUME LInv, New PROVE LInv' /\ Plain!Rewind
    OBVIOUS
<1>1. PICK c \in Caches \ {host} : content' = [content EXCEPT ![c] = <<>>] /\ host' = c
    BY DEF New
<1>2. /\ cache' = cache /\ pending' = pending /\ snaps' = snaps
      /\ consumed' = consumed /\ end_offset' = end_offset /\ last_hidden' = last_hidden
      /\ primed' = primed /\ pairs' = pairs /\ answer' = <<>>
    BY DEF New, decoder
<1>3. LType /\ Speculated /\ View \in Seq(Tokens) /\ Len(View) \in Nat
    BY CleanIsView, LenProperties DEF LInv, Texts
<1>4. <<>> \in Texts /\ Len(<<>>) = 0 /\ \A s : SubSeq(s, 1, 0) = <<>>
    BY EmptySeq, SubSeqEmpty, LookaheadAssumption DEF Texts
<1>5. /\ content' \in [Caches -> Texts] /\ content'[c] = <<>>
      /\ \A d \in Caches : d # c => content'[d] = content[d]
    BY <1>1, <1>3, <1>4 DEF LType
<1>6. LType'
    BY <1>1, <1>2, <1>3, <1>5 DEF LType
<1>7. Speculated' /\ View' = <<>>
    <2>1. CASE pending = <<>>
        BY <1>1, <1>2, <1>5, <2>1 DEF Speculated, View, Ahead
    <2>2. CASE pending # <<>>
        <3>1. PICK W \in Texts : /\ Stands(W) /\ Asked \in Nat /\ Asked < end_offset
                                 /\ Len(W) = end_offset /\ cache \in Caches
            BY <1>3, <2>2, Standing
        <3>2. content'[cache] = W \/ \E m \in 0 .. Asked : content'[cache] = Take(W, m)
            <4>1. CASE cache = c
                <5>1. Take(W, 0) = <<>> /\ 0 \in 0 .. Asked
                    BY <1>4, <3>1 DEF Take
                <5> QED BY <1>5, <4>1, <5>1
            <4>2. CASE cache # c
                BY <1>5, <3>1, <4>2 DEF Stands
            <4> QED BY <4>1, <4>2
        <3>3. Stands(W)'
            BY <1>2, <3>1, <3>2 DEF Stands, Asked
        <3>4. Speculated'
            BY <1>2, <1>3, <2>2, <3>3 DEF Speculated
        <3>5. end_offset # 0
            BY <3>1
        <3>6. View' = <<>>
            BY <1>1, <1>2, <1>4, <1>5, <3>5 DEF View, Ahead, Offset
        <3> QED BY <3>4, <3>6
    <2> QED BY <2>1, <2>2
<1>8. Plain!Rewind
    <2>1. 0 \in 0 .. Len(View)
        BY <1>3
    <2> QED BY <1>2, <1>4, <1>7, <2>1 DEF Plain!Rewind
<1> QED BY <1>6, <1>7, <1>8 DEF LInv

\* A hit answers with the logits of the next pending stream.
LEMMA HitStep == LInv /\ CallHit => LInv' /\ Plain!Decode
<1> SUFFICES ASSUME LInv, CallHit PROVE LInv' /\ Plain!Decode
    OBVIOUS
<1>1. PICK tok \in Tokens : Served(tok)
    BY DEF CallHit
<1>2. /\ pending' = Tail(pending) /\ consumed' = consumed + 1
      /\ pairs' = Append(pairs, [hid |-> last_hidden, tok |-> Head(pending).tok])
      /\ last_hidden' = Head(pending).logits /\ answer' = Head(pending).logits
      /\ content' = content /\ host' = host /\ cache' = cache /\ snaps' = snaps
      /\ end_offset' = end_offset /\ primed' = primed
    BY DEF CallHit
<1>3. /\ LType /\ Speculated /\ pending # <<>> /\ host = cache /\ end_offset = Offset(cache)
      /\ Head(pending).tok = tok
    BY <1>1 DEF LInv, Served, Swapped
<1>4. PICK W \in Texts :
          /\ Stands(W) /\ Len(W) = end_offset /\ Len(W) \in Nat
          /\ Asked \in Nat /\ Asked < Len(W) /\ Len(pending) \in Nat \ {0}
          /\ end_offset = Asked + Len(pending)
          /\ cache \in Caches /\ consumed + 1 \in 1 .. Len(snaps)
          /\ Offset(cache) = end_offset => content[cache] = W
    BY <1>3, Standing
<1>5. content[cache] = W /\ W \in Seq(Tokens)
    BY <1>3, <1>4 DEF Texts
<1>6. /\ Tail(pending) \in Seq([tok : Tokens, logits : Texts])
      /\ Len(Tail(pending)) = Len(pending) - 1 /\ Head(pending) = pending[1]
      /\ \A i \in 1 .. Len(pending) - 1 : Tail(pending)[i] = pending[i + 1]
    <2>1. pending \in Seq([tok : Tokens, logits : Texts])
        BY <1>3 DEF LType
    <2> QED BY <1>3, <2>1, HeadTailProperties
<1>7. Asked' = Asked + 1
    BY <1>2, <1>4, <1>6 DEF Asked
<1>8. /\ Head(pending) = [tok |-> W[Asked + 1], logits |-> Take(W, Asked + 1)]
      /\ Take(W, Asked + 1) \in Texts /\ W[Asked + 1] \in Tokens
    <2>1. 1 \in 1 .. Len(pending) /\ Asked + 1 \in 0 .. Len(W) /\ Asked + 1 \in 1 .. Len(W)
        BY <1>4
    <2> QED BY <1>4, <1>5, <1>6, <2>1, TextPrefix, ElementOfSeq DEF Stands
<1>9. LType'
    <2>1. /\ Append(pairs, [hid |-> last_hidden, tok |-> tok]) \in Seq([hid : Texts, tok : Tokens])
          /\ Len(Append(pairs, [hid |-> last_hidden, tok |-> tok])) = Len(pairs) + 1
          /\ Len(pairs) \in Nat
        <3> DEFINE p == [hid |-> last_hidden, tok |-> tok]
                   P == [hid : Texts, tok : Tokens]
        <3>1. p \in P /\ pairs \in Seq(P)
            BY <1>3 DEF LType
        <3> HIDE DEF p, P
        <3>2. Append(pairs, p) \in Seq(P) /\ Len(Append(pairs, p)) = Len(pairs) + 1 /\ Len(pairs) \in Nat
            BY <3>1, AppendProperties, LenProperties
        <3> QED BY <3>2 DEF p, P
    <2>2. consumed + 1 \in 0 .. KMax
        BY <1>3, <1>4, LenProperties, LookaheadAssumption DEF LType
    <2>3. Len(Tail(pending)) + Len(Append(pairs, [hid |-> last_hidden, tok |-> tok])) < KMax
        BY <1>3, <1>4, <1>6, <2>1, LookaheadAssumption DEF LType
    <2> QED BY <1>2, <1>3, <1>6, <1>8, <2>1, <2>2, <2>3 DEF LType
<1>10. Speculated'
    <2> SUFFICES ASSUME pending' # <<>>
                 PROVE  /\ cache' \in Caches /\ consumed' + Len(pending') <= Len(snaps')
                        /\ \E X \in Texts : Stands(X)'
        BY DEF Speculated
    <2>1. consumed' + Len(pending') <= Len(snaps')
        BY <1>2, <1>3, <1>4, <1>6, LenProperties, LookaheadAssumption DEF Speculated, LType
    <2>2. ASSUME NEW i \in 1 .. Len(pending')
          PROVE  /\ pending'[i] = [tok |-> W[Asked' + i], logits |-> Take(W, Asked' + i)]
                 /\ snaps'[consumed' + i] = Take(W, Asked' + i - 1)
        <3>1. i + 1 \in 1 .. Len(pending) /\ i \in 1 .. Len(pending) - 1 /\ i \in Nat
            BY <1>2, <1>4, <1>6
        <3>2. /\ pending[i + 1] = [tok |-> W[Asked + (i + 1)], logits |-> Take(W, Asked + (i + 1))]
              /\ snaps[consumed + (i + 1)] = Take(W, Asked + (i + 1) - 1)
            BY <1>4, <3>1 DEF Stands
        <3>3. /\ Asked + (i + 1) = Asked' + i /\ consumed + (i + 1) = consumed' + i
              /\ Asked + (i + 1) - 1 = Asked' + i - 1
            BY <1>2, <1>3, <1>4, <1>7, <3>1, LookaheadAssumption DEF LType
        <3>4. pending'[i] = pending[i + 1]
            BY <1>2, <1>6, <3>1
        <3>5. snaps'[consumed' + i] = snaps[consumed + (i + 1)]
            BY <1>2, <3>3
        <3> QED BY <3>2, <3>3, <3>4, <3>5
    <2>3. Stands(W)'
        BY <1>2, <1>4, <1>5, <1>7, <2>2 DEF Stands
    <2> QED BY <1>2, <1>4, <2>1, <2>3
<1>11. View = Take(W, Asked)
    BY <1>3, <1>4, <1>5 DEF View, Ahead, Asked
<1>12. View' = Take(W, Asked + 1)
    <2>1. CASE pending' # <<>>
        <3>1. Ahead'
            BY <1>2, <1>3, <2>1 DEF Ahead, Offset
        <3> QED BY <1>2, <1>3, <1>5, <1>7, <3>1 DEF View, Asked
    <2>2. CASE pending' = <<>>
        <3>1. Len(pending) - 1 = 0
            BY <1>2, <1>6, <2>2, EmptySeq
        <3>2. Asked + 1 = Len(W)
            BY <1>4, <3>1
        <3>3. View' = W
            BY <1>2, <1>3, <1>5, <2>2 DEF View, Ahead
        <3>4. Take(W, Len(W)) = W
            BY <1>5, SubSeqFull DEF Take
        <3> QED BY <3>2, <3>3, <3>4
    <2> QED BY <2>1, <2>2
<1>13. View' = Append(View, W[Asked + 1]) /\ answer' = View'
    <2>1. Append(Take(W, Asked), W[Asked + 1]) = Take(W, Asked + 1)
        BY <1>4, <1>5, PrefixProperties DEF Take
    <2> QED BY <1>2, <1>8, <1>11, <1>12, <2>1
<1>14. Plain!Decode
    BY <1>8, <1>13 DEF Plain!Decode
<1> QED BY <1>9, <1>10, <1>14 DEF LInv

\* A step keeps its own token and some of its drafts.
LEMMA AcceptedRange ==
    ASSUME NEW n \in Nat, NEW drafts \in [1 .. n -> Tokens], NEW outs
    PROVE  Accepted(drafts, outs) \in 1 .. n + 1
<1> DEFINE wrong == {i \in DOMAIN drafts : drafts[i] # outs[i]}
<1>1. Len(drafts) = n /\ wrong \in SUBSET Nat /\ wrong \subseteq 1 .. n
    <2>1. drafts \in Seq(Tokens)
        BY SeqDef
    <2> QED BY <2>1, LenProperties
<1>2. CASE wrong = {}
    BY <1>1, <1>2 DEF Accepted
<1>3. CASE wrong # {}
    <2> HIDE DEF wrong
    <2>1. \E i \in wrong : \A j \in wrong : i <= j
        BY <1>1, <1>3, LeastNatural
    <2>2. (CHOOSE i \in wrong : \A j \in wrong : i <= j) \in 1 .. n
        BY <1>1, <2>1
    <2> QED BY <1>3, <2>2 DEF Accepted, wrong
<1> QED BY <1>2, <1>3

\* What a step leaves in the host's cache: its accepted drafts are pending
\* behind the token it was called for.
LEMMA StepStands ==
    ASSUME LType, NEW base \in Texts, NEW n \in Nat, NEW toks \in Seq(Tokens),
           Len(toks) = n + 1, n < KMax, NEW a \in 1 .. n + 1, Len(base) + n + 1 <= MaxLen,
           Clean \in [Caches -> Texts], Step(base, toks, a), cache' = host, host' = host
    PROVE  /\ content' \in [Caches -> Texts]
           /\ pending' \in Seq([tok : Tokens, logits : Texts]) /\ Len(pending') < KMax
           /\ snaps' \in Seq(Texts) /\ Len(snaps') <= KMax
           /\ consumed' \in 0 .. KMax /\ end_offset' \in 0 .. MaxLen
           /\ Speculated' /\ View' = Append(base, toks[1])
<1> DEFINE b == Len(base)
           t == Take(toks, a)
           W == base \o t
<1>1. /\ content' = [Clean EXCEPT ![host] = W]
      /\ snaps' = [i \in DOMAIN toks |-> base \o Take(toks, i - 1)]
      /\ pending' = [i \in 1 .. a - 1 |-> [tok |-> toks[i + 1], logits |-> base \o Take(toks, i + 1)]]
      /\ consumed' = 1 /\ end_offset' = b + a
    BY DEF Step
<1>2. base \in Seq(Tokens) /\ b \in Nat /\ KMax \in Nat \ {0} /\ MaxLen \in Nat /\ host \in Caches
    BY LenProperties, LookaheadAssumption DEF Texts, LType
<1>3. DOMAIN toks = 1 .. n + 1 /\ \A i \in 1 .. n + 1 : toks[i] \in Tokens
    BY LenProperties, ElementOfSeq
<1>4. \A j \in 0 .. n + 1 :
         /\ Take(toks, j) \in Seq(Tokens) /\ Len(Take(toks, j)) = j
         /\ \A i \in 1 .. j : Take(toks, j)[i] = toks[i]
         /\ \A m \in 0 .. j : Take(Take(toks, j), m) = Take(toks, m)
    BY PrefixProperties DEF Take
<1>5. \A j \in 0 .. n + 1 : base \o Take(toks, j) \in Texts /\ Len(base \o Take(toks, j)) = b + j
    <2> TAKE j \in 0 .. n + 1
    <2> DEFINE u == Take(toks, j)
    <2>1. u \in Seq(Tokens) /\ Len(u) = j
        BY <1>4
    <2> HIDE DEF u
    <2>2. base \o u \in Seq(Tokens) /\ Len(base \o u) = b + Len(u)
        BY <1>2, <2>1, ConcatProperties
    <2>3. b + j <= MaxLen
        BY <1>2
    <2> QED BY <2>1, <2>2, <2>3 DEF Texts, u
<1>6. t \in Seq(Tokens) /\ Len(t) = a /\ W \in Texts /\ Len(W) = b + a
    BY <1>4, <1>5
\* The parts of the cache past the base.
<1>7. \A m \in 0 .. a : Take(W, b + m) = base \o Take(toks, m)
    <2> TAKE m \in 0 .. a
    <2> DEFINE u == t
    <2>1. Take(t, m) = Take(toks, m)
        BY <1>4
    <2> HIDE DEF t
    <2>2. Take(base \o t, b + m) = base \o Take(t, m)
        BY <1>2, <1>6, PrefixOfConcat DEF Take
    <2> QED BY <2>1, <2>2
<1>8. \A m \in 1 .. a : W[b + m] = toks[m]
    <2> TAKE m \in 1 .. a
    <2>1. t[m] = toks[m]
        BY <1>4
    <2> HIDE DEF t
    <2>2. \A i \in 1 .. b + Len(t) : (base \o t)[i] = IF i <= b THEN base[i] ELSE t[i - b]
        BY <1>2, <1>6, ConcatProperties
    <2>3. b + m \in 1 .. b + Len(t) /\ ~(b + m <= b) /\ (b + m) - b = m
        BY <1>2, <1>6
    <2> QED BY <2>1, <2>2, <2>3
<1>9. content' \in [Caches -> Texts] /\ content'[host] = W
    BY <1>1, <1>2, <1>6
<1>10. pending' \in Seq([tok : Tokens, logits : Texts]) /\ Len(pending') = a - 1
    <2> DEFINE P == [tok : Tokens, logits : Texts]
    <2>1. \A i \in 1 .. a - 1 : i + 1 \in 1 .. n + 1 /\ i + 1 \in 0 .. n + 1
        OBVIOUS
    <2>2. \A i \in 1 .. a - 1 : [tok |-> toks[i + 1], logits |-> base \o Take(toks, i + 1)] \in P
        BY <1>3, <1>5, <2>1
    <2>3. pending' \in [1 .. a - 1 -> P] /\ a - 1 \in Nat
        BY <1>1, <2>2
    <2> HIDE DEF P
    <2>4. pending' \in Seq(P) /\ Len(pending') = a - 1
        BY <2>3, SeqDef, LenProperties
    <2> QED BY <2>4 DEF P
<1>11. snaps' \in Seq(Texts) /\ Len(snaps') = n + 1
    <2>1. \A i \in 1 .. n + 1 : i - 1 \in 0 .. n + 1
        OBVIOUS
    <2>2. snaps' \in [1 .. n + 1 -> Texts] /\ n + 1 \in Nat
        BY <1>1, <1>3, <1>5, <2>1
    <2> QED BY <2>2, SeqDef, LenProperties
<1>12. Asked' = b + 1
    BY <1>1, <1>2, <1>10 DEF Asked
<1>13. ASSUME NEW i \in 1 .. Len(pending')
       PROVE  /\ pending'[i] = [tok |-> W[Asked' + i], logits |-> Take(W, Asked' + i)]
              /\ snaps'[consumed' + i] = Take(W, Asked' + i - 1)
    <2>1. i \in 1 .. a - 1 /\ i + 1 \in 1 .. a /\ i \in 0 .. a /\ i + 1 \in 0 .. a /\ i + 1 \in 1 .. n + 1
        BY <1>10
    <2>2. Asked' + i = b + (i + 1) /\ Asked' + i - 1 = b + i /\ consumed' + i = i + 1 /\ i + 1 - 1 = i
        BY <1>1, <1>2, <1>12, <2>1
    <2>3. pending'[i] = [tok |-> toks[i + 1], logits |-> base \o Take(toks, i + 1)]
        BY <1>1, <2>1
    <2>4. W[b + (i + 1)] = toks[i + 1] /\ Take(W, b + (i + 1)) = base \o Take(toks, i + 1)
        BY <1>7, <1>8, <2>1
    <2>5. snaps'[i + 1] = base \o Take(toks, i)
        BY <1>1, <1>3, <2>1, <2>2
    <2>6. Take(W, b + i) = base \o Take(toks, i)
        BY <1>7, <2>1
    <2> HIDE DEF W, b
    <2>7. pending'[i] = [tok |-> W[Asked' + i], logits |-> Take(W, Asked' + i)]
        BY <2>2, <2>3, <2>4
    <2>8. snaps'[consumed' + i] = Take(W, Asked' + i - 1)
        BY <2>2, <2>5, <2>6
    <2> QED BY <2>7, <2>8
<1> HIDE DEF W
<1>14. Stands(W)'
    <2>1. Len(W) = end_offset' /\ Asked' \in Nat /\ content'[cache'] = W
        BY <1>1, <1>2, <1>6, <1>9, <1>12
    <2> QED BY <1>13, <2>1 DEF Stands
<1>15. Speculated'
    <2>1. consumed' + Len(pending') <= Len(snaps')
        BY <1>1, <1>10, <1>11
    <2> QED BY <1>2, <1>6, <1>14, <2>1 DEF Speculated
<1>16. View' = Take(W, b + 1)
    <2>1. CASE pending' = <<>>
        <3>1. a = 1
            BY <1>10, <2>1, EmptySeq
        <3>2. View' = W
            BY <1>9, <2>1 DEF View, Ahead
        <3>3. W \in Seq(Tokens) /\ Take(W, Len(W)) = W
            BY <1>6, SubSeqFull DEF Take, Texts
        <3> QED BY <1>6, <3>1, <3>2, <3>3
    <2>2. CASE pending' # <<>>
        <3>1. Ahead'
            BY <1>1, <1>6, <1>9, <2>2 DEF Ahead, Offset
        <3>2. View' = Take(content'[host'], end_offset' - Len(pending'))
            BY <3>1 DEF View
        <3>3. end_offset' - Len(pending') = b + 1
            BY <1>1, <1>2, <1>10
        <3> QED BY <1>9, <3>2, <3>3
    <2> QED BY <2>1, <2>2
<1>17. Take(W, b + 1) = Append(base, toks[1])
    <2>1. 1 \in 0 .. a /\ 0 \in 0 .. n + 1 /\ 1 \in 0 .. n + 1 /\ toks[1] \in Tokens /\ 0 < Len(toks)
        BY <1>3
    <2>2. Take(toks, 1) = Append(<<>>, toks[1])
        <3>1. Append(SubSeq(toks, 1, 0), toks[0 + 1]) = SubSeq(toks, 1, 0 + 1)
            BY <2>1, PrefixProperties
        <3>2. SubSeq(toks, 1, 0) = <<>> /\ 0 + 1 = 1
            BY SubSeqEmpty
        <3>3. Append(SubSeq(toks, 1, 0), toks[1]) = SubSeq(toks, 1, 1)
            BY <3>1, <3>2
        <3> QED BY <3>2, <3>3 DEF Take
    <2>3. base \o Append(<<>>, toks[1]) = Append(base \o <<>>, toks[1])
        BY <1>2, <2>1, EmptySeq, AppendConcat
    <2>4. base \o <<>> = base
        BY <1>2, ConcatEmptySeq
    <2> QED BY <1>7, <2>1, <2>2, <2>3, <2>4
<1>18. consumed' \in 0 .. KMax /\ end_offset' \in 0 .. MaxLen /\ Len(pending') < KMax
       /\ Len(snaps') <= KMax
    BY <1>1, <1>2, <1>10, <1>11
<1> QED BY <1>9, <1>10, <1>11, <1>15, <1>16, <1>17, <1>18

\* Any other call runs its token on the host's own sequence.
LEMMA CallStepStep == LInv /\ CallStep => LInv' /\ Plain!Decode
<1> SUFFICES ASSUME LInv, CallStep PROVE LInv' /\ Plain!Decode
    OBVIOUS
<1>1. LType /\ Speculated /\ Clean \in [Caches -> Texts] /\ Clean[host] = View /\ View \in Texts
    BY CleanIsView DEF LInv
<1>2. PICK tok \in Tokens, n \in 0 .. KMax - 1 :
         \E drafts \in [1 .. n -> Tokens], outs \in [1 .. n -> Tokens] :
            /\ Len(View) + n + 1 <= MaxLen
            /\ IF n = 0 /\ HasPlain THEN PlainStep(View, tok)
               ELSE Step(View, <<tok>> \o drafts, Accepted(drafts, outs))
            /\ last_hidden' = Append(View, tok) /\ answer' = Append(View, tok)
    BY <1>1 DEF CallStep
<1>3. PICK drafts \in [1 .. n -> Tokens], outs \in [1 .. n -> Tokens] :
         /\ Len(View) + n + 1 <= MaxLen
         /\ IF n = 0 /\ HasPlain THEN PlainStep(View, tok)
            ELSE Step(View, <<tok>> \o drafts, Accepted(drafts, outs))
         /\ last_hidden' = Append(View, tok) /\ answer' = Append(View, tok)
    BY <1>2
<1>4. /\ cache' = host /\ host' = host /\ pairs' = <<>>
      /\ primed' = IF Swapped THEN None ELSE primed
    BY DEF CallStep
<1>5. /\ n \in Nat /\ n < KMax /\ KMax \in Nat \ {0} /\ MaxLen \in Nat /\ host \in Caches
      /\ Len(View) \in Nat /\ View \in Seq(Tokens)
    BY <1>1, LenProperties, LookaheadAssumption DEF LType, Texts
<1>6. Append(View, tok) \in Texts /\ Len(Append(View, tok)) = Len(View) + 1
    <2> DEFINE v == View
    <2> HIDE DEF v
    <2>1. Append(v, tok) \in Seq(Tokens) /\ Len(Append(v, tok)) = Len(v) + 1
        BY <1>5, AppendProperties DEF v
    <2> QED BY <1>3, <1>5, <2>1 DEF v, Texts
<1>7. /\ content' \in [Caches -> Texts]
      /\ pending' \in Seq([tok : Tokens, logits : Texts]) /\ Len(pending') < KMax
      /\ snaps' \in Seq(Texts) /\ Len(snaps') <= KMax
      /\ consumed' \in 0 .. KMax /\ end_offset' \in 0 .. MaxLen
      /\ Speculated' /\ View' = Append(View, tok)
    <2>1. CASE n = 0 /\ HasPlain
        <3>1. /\ content' = [Clean EXCEPT ![host] = Append(View, tok)]
              /\ snaps' = <<>> /\ pending' = <<>> /\ consumed' = 0 /\ end_offset' = Len(View) + 1
            BY <1>3, <2>1 DEF PlainStep
        <3>2. Speculated' /\ View' = Append(View, tok)
            BY <1>1, <1>4, <1>5, <3>1 DEF Speculated, View, Ahead
        <3>3. <<>> \in Seq([tok : Tokens, logits : Texts]) /\ <<>> \in Seq(Texts) /\ Len(<<>>) = 0
            BY EmptySeq
        <3> QED BY <1>1, <1>3, <1>5, <1>6, <3>1, <3>2, <3>3
    <2>2. CASE ~(n = 0 /\ HasPlain)
        <3> DEFINE toks == <<tok>> \o drafts
                   a == Accepted(drafts, outs)
                   base == View
        <3>1. Step(base, toks, a) /\ a \in 1 .. n + 1
            BY <1>3, <1>5, <2>2, AcceptedRange
        <3>2. toks \in Seq(Tokens) /\ Len(toks) = n + 1 /\ toks[1] = tok
            <4>1. drafts \in Seq(Tokens)
                BY <1>5, SeqDef
            <4>2. Len(drafts) = n
                BY <1>5, <4>1, LenProperties
            <4>3. <<tok>> \in Seq(Tokens) /\ Len(<<tok>>) = 1 /\ <<tok>>[1] = tok
                OBVIOUS
            <4>4. /\ toks \in Seq(Tokens) /\ Len(toks) = Len(<<tok>>) + Len(drafts)
                  /\ \A i \in 1 .. Len(<<tok>>) + Len(drafts) :
                        toks[i] = IF i <= Len(<<tok>>) THEN <<tok>>[i] ELSE drafts[i - Len(<<tok>>)]
                BY <4>1, <4>3, ConcatProperties
            <4> QED BY <1>5, <4>2, <4>3, <4>4
        <3>3. base \in Texts /\ Len(base) + n + 1 <= MaxLen
            BY <1>1, <1>3
        <3> HIDE DEF toks, a, base
        <3>4. /\ content' \in [Caches -> Texts]
              /\ pending' \in Seq([tok : Tokens, logits : Texts]) /\ Len(pending') < KMax
              /\ snaps' \in Seq(Texts) /\ Len(snaps') <= KMax
              /\ consumed' \in 0 .. KMax /\ end_offset' \in 0 .. MaxLen
              /\ Speculated' /\ View' = Append(base, toks[1])
            BY <1>1, <1>4, <1>5, <3>1, <3>2, <3>3, StepStands
        <3> QED BY <3>2, <3>4 DEF base
    <2> QED BY <2>1, <2>2
<1>8. LType'
    <2>1. <<>> \in Seq([hid : Texts, tok : Tokens]) /\ Len(<<>>) = 0
        BY EmptySeq
    <2>2. primed' \in {None} \cup 0 .. MaxLen
        BY <1>1, <1>4 DEF LType
    <2>3. Len(pending') \in Nat
        BY <1>7, LenProperties
    <2> QED BY <1>3, <1>4, <1>5, <1>6, <1>7, <2>1, <2>2, <2>3 DEF LType
<1>9. Plain!Decode
    BY <1>3, <1>7 DEF Plain!Decode
<1> QED BY <1>7, <1>8, <1>9 DEF LInv

\* Each step of the decoder and its host is one of plain decoding, or none.
LEMMA LNextStep == LInv /\ [Next]_vars => LInv' /\ [Plain!Next]_(Plain!vars)
<1> SUFFICES ASSUME LInv, [Next]_vars PROVE LInv' /\ [Plain!Next]_(Plain!vars)
    OBVIOUS
<1>1. CASE Prefill BY <1>1, PrefillStep DEF Plain!Next
<1>2. CASE Rewind BY <1>2, RewindStep DEF Plain!Next
<1>3. CASE Move BY <1>3, MoveStep DEF Plain!Next
<1>4. CASE New BY <1>4, NewStep DEF Plain!Next
<1>5. CASE CallHit BY <1>5, HitStep DEF Plain!Next
<1>6. CASE CallStep BY <1>6, CallStepStep DEF Plain!Next
<1>7. CASE UNCHANGED vars
    <2>1. /\ content' = content /\ host' = host /\ cache' = cache /\ pending' = pending
          /\ snaps' = snaps /\ consumed' = consumed /\ end_offset' = end_offset
          /\ last_hidden' = last_hidden /\ primed' = primed /\ pairs' = pairs /\ answer' = answer
        BY <1>7 DEF vars
    <2>2. LType'
        BY <2>1 DEF LInv, LType
    <2>3. Speculated'
        BY <2>1 DEF LInv, Speculated, Stands, Asked
    <2>4. View' = View
        BY <2>1 DEF View, Ahead, Offset
    <2> QED BY <2>1, <2>2, <2>3, <2>4 DEF LInv, Plain!vars
<1> QED BY <1>1, <1>2, <1>3, <1>4, <1>5, <1>6, <1>7 DEF Next

-----------------------------------------------------------------------------
(* The theorems.                                                           *)

THEOREM Standings == Spec => []LInv
<1>1. Init => LInv
    BY LInitInv
<1>2. LInv /\ [Next]_vars => LInv'
    BY LNextStep
<1> QED BY <1>1, <1>2, PTL DEF Spec

\* While the host leaves the cache alone, what it holds past the host's
\* sequence is the pending streams, each with its own logits, and the next
\* snapshot is that sequence (LookaheadDecoder's books).
THEOREM PendingAlwaysKept == Spec => []PendingKept
<1>1. LInv => PendingKept
    <2> SUFFICES ASSUME LInv PROVE PendingKept
        OBVIOUS
    <2>1. LType /\ Speculated /\ Texts = Seqs /\ KMax \in Nat
        <3>1. Texts = Seqs
            <4>1. ASSUME NEW s \in Texts PROVE s \in Seqs
                <5>1. s \in [1 .. Len(s) -> Tokens] /\ Len(s) \in 0 .. MaxLen
                    BY LenProperties, LookaheadAssumption DEF Texts
                <5> QED BY <5>1 DEF Seqs
            <4>2. ASSUME NEW s \in Seqs PROVE s \in Texts
                <5>1. PICK m \in 0 .. MaxLen : s \in [1 .. m -> Tokens]
                    BY DEF Seqs
                <5>2. s \in Seq(Tokens) /\ m \in Nat
                    BY <5>1, SeqDef, LookaheadAssumption
                <5>3. Len(s) = m
                    BY <5>1, <5>2, LenProperties
                <5> QED BY <5>2, <5>3, LookaheadAssumption DEF Texts
            <4> QED BY <4>1, <4>2
        <3> QED BY <3>1, LookaheadAssumption DEF LInv
    <2>2. TypeOK
        <3>1. Len(pending) \in Nat /\ Len(pairs) \in Nat
            BY <2>1, LenProperties DEF LType
        <3> QED BY <2>1, <3>1 DEF LType, TypeOK
    <2>3. ASSUME Ahead
          PROVE  /\ content[cache] = View \o [i \in DOMAIN pending |-> pending[i].tok]
                 /\ \A i \in DOMAIN pending :
                       pending[i].logits = Take(content[cache], Len(View) + i)
                 /\ snaps[consumed + 1] = View
        <3>1. PICK W \in Texts :
                 /\ Stands(W) /\ Len(W) = end_offset /\ Len(W) \in Nat
                 /\ Asked \in Nat /\ Asked < Len(W) /\ Len(pending) \in Nat \ {0}
                 /\ end_offset = Asked + Len(pending)
                 /\ snaps[consumed + 1] = Take(W, Asked)
                 /\ Offset(cache) = end_offset => content[cache] = W
            BY <2>1, <2>3, Standing DEF Ahead
        <3>2. content[cache] = W /\ View = Take(W, Asked) /\ W \in Seq(Tokens)
            BY <2>3, <3>1 DEF Ahead, View, Asked, Texts
        <3> DEFINE v == Take(W, Asked)
                   p == [i \in 1 .. Len(pending) |-> pending[i].tok]
                   u == v \o p
        <3>3. /\ v \in Seq(Tokens) /\ Len(v) = Asked /\ \A i \in 1 .. Asked : v[i] = W[i]
            BY <3>1, <3>2, PrefixProperties DEF Take
        <3>4. DOMAIN pending = 1 .. Len(pending)
            BY <2>1, LenProperties DEF LType
        <3>5. \A i \in 1 .. Len(pending) :
                 pending[i] = [tok |-> W[Asked + i], logits |-> Take(W, Asked + i)]
            BY <3>1 DEF Stands
        <3>6. \A i \in 1 .. Len(pending) : p[i] = W[Asked + i] /\ W[Asked + i] \in Tokens
            <4>1. \A i \in 1 .. Len(pending) : Asked + i \in 1 .. Len(W)
                BY <3>1
            <4>2. ASSUME NEW i \in 1 .. Len(pending) PROVE p[i] = W[Asked + i]
                <5>1. p[i] = pending[i].tok
                    OBVIOUS
                <5>2. pending[i] = [tok |-> W[Asked + i], logits |-> Take(W, Asked + i)]
                    BY <3>5
                <5> QED BY <5>1, <5>2
            <4> HIDE DEF p
            <4> QED BY <3>2, <4>1, <4>2, ElementOfSeq
        <3>7. p \in Seq(Tokens) /\ Len(p) = Len(pending)
            <4>1. p \in [1 .. Len(pending) -> Tokens] /\ Len(pending) \in Nat
                BY <3>1, <3>6
            <4> HIDE DEF p
            <4> QED BY <4>1, SeqDef, LenProperties
        <3> HIDE DEF v, p
        <3>8. /\ u \in Seq(Tokens) /\ Len(u) = Asked + Len(pending)
              /\ \A i \in 1 .. Asked + Len(pending) : u[i] = IF i <= Asked THEN v[i] ELSE p[i - Asked]
            <4>1. /\ u \in Seq(Tokens) /\ Len(u) = Len(v) + Len(p)
                  /\ \A i \in 1 .. Len(v) + Len(p) : u[i] = IF i <= Len(v) THEN v[i] ELSE p[i - Len(v)]
                BY <3>3, <3>7, ConcatProperties
            <4> HIDE DEF u
            <4> QED BY <3>3, <3>7, <4>1
        <3> HIDE DEF u
        <3>9. ASSUME NEW i \in 1 .. Asked + Len(pending) PROVE u[i] = W[i]
            <4>1. CASE i <= Asked
                BY <3>1, <3>3, <3>8, <4>1
            <4>2. CASE ~(i <= Asked)
                <5>1. i - Asked \in 1 .. Len(pending) /\ Asked + (i - Asked) = i
                    BY <3>1, <4>2
                <5>2. p[i - Asked] = W[Asked + (i - Asked)]
                    BY <3>6, <5>1
                <5> QED BY <3>8, <4>2, <5>1, <5>2
            <4> QED BY <4>1, <4>2
        <3>10. W = u
            BY <3>1, <3>2, <3>8, <3>9, SeqEqual
        <3>11. content[cache] = View \o [i \in DOMAIN pending |-> pending[i].tok]
            BY <3>2, <3>4, <3>10 DEF u, v, p
        <3>12. Len(View) = Asked
            BY <3>2, <3>3 DEF v
        <3>13. ASSUME NEW i \in DOMAIN pending
               PROVE  pending[i].logits = Take(content[cache], Len(View) + i)
            <4>1. pending[i] = [tok |-> W[Asked + i], logits |-> Take(W, Asked + i)]
                BY <3>4, <3>5
            <4> QED BY <3>2, <3>12, <4>1
        <3> QED BY <3>1, <3>2, <3>11, <3>13
    <2> QED BY <2>2, <2>3 DEF PendingKept, PendingInPlace
<1> QED BY <1>1, Standings, PTL

\* The host sees plain decoding: whatever is drafted, accepted, sampled,
\* rewound, moved or replaced, a call is answered with the logits of its token
\* on the host's own sequence (LookaheadDecoder.call).
THEOREM LookaheadImplementsPlain == Spec => ImplementsPlain
<1>1. Init => Plain!Init
    BY LInitInv
<1>2. LInv /\ [Next]_vars => [Plain!Next]_(Plain!vars)
    BY LNextStep
<1> QED BY <1>1, <1>2, Standings, PTL DEF Spec, ImplementsPlain, Plain!Spec
=============================================================================
