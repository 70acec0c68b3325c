-------------------------- MODULE DecodeLoopProofs --------------------------
(***************************************************************************)
(* The pipelined decode loop, for any vocabulary, stop ids, number wanted  *)
(* and number of streams: the loop hands out the ids of a plain greedy     *)
(* loop and leaves its cache and its head where they belong (Generate);    *)
(* the head it feeds keeps its context (DraftHead); the gate holds the     *)
(* faster arm (SelfGate).                                                  *)
(***************************************************************************)
EXTENDS MCDecodeLoop, SeqFoldsProofs

\* The first n ids of the greedy path, and their pairs.
Path(n) == SubSeq(path, 1, n)
Numbered(n) == [i \in 1 .. n |-> <<i - 2, path[i]>>]
PairSet == Int \X Tokens

GType ==
    /\ path \in [1 .. NTokens + KMax -> Tokens]
    /\ pc \in {"draft", "step", "commit", "done"}
    /\ Len(out) \in 1 .. NTokens /\ out = Path(Len(out))
    /\ Len(cache) \in 0 .. NTokens + KMax - 1 /\ cache = Path(Len(cache))
    /\ drafts \in Seq(Tokens) /\ Len(drafts) < KMax
    /\ fed \in Seq(PairSet) /\ pairs \in Seq(PairSet)

\* Between steps.
Placed ==
    pc \in {"draft", "step"} =>
        /\ Len(cache) = Len(out) - 1 /\ offset = Len(cache) /\ cur = path[Len(out)]
        /\ path[Len(out)] \notin Stops
        /\ pc = "step" => Len(out) < NTokens /\ pairs = <<>>

\* While the accepted ids are handed out: they are the path's next, and so is
\* what the snapshots up to the accepted streams hold.
Judged ==
    pc = "commit" =>
        LET a == Accepted(drafts, outs)
        IN  /\ a \in 1 .. KMax /\ kept \in 0 .. a
            /\ offset \in Nat /\ offset + 2 <= NTokens
            /\ Len(out) = offset + 1 + kept /\ Len(cache) = offset + a
            /\ path[Len(out)] \notin Stops
            /\ Len(snaps) \in Nat /\ a <= Len(snaps)
            /\ \A i \in 1 .. a : outs[i] = path[offset + 1 + i]
            /\ \A i \in 1 .. Len(snaps) : i <= a + 1 => snaps[i] = Path(offset + i - 1)

Over ==
    pc = "done" =>
        /\ Len(out) - 1 <= Len(cache)
        /\ path[Len(out)] \in Stops => Len(cache) = Len(out) - 1

Fed == KMax > 1 => fed \o pairs = Numbered(Len(out))

GInv == GType /\ Placed /\ Judged /\ Over /\ Fed

-----------------------------------------------------------------------------
(* The greedy path.                                                        *)

LEMMA Constants == /\ NTokens \in Nat \ {0} /\ KMax \in Nat \ {0}
                   /\ NTokens + KMax \in Nat
BY GenerateAssumption

\* Its prefixes, and what a forward on one answers.
LEMMA PathFacts ==
    ASSUME path \in [1 .. NTokens + KMax -> Tokens],
           NEW n \in 0 .. NTokens + KMax
    PROVE  /\ path \in Seq(Tokens) /\ Path(n) \in Seq(Tokens) /\ Len(Path(n)) = n
           /\ \A i \in 1 .. n : Path(n)[i] = path[i] /\ path[i] \in Tokens
           /\ \A m \in 0 .. n : SubSeq(Path(n), 1, m) = Path(m)
           /\ OnPath(Path(n)) /\ Path(0) = <<>>
           /\ Answers(Path(n)) = {path[n + 1]}
           /\ n < NTokens + KMax => /\ path[n + 1] \in Tokens
                                    /\ Append(Path(n), path[n + 1]) = Path(n + 1)
<1>1. NTokens + KMax \in Nat /\ path \in Seq(Tokens)
    BY Constants, SeqDef
<1>2. Len(path) = NTokens + KMax
    BY <1>1, LenProperties
<1> DEFINE p == path
<1>3. p \in Seq(Tokens) /\ n \in 0 .. Len(p)
    BY <1>1, <1>2
<1> HIDE DEF p
<1>4. /\ SubSeq(p, 1, n) \in Seq(Tokens) /\ Len(SubSeq(p, 1, n)) = n
      /\ \A i \in 1 .. n : SubSeq(p, 1, n)[i] = p[i]
      /\ SubSeq(p, 1, 0) = <<>>
      /\ \A m \in 0 .. n : SubSeq(SubSeq(p, 1, n), 1, m) = SubSeq(p, 1, m)
      /\ n < Len(p) => Append(SubSeq(p, 1, n), p[n + 1]) = SubSeq(p, 1, n + 1)
    BY <1>3, PrefixProperties
<1>5. OnPath(Path(n)) /\ Answers(Path(n)) = {path[n + 1]}
    BY <1>4 DEF OnPath, Answers, Path, p
<1>6. \A i \in 1 .. n : path[i] \in Tokens
    BY <1>1
<1>7. n < NTokens + KMax => path[n + 1] \in Tokens
    BY <1>1
<1> QED BY <1>1, <1>2, <1>4, <1>5, <1>6, <1>7 DEF Path, p

LEMMA NumberedAppend ==
    ASSUME path \in [1 .. NTokens + KMax -> Tokens],
           NEW n \in 0 .. NTokens + KMax - 1
    PROVE  /\ Numbered(n) \in Seq(PairSet) /\ Len(Numbered(n)) = n
           /\ <<n - 1, path[n + 1]>> \in PairSet
           /\ Append(Numbered(n), <<n - 1, path[n + 1]>>) = Numbered(n + 1)
<1>1. ASSUME NEW i \in 1 .. n + 1 PROVE <<i - 2, path[i]>> \in PairSet
    <2>1. i \in 1 .. NTokens + KMax /\ i - 2 \in Int
        BY Constants
    <2>2. path[i] \in Tokens
        BY <2>1
    <2> QED BY <2>1, <2>2 DEF PairSet
<1>2. n + 1 \in 1 .. n + 1 /\ (n + 1) - 2 = n - 1
    OBVIOUS
<1>3. <<n - 1, path[n + 1]>> \in PairSet
    BY <1>1, <1>2
<1>4. Numbered(n) \in [1 .. n -> PairSet] /\ Numbered(n + 1) \in [1 .. n + 1 -> PairSet]
    BY <1>1 DEF Numbered
<1>5. /\ Numbered(n) \in Seq(PairSet) /\ Numbered(n + 1) \in Seq(PairSet)
      /\ Len(Numbered(n)) = n /\ Len(Numbered(n + 1)) = n + 1
    BY <1>4, SeqDef, LenProperties
<1> DEFINE x == <<n - 1, path[n + 1]>>
           s == Append(Numbered(n), x)
<1>6. x \in PairSet
    BY <1>3
<1> HIDE DEF x
<1>7. /\ s \in Seq(PairSet) /\ Len(s) = n + 1 /\ s[n + 1] = x
      /\ \A i \in 1 .. n : s[i] = Numbered(n)[i]
    BY <1>5, <1>6, AppendProperties
<1> HIDE DEF s
<1>8. ASSUME NEW i \in 1 .. n + 1 PROVE s[i] = Numbered(n + 1)[i]
    <2>1. Numbered(n + 1)[i] = <<i - 2, path[i]>>
        BY DEF Numbered
    <2>2. CASE i = n + 1
        BY <1>2, <1>7, <2>1, <2>2 DEF x
    <2>3. CASE i # n + 1
        <3>1. i \in 1 .. n /\ Numbered(n)[i] = <<i - 2, path[i]>>
            BY <2>3 DEF Numbered
        <3> QED BY <1>7, <2>1, <3>1
    <2> QED BY <2>2, <2>3
<1>9. s = Numbered(n + 1)
    BY <1>5, <1>7, <1>8, SeqEqual
<1> QED BY <1>3, <1>5, <1>9 DEF s, x

\* The accepted streams are some, and their drafts are right.
LEMMA AcceptedRight ==
    ASSUME NEW n \in Nat, NEW ds, Len(ds) = n, NEW os
    PROVE  /\ Accepted(ds, os) \in 1 .. n + 1
           /\ \A i \in 1 .. Accepted(ds, os) - 1 : ds[i] = os[i]
<1> DEFINE right(a) == \A i \in 1 .. a - 1 : ds[i] = os[i]
           best(a) == right(a) /\ \A b \in a + 1 .. n + 1 : ~right(b)
           T == {m \in 0 .. n : right(n + 1 - m)}
<1>1. \E a \in 1 .. n + 1 : best(a)
    <2>1. T \in SUBSET Nat
        OBVIOUS
    <2>2. n \in T
        <3>1. right(n + 1 - n)
            OBVIOUS
        <3> QED BY <3>1
    <2>3. PICK m \in T : \A x \in T : m <= x
        <3> HIDE DEF T
        <3> QED BY <2>1, <2>2, LeastNatural
    <2>4. m \in 0 .. n /\ right(n + 1 - m)
        OBVIOUS
    <2>5. ASSUME NEW b \in (n + 1 - m) + 1 .. n + 1 PROVE ~right(b)
        <3>1. n + 1 - b \in 0 .. n /\ n + 1 - (n + 1 - b) = b /\ ~(m <= n + 1 - b)
            BY <2>4
        <3>2. n + 1 - b \notin T
            <4> HIDE DEF T
            <4> QED BY <2>3, <3>1
        <3> QED BY <3>1, <3>2
    <2>6. n + 1 - m \in 1 .. n + 1
        BY <2>4
    <2> HIDE DEF right
    <2> QED BY <2>4, <2>5, <2>6
<1>2. Accepted(ds, os) = CHOOSE a \in 1 .. n + 1 : best(a)
    BY DEF Accepted
<1> HIDE DEF best
<1>3. Accepted(ds, os) \in 1 .. n + 1 /\ best(Accepted(ds, os))
    BY <1>1, <1>2
<1> QED BY <1>3 DEF best

-----------------------------------------------------------------------------
(* The steps.                                                              *)

LEMMA GInitInv == Init => GInv /\ Plain!Init
<1> SUFFICES ASSUME Init PROVE GInv /\ Plain!Init
    OBVIOUS
<1>1. /\ NTokens \in Nat \ {0} /\ KMax \in Nat \ {0} /\ path \in [1 .. NTokens + KMax -> Tokens]
      /\ path[1] \in Tokens
    BY Constants DEF Init
<1>2. Path(0) = <<>> /\ Append(Path(0), path[0 + 1]) = Path(0 + 1)
    BY <1>1, PathFacts
<1>3. Path(1) = <<path[1]>> /\ Len(<<path[1]>>) = 1
    <2>1. 0 + 1 = 1
        OBVIOUS
    <2>2. Append(<<>>, path[1]) = Path(1)
        BY <1>2, <2>1
    <2>3. Append(<<>>, path[1]) = <<path[1]>>
        OBVIOUS
    <2> QED BY <2>2, <2>3
<1>4. Numbered(1) = <<<<-1, path[1]>>>>
    BY DEF Numbered
<1>5. /\ <<<<-1, path[1]>>>> \in Seq(PairSet) /\ <<>> \in Seq(PairSet) /\ <<>> \in Seq(Tokens)
      /\ Len(<<>>) = 0
    <2>1. <<-1, path[1]>> \in PairSet
        BY <1>1 DEF PairSet
    <2> QED BY <2>1, EmptySeq
<1>6. <<>> \o <<<<-1, path[1]>>>> = <<<<-1, path[1]>>>>
    BY <1>5, ConcatEmptySeq
<1>7. GType
    BY <1>1, <1>2, <1>3, <1>5 DEF Init, GType
<1>8. Placed /\ Judged /\ Over /\ Fed
    BY <1>3, <1>4, <1>5, <1>6 DEF Init, Placed, Judged, Over, Fed
<1>9. Plain!Init
    BY DEF Init, Plain!Init
<1> QED BY <1>7, <1>8, <1>9 DEF GInv

\* A draft moves the pairs to the head.
LEMMA DraftInv ==
    ASSUME GInv, Draft PROVE GInv' /\ UNCHANGED Plain!vars
<1>1. /\ pc = "draft" /\ Len(out) < NTokens /\ pc' = "step" /\ pairs' = <<>>
      /\ fed' = IF KMax > 1 THEN fed \o pairs ELSE fed
      /\ path' = path /\ out' = out /\ cache' = cache /\ cur' = cur /\ offset' = offset
      /\ outs' = outs /\ snaps' = snaps /\ kept' = kept
    BY DEF Draft, given
<1>2. drafts' \in Seq(Tokens) /\ Len(drafts') < KMax
    <2>1. PICK n \in 0 .. IF pairs = <<>> THEN 0 ELSE KMax - 1 : drafts' \in [1 .. n -> Tokens]
        BY DEF Draft
    <2>2. n \in Nat /\ n < KMax
        BY <2>1, Constants
    <2>3. drafts' \in Seq(Tokens)
        BY <2>1, <2>2, SeqDef
    <2>4. Len(drafts') = n
        BY <2>1, <2>2, <2>3, LenProperties
    <2> QED BY <2>2, <2>3, <2>4
<1>3. fed' \in Seq(PairSet) /\ pairs' \in Seq(PairSet)
    BY <1>1, ConcatProperties, EmptySeq DEF GInv, GType
<1>4. GType'
    BY <1>1, <1>2, <1>3 DEF GInv, GType, Path
<1>5. Placed' /\ Judged' /\ Over'
    BY <1>1 DEF GInv, Placed, Judged, Over
<1>6. Fed'
    <2>1. KMax > 1 => fed' \o <<>> = fed'
        BY <1>3, ConcatEmptySeq
    <2>2. Numbered(Len(out))' = Numbered(Len(out))
        BY <1>1 DEF Numbered
    <2> QED BY <1>1, <2>1, <2>2 DEF GInv, Fed
<1> QED BY <1>1, <1>4, <1>5, <1>6 DEF GInv, Plain!vars

\* A committed id is the path's next, and so are its cache entry and its pair.
LEMMA PlainStepInv ==
    ASSUME GInv, PlainStep PROVE GInv' /\ Plain!Generate
<1>0. PICK n \in 1 .. NTokens : n = Len(out)
    BY DEF GInv, GType
<1>1. /\ pc = "step" /\ cache' = Append(cache, cur) /\ path' = path /\ fed' = fed
      /\ drafts' = drafts /\ outs' = outs /\ snaps' = snaps /\ kept' = kept
    BY DEF PlainStep, given, step
<1>2. PICK nxt \in Answers(cache') :
         /\ pairs' = <<<<Len(cache), nxt>>>> /\ out' = Append(out, nxt)
         /\ \/ nxt \in Stops /\ pc' = "done" /\ cur' = cur /\ offset' = offset
            \/ nxt \notin Stops /\ pc' = "draft" /\ cur' = nxt /\ offset' = offset + 1
    BY DEF PlainStep
<1>3. /\ GType /\ n \in 1 .. NTokens /\ n < NTokens /\ NTokens \in Nat /\ KMax \in Nat \ {0}
      /\ Len(cache) = n - 1 /\ offset = n - 1 /\ cur = path[n] /\ path[n] \notin Stops
      /\ pairs = <<>>
    BY <1>0, <1>1, Constants DEF GInv, GType, Placed
<1>4. path \in [1 .. NTokens + KMax -> Tokens] /\ out = Path(n) /\ cache = Path(n - 1)
    BY <1>0, <1>3 DEF GType
<1>13. /\ n - 1 \in 0 .. NTokens + KMax /\ n - 1 < NTokens + KMax /\ (n - 1) + 1 = n
      /\ n \in 0 .. NTokens + KMax /\ n < NTokens + KMax /\ n + 1 \in 0 .. NTokens + KMax
      /\ n \in 0 .. NTokens + KMax - 1
    BY <1>3
<1>5. cache' = Path(n)
    <2>1. Append(Path(n - 1), path[(n - 1) + 1]) = Path((n - 1) + 1)
        BY <1>13, <1>4, PathFacts
    <2>2. Append(Path(n - 1), path[n]) = Path(n)
        BY <1>13, <2>1
    <2> QED BY <1>1, <1>3, <1>4, <2>2
<1>6. nxt = path[n + 1] /\ path[n + 1] \in Tokens /\ out' = Path(n + 1) /\ Len(Path(n + 1)) = n + 1
      /\ Len(Path(n)) = n
    <2>1. Answers(Path(n)) = {path[n + 1]} /\ path[n + 1] \in Tokens
          /\ Append(Path(n), path[n + 1]) = Path(n + 1) /\ Len(Path(n)) = n
        BY <1>13, <1>4, PathFacts
    <2>2. Len(Path(n + 1)) = n + 1
        BY <1>13, <1>4, PathFacts
    <2> QED BY <1>2, <1>4, <1>5, <2>1, <2>2
<1>7. \A m : Path(m)' = Path(m) /\ Numbered(m)' = Numbered(m)
    BY <1>1 DEF Path, Numbered
<1>8. pairs' = <<<<n - 1, path[n + 1]>>>> /\ <<n - 1, path[n + 1]>> \in PairSet
    BY <1>2, <1>3, <1>6 DEF PairSet
<1>9. GType'
    <2>1. <<<<n - 1, path[n + 1]>>>> \in Seq(PairSet)
        <3> DEFINE x == <<n - 1, path[n + 1]>>
        <3>1. x \in PairSet
            BY <1>8
        <3> HIDE DEF x
        <3>2. <<x>> \in Seq(PairSet)
            BY <3>1
        <3> QED BY <3>2 DEF x
    <2>2. /\ Len(out') = n + 1 /\ Len(out') \in 1 .. NTokens /\ out' = Path(n + 1)
          /\ Len(cache') = n /\ Len(cache') \in 0 .. NTokens + KMax - 1
        BY <1>3, <1>5, <1>6
    <2>3. pc' \in {"draft", "step", "commit", "done"}
        BY <1>2
    <2> QED BY <1>1, <1>3, <1>5, <1>7, <1>8, <2>1, <2>2, <2>3 DEF GType
<1>10. Placed' /\ Judged' /\ Over'
    BY <1>1, <1>2, <1>3, <1>5, <1>6, <1>7 DEF Placed, Judged, Over
<1>11. Fed'
    <2> SUFFICES ASSUME KMax > 1 PROVE fed' \o pairs' = Numbered(n + 1)
        BY <1>6, <1>7 DEF Fed
    <2>1. fed \o pairs = Numbered(n) /\ fed \in Seq(PairSet)
        BY <1>0 DEF GInv, GType, Fed
    <2>2. fed = Numbered(n)
        BY <1>3, <2>1, ConcatEmptySeq
    <2> DEFINE x == <<n - 1, path[n + 1]>>
    <2>3. Append(Numbered(n), x) = Numbered(n + 1)
        BY <1>13, <1>4, NumberedAppend
    <2>4. x \in PairSet /\ pairs' = <<x>>
        BY <1>8
    <2> HIDE DEF x
    <2>5. Append(fed, x) = fed \o <<x>>
        BY <2>1, <2>4, AppendIsConcat
    <2> QED BY <1>1, <2>2, <2>3, <2>4, <2>5
<1>12. Plain!Generate
    <2>1. \A i \in 1 .. n : Path(n)[i] = path[i]
        BY <1>13, <1>4, PathFacts
    <2>2. out[n] = path[n]
        BY <1>3, <1>4, <2>1
    <2> QED BY <1>0, <1>1, <1>2, <1>3, <1>6, <2>2 DEF Plain!Generate, Plain!Ended
<1> QED BY <1>9, <1>10, <1>11, <1>12 DEF GInv

\* The cache after i of a step's streams on the path's first c ids.
After(c, toks, i) == Path(c) \o SubSeq(toks, 1, i)

\* They answer with ids os.
Answered(c, ds, os, toks) ==
    /\ toks = <<path[c + 1]>> \o ds
    /\ \A i \in 1 .. Len(toks) : os[i] \in Answers(After(c, toks, i))

\* Up to the accepted streams, a step's caches are the path's prefixes and its
\* ids the path's next.
LEMMA StepRight ==
    ASSUME path \in [1 .. NTokens + KMax -> Tokens],
           NEW c \in Nat, c + 2 <= NTokens,
           NEW ds \in Seq(Tokens), Len(ds) < KMax, NEW os, NEW toks, Answered(c, ds, os, toks)
    PROVE  /\ toks \in Seq(Tokens) /\ Len(toks) = Len(ds) + 1
           /\ \A i \in 0 .. Accepted(ds, os) : After(c, toks, i) = Path(c + i)
           /\ \A i \in 1 .. Accepted(ds, os) : os[i] = path[c + 1 + i]
<1>1. PICK m \in Nat : m = Len(ds)
    BY LenProperties
<1>2. PICK a \in 1 .. m + 1 : a = Accepted(ds, os) /\ \A i \in 1 .. a - 1 : ds[i] = os[i]
    <2>1. /\ Accepted(ds, os) \in 1 .. m + 1
          /\ \A i \in 1 .. Accepted(ds, os) - 1 : ds[i] = os[i]
        BY <1>1, AcceptedRight
    <2> QED BY <2>1
<1>3. NTokens \in Nat \ {0} /\ KMax \in Nat \ {0} /\ m < KMax
    BY <1>1, Constants
<1>4. path[c + 1] \in Tokens
    <2>1. c + 1 \in 1 .. NTokens + KMax
        BY <1>3
    <2> QED BY <2>1
<1>5. /\ toks \in Seq(Tokens) /\ Len(toks) = m + 1 /\ toks[1] = path[c + 1]
      /\ \A i \in 2 .. m + 1 : toks[i] = ds[i - 1]
    <2> DEFINE x == <<path[c + 1]>>
    <2>1. x \in Seq(Tokens) /\ Len(x) = 1 /\ x[1] = path[c + 1]
        BY <1>4
    <2> HIDE DEF x
    <2>2. /\ x \o ds \in Seq(Tokens) /\ Len(x \o ds) = Len(x) + Len(ds)
          /\ \A i \in 1 .. Len(x) + Len(ds) :
                (x \o ds)[i] = IF i <= Len(x) THEN x[i] ELSE ds[i - Len(x)]
        BY <2>1, ConcatProperties
    <2>3. toks = x \o ds
        BY DEF x, Answered
    <2>4. 1 \in 1 .. Len(x) + Len(ds) /\ 1 <= Len(x)
        BY <1>1, <2>1
    <2>5. ASSUME NEW i \in 2 .. m + 1 PROVE toks[i] = ds[i - 1]
        <3>1. i \in 1 .. Len(x) + Len(ds) /\ ~(i <= Len(x)) /\ i - Len(x) = i - 1
            BY <1>1, <2>1
        <3> QED BY <2>2, <2>3, <3>1
    <2>6. Len(toks) = m + 1
        BY <1>1, <2>1, <2>2, <2>3
    <2> QED BY <2>1, <2>2, <2>3, <2>4, <2>5, <2>6
<1> DEFINE after(i) == After(c, toks, i)
           T == {i \in Nat : /\ after(i) = Path(c + i)
                             /\ i >= 1 => os[i] = path[c + 1 + i]}
<1>6. c \in 0 .. NTokens + KMax /\ Path(c) \in Seq(Tokens)
    <2>1. c \in 0 .. NTokens + KMax
        BY <1>3
    <2> QED BY <2>1, PathFacts
<1>7. 0 \in T
    <2>1. SubSeq(toks, 1, 0) = <<>>
        BY <1>5, PrefixProperties
    <2>2. after(0) = Path(c)
        BY <1>6, <2>1, ConcatEmptySeq DEF After
    <2> QED BY <2>2
<1>8. ASSUME NEW i \in 1 .. a, i - 1 \in T PROVE i \in T
    <2>1. /\ i - 1 \in 0 .. Len(toks) /\ i - 1 < Len(toks) /\ (i - 1) + 1 = i
          /\ i \in 1 .. Len(toks) /\ i \in 1 .. m + 1
        BY <1>1, <1>2, <1>5
    <2>2. /\ c + i \in 0 .. NTokens + KMax /\ c + (i - 1) \in 0 .. NTokens + KMax
          /\ c + (i - 1) < NTokens + KMax /\ (c + (i - 1)) + 1 = c + i
          /\ (c + i) + 1 = c + 1 + i /\ c + 1 + (i - 1) = c + i
        BY <1>1, <1>2, <1>3
    <2>3. /\ Append(SubSeq(toks, 1, i - 1), toks[(i - 1) + 1]) = SubSeq(toks, 1, (i - 1) + 1)
          /\ SubSeq(toks, 1, i - 1) \in Seq(Tokens)
        BY <1>5, <2>1, PrefixProperties
    <2>4. Append(SubSeq(toks, 1, i - 1), toks[i]) = SubSeq(toks, 1, i)
        BY <2>1, <2>3
    <2>5. toks[i] \in Tokens
        BY <1>5, <2>1, ElementOfSeq
    <2>6. after(i) = Append(after(i - 1), toks[i])
        <3> DEFINE p == Path(c)
                   q == SubSeq(toks, 1, i - 1)
                   e == toks[i]
        <3>1. p \in Seq(Tokens) /\ q \in Seq(Tokens) /\ e \in Tokens
            BY <1>6, <2>3, <2>5
        <3> HIDE DEF p, q, e
        <3>2. p \o Append(q, e) = Append(p \o q, e)
            BY <3>1, AppendConcat
        <3> QED BY <2>4, <3>2 DEF p, q, e, After
    <2>7. toks[i] = path[c + i]
        <3>1. CASE i = 1
            BY <1>5, <3>1
        <3>2. CASE i # 1
            <4>1. i \in 2 .. m + 1 /\ i - 1 \in 1 .. a - 1 /\ i - 1 >= 1
                BY <2>1, <3>2
            <4>2. toks[i] = ds[i - 1] /\ ds[i - 1] = os[i - 1]
                BY <1>2, <1>5, <4>1
            <4>3. os[i - 1] = path[c + 1 + (i - 1)]
                BY <1>8, <4>1
            <4> QED BY <2>2, <4>2, <4>3
        <3> QED BY <3>1, <3>2
    <2>8. after(i - 1) = Path(c + (i - 1))
        BY <1>8
    <2>9. Append(Path(c + (i - 1)), path[(c + (i - 1)) + 1]) = Path((c + (i - 1)) + 1)
        BY <2>2, PathFacts
    <2>10. after(i) = Path(c + i)
        BY <2>2, <2>6, <2>7, <2>8, <2>9
    <2>11. os[i] \in Answers(after(i))
        BY <2>1 DEF Answered
    <2>12. Answers(Path(c + i)) = {path[(c + i) + 1]}
        BY <2>2, PathFacts
    <2>13. os[i] = path[c + 1 + i]
        BY <2>2, <2>10, <2>11, <2>12
    <2>14. i \in Nat
        BY <1>2
    <2> HIDE DEF after
    <2> QED BY <2>10, <2>13, <2>14
<1>9. 0 .. a \subseteq T
    <2> HIDE DEF T
    <2>1. a \in Nat
        BY <1>2
    <2> QED BY <1>7, <1>8, <2>1, BoundedInduction
<1>10. \A i \in 0 .. a : after(i) = Path(c + i) /\ (i >= 1 => os[i] = path[c + 1 + i])
    BY <1>9
<1>11. \A i \in 1 .. a : i \in 0 .. a /\ i >= 1
    BY <1>2
<1> QED BY <1>1, <1>2, <1>5, <1>10, <1>11

\* After a step the cache is back where the accepted streams end.
LEMMA StepInv ==
    ASSUME GInv, Step PROVE GInv' /\ UNCHANGED Plain!vars
<1>0. PICK n \in 1 .. NTokens : n = Len(out)
    BY DEF GInv, GType
<1>1. /\ pc = "step" /\ kept' = 0 /\ pc' = "commit" /\ path' = path /\ out' = out /\ cur' = cur
      /\ offset' = offset /\ pairs' = pairs /\ fed' = fed /\ drafts' = drafts
    BY DEF Step, given
<1>2. PICK c \in Nat : c = n - 1
    OBVIOUS
<1>3. /\ GType /\ n < NTokens /\ c + 2 <= NTokens /\ Len(cache) = c /\ offset = c
      /\ cur = path[c + 1] /\ path[n] \notin Stops /\ NTokens \in Nat /\ KMax \in Nat \ {0}
      /\ c + 1 = n
    BY <1>0, <1>1, <1>2, Constants DEF GInv, GType, Placed
<1>4. /\ path \in [1 .. NTokens + KMax -> Tokens] /\ cache = Path(c)
      /\ drafts \in Seq(Tokens) /\ Len(drafts) < KMax /\ Len(drafts) \in Nat
    BY <1>3, LenProperties DEF GType
<1>5. PICK toks : toks = <<path[c + 1]>> \o drafts
    OBVIOUS
<1>6. /\ outs' \in {os \in [1 .. Len(toks) -> Tokens] :
                      \A i \in 1 .. Len(toks) : os[i] \in Answers(After(c, toks, i))}
      /\ snaps' = [i \in 1 .. Len(toks) |-> After(c, toks, i - 1)]
      /\ cache' = Rollback(snaps', After(c, toks, Len(toks)), Accepted(drafts, outs'))
    BY <1>3, <1>4, <1>5 DEF Step, After
<1>7. PICK os : os = outs'
    OBVIOUS
<1>8. PICK a \in 1 .. Len(drafts) + 1 : a = Accepted(drafts, os)
    BY <1>4, AcceptedRight
<1>9. /\ toks \in Seq(Tokens) /\ Len(toks) = Len(drafts) + 1
      /\ \A i \in 0 .. a : After(c, toks, i) = Path(c + i)
      /\ \A i \in 1 .. a : os[i] = path[c + 1 + i]
    <2>1. Answered(c, drafts, os, toks)
        BY <1>5, <1>6, <1>7 DEF Answered
    <2>2. c \in Nat /\ c + 2 <= NTokens /\ Len(drafts) < KMax /\ drafts \in Seq(Tokens)
        BY <1>3, <1>4
    <2>3. toks \in Seq(Tokens) /\ Len(toks) = Len(drafts) + 1
        BY <1>4, <2>1, <2>2, StepRight
    <2>4. \A i \in 0 .. Accepted(drafts, os) : After(c, toks, i) = Path(c + i)
        BY <1>4, <2>1, <2>2, StepRight
    <2>5. \A i \in 1 .. Accepted(drafts, os) : os[i] = path[c + 1 + i]
        BY <1>4, <2>1, <2>2, StepRight
    <2> QED BY <1>8, <2>3, <2>4, <2>5
<1>10. PICK K \in Nat : K = Len(toks) /\ K = Len(drafts) + 1 /\ a <= K /\ K <= KMax
    BY <1>3, <1>4, <1>8, <1>9
<1>11. Len(snaps') = K /\ \A i \in 1 .. K : i <= a + 1 => snaps'[i] = Path(c + i - 1)
    <2>1. snaps' = [i \in 1 .. K |-> After(c, toks, i - 1)]
        BY <1>6, <1>10
    <2>2. Len(snaps') = K
        BY <1>10, <2>1
    <2>3. ASSUME NEW i \in 1 .. K, i <= a + 1 PROVE snaps'[i] = Path(c + i - 1)
        <3>1. i - 1 \in 0 .. a /\ c + (i - 1) = c + i - 1
            BY <2>3
        <3> QED BY <1>9, <2>1, <3>1
    <2> QED BY <2>2, <2>3
<1>12. cache' = Path(c + a)
    <2>1. cache' = IF a < K THEN snaps'[a + 1] ELSE After(c, toks, K)
        BY <1>6, <1>7, <1>8, <1>10, <1>11 DEF Rollback
    <2>2. CASE a < K
        <3>1. a + 1 \in 1 .. K /\ a + 1 <= a + 1 /\ c + (a + 1) - 1 = c + a
            BY <1>8, <2>2
        <3> QED BY <1>11, <2>1, <2>2, <3>1
    <2>3. CASE ~(a < K)
        <3>1. a = K /\ a \in 0 .. a
            BY <1>8, <1>10, <2>3
        <3> QED BY <1>9, <2>1, <2>3, <3>1
    <2> QED BY <2>2, <2>3
<1>13. Len(cache') = c + a /\ c + a \in 0 .. NTokens + KMax - 1
    <2>1. c + a \in 0 .. NTokens + KMax - 1 /\ c + a \in 0 .. NTokens + KMax
        BY <1>3, <1>8, <1>10
    <2>2. Len(Path(c + a)) = c + a
        BY <1>4, <2>1, PathFacts
    <2> QED BY <1>12, <2>1, <2>2
<1>14. \A m : Path(m)' = Path(m) /\ Numbered(m)' = Numbered(m)
    BY <1>1 DEF Path, Numbered
<1>15. GType'
    BY <1>1, <1>3, <1>12, <1>13, <1>14 DEF GType
<1>16. Placed' /\ Over'
    BY <1>1 DEF Placed, Over
<1>17. Judged'
    <2>1. Accepted(drafts, outs)' = a
        BY <1>1, <1>7, <1>8 DEF Accepted
    <2>2. \A i \in 1 .. a : outs'[i] = path[c + 1 + i]
        BY <1>7, <1>9
    <2>3. a \in 1 .. KMax /\ 0 \in 0 .. a /\ Len(out) = c + 1 + 0
        BY <1>0, <1>3, <1>8, <1>10
    <2> QED BY <1>0, <1>1, <1>3, <1>10, <1>11, <1>13, <1>14, <2>1, <2>2, <2>3 DEF Judged
<1>18. Fed'
    BY <1>1, <1>14 DEF GInv, Fed
<1> QED BY <1>1, <1>15, <1>16, <1>17, <1>18 DEF GInv, Plain!vars

\* An accepted id is the path's next, and so is its pair; a stop id's cache
\* ends before it.
LEMMA CommitOneInv ==
    ASSUME GInv, CommitOne PROVE GInv' /\ Plain!Generate
<1>1. PICK n \in 1 .. NTokens : n = Len(out)
    BY DEF GInv, GType
<1>2. PICK a \in 1 .. KMax : a = Accepted(drafts, outs)
    BY DEF CommitOne, GInv, Judged
<1>3. /\ pc = "commit" /\ kept \in 0 .. a /\ kept < a /\ n < NTokens
      /\ offset \in Nat /\ offset + 2 <= NTokens /\ n = offset + 1 + kept
      /\ Len(cache) = offset + a /\ path[n] \notin Stops /\ Len(snaps) \in Nat /\ a <= Len(snaps)
      /\ \A i \in 1 .. a : outs[i] = path[offset + 1 + i]
      /\ \A i \in 1 .. Len(snaps) : i <= a + 1 => snaps[i] = Path(offset + i - 1)
    BY <1>1, <1>2 DEF CommitOne, GInv, Judged
<1>4. /\ GType /\ path \in [1 .. NTokens + KMax -> Tokens] /\ out = Path(n)
      /\ cache = Path(offset + a) /\ NTokens \in Nat \ {0} /\ KMax \in Nat \ {0}
    BY <1>1, <1>3, Constants DEF GInv, GType
<1>5. PICK i \in 1 .. a : i = kept + 1
    BY <1>3
<1>6. /\ i \in 1 .. Len(snaps) /\ i <= a + 1 /\ offset + i - 1 = n - 1 /\ offset + 1 + i = n + 1
      /\ n \in 0 .. NTokens + KMax /\ n - 1 \in 0 .. NTokens + KMax - 1
      /\ n \in 0 .. NTokens + KMax - 1 /\ n + 1 \in 0 .. NTokens + KMax
      /\ n < NTokens + KMax /\ n + 1 \in 1 .. NTokens
      /\ n - 1 \in 0 .. NTokens + KMax
    BY <1>3, <1>4, <1>5
<1>7. /\ outs[i] = path[n + 1] /\ Len(snaps[i]) = n - 1
    <2>1. Len(Path(n - 1)) = n - 1
        BY <1>4, <1>6, PathFacts
    <2> QED BY <1>3, <1>6, <2>1
<1>8. /\ pairs' = Append(pairs, <<n - 1, path[n + 1]>>) /\ out' = Append(out, path[n + 1])
      /\ kept' = i /\ path' = path /\ cur' = cur /\ offset' = offset /\ fed' = fed
      /\ drafts' = drafts /\ outs' = outs /\ snaps' = snaps
    BY <1>5, <1>7 DEF CommitOne, given, step
<1>9. \/ path[n + 1] \in Stops /\ pc' = "done" /\ cache' = Rollback(snaps, cache, i)
      \/ path[n + 1] \notin Stops /\ pc' = pc /\ cache' = cache
    BY <1>5, <1>7 DEF CommitOne
<1>10. out' = Path(n + 1) /\ Len(Path(n + 1)) = n + 1 /\ Len(Path(n)) = n /\ out[n] = path[n]
    <2>1. Append(Path(n), path[n + 1]) = Path(n + 1)
        BY <1>4, <1>6, PathFacts
    <2>2. Len(Path(n + 1)) = n + 1
        BY <1>4, <1>6, PathFacts
    <2>3. Len(Path(n)) = n /\ \A j \in 1 .. n : Path(n)[j] = path[j]
        BY <1>4, <1>6, PathFacts
    <2> QED BY <1>4, <1>8, <2>1, <2>2, <2>3
<1>11. \A m : Path(m)' = Path(m) /\ Numbered(m)' = Numbered(m)
    BY <1>8 DEF Path, Numbered
<1>12. PICK x : x = <<n - 1, path[n + 1]>>
    OBVIOUS
<1>13. x \in PairSet /\ Append(Numbered(n), x) = Numbered(n + 1)
    BY <1>4, <1>6, <1>12, NumberedAppend
<1>14. fed \in Seq(PairSet) /\ pairs \in Seq(PairSet) /\ pairs' = Append(pairs, x)
    BY <1>4, <1>8, <1>12 DEF GType
<1>15. Rollback(snaps, cache, i) = Path(n)
    <2>1. CASE i < Len(snaps)
        <3>1. i + 1 \in 1 .. Len(snaps) /\ i + 1 <= a + 1 /\ offset + (i + 1) - 1 = n
            BY <1>3, <1>5, <2>1
        <3> QED BY <1>3, <2>1, <3>1 DEF Rollback
    <2>2. CASE ~(i < Len(snaps))
        <3>1. i = a /\ offset + a = n
            BY <1>3, <1>5, <2>2
        <3> QED BY <1>4, <2>2, <3>1 DEF Rollback
    <2> QED BY <2>1, <2>2
<1>16. /\ cache' = Path(Len(cache')) /\ Len(cache') \in 0 .. NTokens + KMax - 1
    BY <1>4, <1>6, <1>9, <1>10, <1>15 DEF GType
<1>17. GType'
    <2>1. pairs' \in Seq(PairSet)
        BY <1>13, <1>14, AppendProperties
    <2>2. Len(out') \in 1 .. NTokens /\ out' = Path(Len(out'))
        BY <1>6, <1>10
    <2>3. pc' \in {"draft", "step", "commit", "done"}
        BY <1>3, <1>9
    <2> QED BY <1>4, <1>8, <1>11, <1>16, <2>1, <2>2, <2>3 DEF GType
<1>18. Placed'
    BY <1>3, <1>9 DEF Placed
<1>19. Judged'
    <2> SUFFICES ASSUME pc' = "commit" PROVE Judged'
        BY DEF Judged
    <2>1. path[n + 1] \notin Stops /\ cache' = cache
        BY <1>9
    <2>2. Accepted(drafts, outs)' = a
        BY <1>2, <1>8 DEF Accepted
    <2>3. kept' \in 0 .. a /\ Len(out') = offset + 1 + kept' /\ Len(out') = n + 1
        BY <1>5, <1>6, <1>8, <1>10
    <2> QED BY <1>3, <1>8, <1>11, <2>1, <2>2, <2>3 DEF Judged
<1>20. Over'
    <2> SUFFICES ASSUME pc' = "done" PROVE Len(out') - 1 <= Len(cache') /\ Len(cache') = Len(out') - 1
        BY DEF Over
    <2>1. cache' = Path(n) /\ Len(cache') = n
        BY <1>3, <1>9, <1>10, <1>15
    <2>2. Len(out') = n + 1
        BY <1>10
    <2> QED BY <2>1, <2>2
<1>21. Fed'
    <2> SUFFICES ASSUME KMax > 1 PROVE fed' \o pairs' = Numbered(n + 1)
        BY <1>10, <1>11 DEF Fed
    <2>1. fed \o pairs = Numbered(n)
        BY <1>1 DEF GInv, Fed
    <2>2. fed \o Append(pairs, x) = Append(fed \o pairs, x)
        BY <1>13, <1>14, AppendConcat
    <2> QED BY <1>8, <1>13, <1>14, <2>1, <2>2
<1>22. Plain!Generate
    <2>1. ~(n >= NTokens)
        BY <1>3, <1>4
    <2> QED BY <1>1, <1>3, <1>8, <1>10, <2>1 DEF Plain!Generate, Plain!Ended
<1> QED BY <1>17, <1>18, <1>19, <1>20, <1>21, <1>22 DEF GInv

\* A step past the number wanted leaves more of the path in the cache.
LEMMA OvershotInv ==
    ASSUME GInv, Overshot PROVE GInv' /\ UNCHANGED Plain!vars
<1>1. /\ pc = "commit" /\ pc' = "done" /\ path' = path /\ out' = out /\ cache' = cache
      /\ cur' = cur /\ offset' = offset /\ pairs' = pairs /\ fed' = fed /\ drafts' = drafts
      /\ outs' = outs /\ snaps' = snaps /\ kept' = kept
    BY DEF Overshot, given, step
<1>2. GType' /\ Fed'
    BY <1>1 DEF GInv, GType, Fed, Path, Numbered
<1>3. Placed' /\ Judged'
    BY <1>1 DEF Placed, Judged
<1>4. Over'
    <2>1. PICK a \in 1 .. KMax : a = Accepted(drafts, outs)
        BY <1>1 DEF GInv, Judged
    <2>2. /\ kept \in 0 .. a /\ offset \in Nat /\ Len(out) = offset + 1 + kept
          /\ Len(cache) = offset + a /\ path[Len(out)] \notin Stops
        BY <1>1, <2>1 DEF GInv, Judged
    <2>3. Len(out) - 1 <= Len(cache)
        BY <2>1, <2>2, Constants
    <2> QED BY <1>1, <2>2, <2>3 DEF Over
<1> QED BY <1>1, <1>2, <1>3, <1>4 DEF GInv, Plain!vars

\* Every accepted id handed out, the cache ends before the last.
LEMMA CommittedInv ==
    ASSUME GInv, Committed PROVE GInv' /\ UNCHANGED Plain!vars
<1>1. /\ pc = "commit" /\ kept = Accepted(drafts, outs) /\ offset' = offset + kept
      /\ cur' = outs[kept] /\ pairs' = (IF KMax = 1 THEN <<>> ELSE pairs) /\ pc' = "draft"
      /\ path' = path /\ out' = out /\ cache' = cache /\ fed' = fed /\ drafts' = drafts
      /\ outs' = outs /\ snaps' = snaps /\ kept' = kept
    BY DEF Committed, given, step
<1>2. /\ KMax \in Nat \ {0} /\ kept \in 1 .. KMax /\ offset \in Nat /\ Len(out) = offset + 1 + kept
      /\ Len(cache) = offset + kept /\ path[Len(out)] \notin Stops
      /\ \A i \in 1 .. kept : outs[i] = path[offset + 1 + i]
    BY <1>1, Constants DEF GInv, Judged
<1>3. GType'
    <2>1. pairs' \in Seq(PairSet)
        BY <1>1, EmptySeq DEF GInv, GType
    <2> QED BY <1>1, <2>1 DEF GInv, GType, Path
<1>4. Placed'
    <2>1. cur' = path[Len(out)]
        <3>1. kept \in 1 .. kept
            BY <1>2
        <3> QED BY <1>1, <1>2, <3>1
    <2>2. Len(cache) = Len(out) - 1 /\ offset + kept = Len(cache)
        BY <1>2
    <2> QED BY <1>1, <1>2, <2>1, <2>2 DEF Placed
<1>5. Judged' /\ Over'
    BY <1>1 DEF Judged, Over
<1>6. Fed'
    <2>1. KMax > 1 => pairs' = pairs
        BY <1>1, <1>2
    <2>2. Numbered(Len(out))' = Numbered(Len(out))
        BY <1>1 DEF Numbered
    <2> QED BY <1>1, <2>1, <2>2 DEF GInv, Fed
<1> QED BY <1>1, <1>3, <1>4, <1>5, <1>6 DEF GInv, Plain!vars

LEMMA GNextStep ==
    GInv /\ [Next]_vars => GInv' /\ [Plain!Generate]_(Plain!vars)
<1> SUFFICES ASSUME GInv, [Next]_vars
             PROVE  GInv' /\ [Plain!Generate]_(Plain!vars)
    OBVIOUS
<1>1. CASE Draft
    BY <1>1, DraftInv
<1>2. CASE PlainStep
    BY <1>2, PlainStepInv
<1>3. CASE Step
    BY <1>3, StepInv
<1>4. CASE CommitOne
    BY <1>4, CommitOneInv
<1>5. CASE Overshot
    BY <1>5, OvershotInv
<1>6. CASE Committed
    BY <1>6, CommittedInv
<1>7. CASE UNCHANGED vars
    <2>1. /\ path' = path /\ out' = out /\ cache' = cache /\ cur' = cur /\ offset' = offset
          /\ pairs' = pairs /\ fed' = fed /\ drafts' = drafts /\ outs' = outs /\ snaps' = snaps
          /\ kept' = kept /\ pc' = pc
        BY <1>7 DEF vars, given, step
    <2>2. GType' /\ Placed' /\ Over' /\ Fed'
        BY <2>1 DEF GInv, GType, Placed, Over, Fed, Path, Numbered
    <2>3. Accepted(drafts, outs)' = Accepted(drafts, outs) /\ \A m : Path(m)' = Path(m)
        BY <2>1 DEF Accepted, Path
    <2>4. Judged'
        BY <2>1, <2>3 DEF GInv, Judged
    <2> QED BY <2>1, <2>2, <2>4 DEF GInv, Plain!vars
<1> QED BY <1>1, <1>2, <1>3, <1>4, <1>5, <1>6, <1>7 DEF Next

-----------------------------------------------------------------------------
(* The theorems.                                                           *)

\* The cache is a prefix of the greedy path in every state, and where it ends
\* is known in each (generate, and rollback in pipeline.py).
THEOREM OnThePath == Spec => []GInv
<1>1. Init => GInv
    BY GInitInv
<1>2. GInv /\ [Next]_vars => GInv'
    BY GNextStep
<1> QED BY <1>1, <1>2, PTL DEF Spec

\* Between steps the cache ends before the last id, where the loop's offset
\* says; at a stop id it ends before that, and it never holds an id off the
\* greedy path (generate: "the cache ends before the stop id").
THEOREM CacheAlwaysFollows == Spec => []CacheFollows
<1>1. GInv => CacheFollows
    <2> SUFFICES ASSUME GInv PROVE CacheFollows
        OBVIOUS
    <2>1. PICK n \in 1 .. NTokens : n = Len(out)
        BY DEF GInv, GType
    <2>2. PICK c \in 0 .. NTokens + KMax - 1 : c = Len(cache)
        BY DEF GInv, GType
    <2>3. /\ path \in [1 .. NTokens + KMax -> Tokens] /\ out = Path(n) /\ cache = Path(c)
          /\ NTokens \in Nat \ {0} /\ KMax \in Nat \ {0}
        BY <2>1, <2>2, Constants DEF GInv, GType
    <2>4. /\ n \in 0 .. NTokens + KMax /\ c \in 0 .. NTokens + KMax
          /\ n - 1 \in 0 .. n /\ n \in 1 .. n
        BY <2>1, <2>2, <2>3
    <2>5. Front(out) = Path(n - 1) /\ Last(out) = path[n]
        <3>1. SubSeq(Path(n), 1, n - 1) = Path(n - 1) /\ Path(n)[n] = path[n]
            BY <2>3, <2>4, PathFacts
        <3> QED BY <2>1, <2>3, <3>1 DEF Front, Last
    <2>6. OnPath(cache)
        BY <2>3, <2>4, PathFacts
    <2>7. CacheInPlace
        BY <2>1, <2>2, <2>3, <2>5 DEF CacheInPlace, GInv, Placed
    <2>8. CacheEnds
        <3> SUFFICES ASSUME pc = "done"
                     PROVE  /\ Last(out) \in Stops => cache = Front(out)
                            /\ IsPrefix(Front(out), cache)
            BY <2>6 DEF CacheEnds
        <3>1. n - 1 <= c /\ (path[n] \in Stops => c = n - 1)
            BY <2>1, <2>2 DEF GInv, Over
        <3>2. n - 1 \in 0 .. c /\ n - 1 \in 0 .. NTokens + KMax
            BY <2>1, <2>2, <2>3, <3>1
        <3>3. SubSeq(Path(c), 1, n - 1) = Path(n - 1)
            BY <2>3, <2>4, <3>2, PathFacts
        <3>4. Len(Path(n - 1)) = n - 1 /\ SubSeq(Path(n - 1), 1, n - 1) = Path(n - 1)
            <4>1. n - 1 \in 0 .. n - 1
                BY <3>2
            <4> QED BY <2>3, <3>2, <4>1, PathFacts
        <3>5. IsPrefix(Front(out), cache)
            BY <2>2, <2>3, <2>5, <3>1, <3>3, <3>4 DEF IsPrefix
        <3> QED BY <2>3, <2>5, <3>1, <3>5
    <2> QED BY <2>7, <2>8 DEF CacheFollows
<1>2. Spec => []GInv
    BY OnThePath
<1> QED BY <1>1, <1>2, PTL

\* The head gets every committed pair once, in order, each hidden with the id
\* that followed it (generate, draft: "accepted pairs since the previous
\* call, oldest first").
THEOREM FedAlwaysInOrder == Spec => []FedInOrder
<1>1. GInv => FedInOrder
    <2> SUFFICES ASSUME GInv, KMax > 1, NEW i \in 1 .. Len(fed) + Len(pairs)
                 PROVE  (fed \o pairs)[i] = <<i - 2, path[i]>>
        BY DEF FedInOrder
    <2>1. fed \o pairs = Numbered(Len(out)) /\ fed \in Seq(PairSet) /\ pairs \in Seq(PairSet)
          /\ Len(out) \in Nat
        BY Constants DEF GInv, GType, Fed
    <2>2. Len(fed \o pairs) = Len(fed) + Len(pairs)
        BY <2>1, ConcatProperties
    <2>3. Len(Numbered(Len(out))) = Len(out)
        BY <2>1 DEF Numbered
    <2> QED BY <2>1, <2>2, <2>3 DEF Numbered
<1>2. Spec => []GInv
    BY OnThePath
<1> QED BY <1>1, <1>2, PTL

\* Every step of the loop is a step of a plain greedy loop or none of its
\* doing: the ids handed out are never others (generate: "exactly like a
\* plain greedy loop").
THEOREM StepsAsPlain ==
    Spec => Plain!Init /\ [][Plain!Generate]_(Plain!vars)
<1>1. Init => Plain!Init
    BY GInitInv
<1>2. GInv /\ [Next]_vars => [Plain!Generate]_(Plain!vars)
    BY GNextStep
<1>3. Spec => []GInv
    BY OnThePath
<1> QED BY <1>1, <1>2, <1>3, PTL DEF Spec

-----------------------------------------------------------------------------
(* The head.  Its context is the cache and what waits to go in, or what a  *)
(* chain in progress will be undone to; it ends with the committed pairs.  *)
Numbers == Nat \ {0}
Ends(t, n, s) == s <= Len(t) /\ \A j \in 0 .. s - 1 : t[Len(t) - j] = n - j
Context == IF chain = 0 THEN dcache \o waiting ELSE snap

\* How far back a layer sees after n pairs.
Seen(n) == IF dkind = "vlm" /\ keep # 0 /\ keep < n THEN keep ELSE n

HInv ==
    /\ dkind \in {"mtp", "vlm"} /\ keep \in Nat /\ committed \in Nat /\ chain \in Nat
    /\ dcache \in Seq(Nat) /\ waiting \in Seq(Numbers)
    /\ chain = 0 => dcache \in Seq(Numbers)
    /\ Context \in Seq(Numbers) /\ Ends(Context, committed, Seen(committed))
    /\ Len(waiting) <= committed /\ (keep # 0 => Len(waiting) <= keep)
    /\ dkind = "mtp" => waiting = <<>>
    /\ dkind = "vlm" => chain = 0

\* The pairs committed next.
LEMMA NewPairs ==
    ASSUME committed \in Nat, NEW k \in Numbers
    PROVE  /\ Drafter!New(k) \in Seq(Numbers) /\ Len(Drafter!New(k)) = k
           /\ \A i \in 1 .. k : Drafter!New(k)[i] = committed + i
<1> DEFINE w == [i \in 1 .. k |-> committed + i]
<1>1. w \in Seq(Numbers)
    <2>1. \A i \in 1 .. k : committed + i \in Numbers
        BY DEF Numbers
    <2> QED BY <2>1, IsASeq DEF Numbers
<1>2. DOMAIN w = 1 .. k /\ k \in Nat
    BY DEF Numbers
<1>3. Len(w) = k
    BY <1>1, <1>2, LenProperties
<1> QED BY <1>1, <1>3 DEF Drafter!New

\* A context that ends with n pairs ends with more when k go in.
LEMMA EndsMore ==
    ASSUME NEW c \in Seq(Numbers), NEW s \in Nat, committed \in Nat, Ends(c, committed, s),
           NEW k \in Numbers, NEW r \in Nat, r <= s + k
    PROVE  /\ c \o Drafter!New(k) \in Seq(Numbers)
           /\ Len(c \o Drafter!New(k)) = Len(c) + k
           /\ Ends(c \o Drafter!New(k), committed + k, r)
<1>1. PICK w : w = Drafter!New(k)
    OBVIOUS
<1>2. /\ w \in Seq(Numbers) /\ Len(w) = k /\ \A i \in 1 .. k : w[i] = committed + i
    BY <1>1, NewPairs
<1>3. PICK u : u = c \o w
    OBVIOUS
<1>4. /\ u \in Seq(Numbers) /\ Len(c) \in Nat /\ Len(u) = Len(c) + k
      /\ \A i \in 1 .. Len(c) + k : u[i] = IF i <= Len(c) THEN c[i] ELSE w[i - Len(c)]
    BY <1>2, <1>3, ConcatProperties, LenProperties
<1>5. s <= Len(c) /\ \A j \in 0 .. s - 1 : c[Len(c) - j] = committed - j
    BY DEF Ends
<1>6. ASSUME NEW j \in 0 .. r - 1 PROVE u[Len(u) - j] = committed + k - j
    <2>1. CASE j < k
        <3>1. Len(u) - j \in 1 .. Len(c) + k /\ ~(Len(u) - j <= Len(c)) /\ Len(u) - j - Len(c) = k - j
            BY <1>4, <2>1 DEF Numbers
        <3>2. w[k - j] = committed + (k - j)
            BY <1>2, <2>1 DEF Numbers
        <3> QED BY <1>4, <3>1, <3>2 DEF Numbers
    <2>2. CASE j >= k
        <3>1. j - k \in 0 .. s - 1 /\ Len(u) - j = Len(c) - (j - k)
            BY <1>4, <2>2 DEF Numbers
        <3>2. Len(u) - j \in 1 .. Len(c)
            BY <1>4, <1>5, <3>1
        <3>3. u[Len(u) - j] = c[Len(u) - j]
            BY <1>4, <3>2 DEF Numbers
        <3>4. c[Len(c) - (j - k)] = committed - (j - k)
            BY <1>5, <3>1
        <3> QED BY <3>1, <3>3, <3>4 DEF Numbers
    <2> QED BY <2>1, <2>2 DEF Numbers
<1>7. r <= Len(u)
    BY <1>4, <1>5 DEF Numbers
<1>8. Ends(u, committed + k, r)
    BY <1>2, <1>4, <1>6, <1>7 DEF Ends, Numbers
<1> QED BY <1>1, <1>3, <1>4, <1>8

\* A context cut to a window still ends with as much as a layer sees.
LEMMA EndsInWindow ==
    ASSUME NEW c \in Seq(Numbers), NEW w \in Seq(Numbers), NEW n \in Nat, NEW q \in Numbers,
           NEW r \in Nat, r <= q, Ends(c \o w, n, r)
    PROVE  /\ Drafter!LastOf(w, q) \in Seq(Numbers)
           /\ Len(Drafter!LastOf(w, q)) <= q /\ Len(Drafter!LastOf(w, q)) <= Len(w)
           /\ Ends(c \o Drafter!LastOf(w, q), n, r)
<1>1. Len(c) \in Nat /\ Len(w) \in Nat /\ \A i \in 1 .. Len(w) : w[i] \in Numbers
    BY LenProperties, ElementOfSeq
<1>2. CASE Len(w) <= q
    BY <1>1, <1>2 DEF Drafter!LastOf
<1>3. CASE ~(Len(w) <= q)
    <2>1. PICK d : d = Len(w) - q
        OBVIOUS
    <2>2. d \in Nat /\ d + 1 \in Int /\ Len(w) - d = q /\ q \in Nat
        BY <1>1, <1>3, <2>1 DEF Numbers
    <2>3. PICK v : v = SubSeq(w, d + 1, Len(w))
        OBVIOUS
    <2>4. Drafter!LastOf(w, q) = v
        BY <1>3, <2>1, <2>3 DEF Drafter!LastOf
    <2>5. /\ v \in Seq(Numbers) /\ Len(v) = q
          /\ \A i \in 1 .. q : v[i] = w[d + i]
        <3>1. \A i \in d + 1 .. Len(w) : w[i] \in Numbers
            BY <1>1, <2>2
        <3>2. /\ v \in Seq(Numbers)
              /\ Len(v) = IF d + 1 <= Len(w) THEN Len(w) - (d + 1) + 1 ELSE 0
              /\ \A i \in 1 .. Len(w) - (d + 1) + 1 : v[i] = w[d + 1 + i - 1]
            BY <1>1, <2>2, <2>3, <3>1, SubSeqProperties
        <3>3. Len(w) - (d + 1) + 1 = q /\ d + 1 <= Len(w)
            BY <1>1, <2>2 DEF Numbers
        <3> QED BY <2>2, <3>2, <3>3
    <2>6. PICK u : u = c \o w
        OBVIOUS
    <2>7. PICK t : t = c \o v
        OBVIOUS
    <2>8. /\ Len(u) = Len(c) + Len(w)
          /\ \A i \in 1 .. Len(c) + Len(w) : u[i] = IF i <= Len(c) THEN c[i] ELSE w[i - Len(c)]
        BY <2>6, ConcatProperties
    <2>9. /\ Len(t) = Len(c) + q
          /\ \A i \in 1 .. Len(c) + q : t[i] = IF i <= Len(c) THEN c[i] ELSE v[i - Len(c)]
        BY <2>5, <2>7, ConcatProperties
    <2>10. \A j \in 0 .. r - 1 : u[Len(u) - j] = n - j
        BY <2>6 DEF Ends
    <2>11. ASSUME NEW j \in 0 .. r - 1 PROVE t[Len(t) - j] = n - j
        <3>1. q - j \in 1 .. q /\ d + (q - j) = Len(w) - j
            BY <1>1, <2>1, <2>2
        <3>2. t[Len(t) - j] = v[q - j]
            <4>1. /\ Len(t) - j \in 1 .. Len(c) + q /\ ~(Len(t) - j <= Len(c))
                  /\ Len(t) - j - Len(c) = q - j
                BY <1>1, <2>2, <2>9, <3>1
            <4> QED BY <2>9, <4>1
        <3>3. v[q - j] = w[Len(w) - j]
            BY <2>5, <3>1
        <3>4. u[Len(u) - j] = w[Len(w) - j]
            <4>1. /\ Len(u) - j \in 1 .. Len(c) + Len(w) /\ ~(Len(u) - j <= Len(c))
                  /\ Len(u) - j - Len(c) = Len(w) - j
                BY <1>1, <2>2, <2>8, <3>1
            <4> QED BY <2>8, <4>1
        <3> QED BY <2>10, <3>2, <3>3, <3>4
    <2>12. r <= Len(t)
        BY <1>1, <2>2, <2>9
    <2>13. Ends(t, n, r)
        BY <2>11, <2>12 DEF Ends
    <2>14. q <= Len(w) /\ Len(v) <= q
        BY <1>1, <1>3, <2>2, <2>5
    <2> QED BY <2>4, <2>5, <2>7, <2>13, <2>14
<1> QED BY <1>2, <1>3

LEMMA SeenMore ==
    ASSUME committed \in Nat, keep \in Nat, NEW k \in Numbers
    PROVE  /\ Seen(committed) \in Nat /\ Seen(committed + k) \in Nat
           /\ Seen(committed + k) <= Seen(committed) + k
           /\ dkind = "vlm" /\ keep # 0 => Seen(committed + k) <= keep
BY DEF Seen, Numbers

LEMMA HInitInv == ASSUME Keeps \subseteq Nat, Drafter!Init PROVE HInv
<1>1. /\ dkind \in {"mtp", "vlm"} /\ keep \in Nat /\ committed = 0 /\ chain = 0
      /\ dcache = <<>> /\ waiting = <<>>
    BY DEF Drafter!Init
<1>2. \A S : <<>> \in Seq(S)
    BY EmptySeq
<1>3. Len(<<>>) = 0 /\ <<>> \o <<>> = <<>>
    BY EmptySeq, <1>2, ConcatEmptySeq
<1>4. Seen(0) = 0
    BY <1>1 DEF Seen
<1> QED BY <1>1, <1>2, <1>3, <1>4 DEF HInv, Context, Ends

\* While nothing is drafted, k pairs committed that go into the context, in
\* the cache or waiting, leave it in order.
LEMMA PairsGoIn ==
    ASSUME HInv, chain = 0, NEW k \in Numbers, committed' = committed + k,
           UNCHANGED <<dkind, keep>>, chain' \in Nat, dkind = "vlm" => chain' = 0,
           dcache' \in Seq(Numbers), waiting' \in Seq(Numbers), Context' \in Seq(Numbers),
           Ends(Context', committed + k, Seen(committed + k)),
           Len(waiting') <= committed + k, keep # 0 => Len(waiting') <= keep,
           dkind = "mtp" => waiting' = <<>>
    PROVE  HInv'
<1>1. /\ dkind' \in {"mtp", "vlm"} /\ keep' \in Nat /\ committed' \in Nat /\ chain' \in Nat
      /\ dkind' = dkind /\ keep' = keep /\ committed' = committed + k
    BY DEF HInv, Numbers
<1>2. dcache' \in Seq(Nat)
    <2>1. Len(dcache') \in Nat /\ \A i \in 1 .. Len(dcache') : dcache'[i] \in Nat
        BY LenProperties, ElementOfSeq DEF Numbers
    <2>2. DOMAIN dcache' = 1 .. Len(dcache') /\ dcache' = [i \in 1 .. Len(dcache') |-> dcache'[i]]
        BY LenProperties
    <2> QED BY <2>1, <2>2, IsASeq
<1>3. Seen(committed + k) = Seen(committed)'
    BY <1>1 DEF Seen
<1>4. Ends(Context', committed', Seen(committed)')
    BY <1>1, <1>3
<1>5. dcache' \in Seq(Nat) /\ waiting' \in Seq(Numbers)
      /\ (chain' = 0 => dcache' \in Seq(Numbers))
    BY <1>2
<1>6. Len(waiting') <= committed' /\ (keep' # 0 => Len(waiting') <= keep')
    BY <1>1
<1>7. (dkind' = "mtp" => waiting' = <<>>) /\ (dkind' = "vlm" => chain' = 0)
    BY <1>1
<1>8. Context' \in Seq(Numbers) /\ Ends(Context, committed, Seen(committed))'
    BY <1>4 DEF Ends
<1> QED BY <1>1, <1>5, <1>6, <1>7, <1>8 DEF HInv

LEMMA HPrime ==
    ASSUME HInv, NEW k \in Numbers, Drafter!Prime(k)
    PROVE  HInv'
<1>1. /\ chain = 0 /\ committed' = committed + k /\ UNCHANGED <<dkind, keep, snap, chain>>
      /\ \/ dkind = "mtp" /\ dcache' = dcache \o Drafter!New(k) /\ UNCHANGED waiting
         \/ /\ dkind = "vlm" /\ waiting' = Drafter!Window(waiting, Drafter!New(k))
            /\ UNCHANGED dcache
    BY DEF Drafter!Prime
<1>2. /\ dkind \in {"mtp", "vlm"} /\ keep \in Nat /\ committed \in Nat /\ chain \in Nat
      /\ dcache \in Seq(Numbers) /\ waiting \in Seq(Numbers)
      /\ dcache \o waiting \in Seq(Numbers)
      /\ Ends(dcache \o waiting, committed, Seen(committed))
      /\ Len(waiting) <= committed /\ (keep # 0 => Len(waiting) <= keep)
      /\ dkind = "mtp" => waiting = <<>>
    BY <1>1 DEF HInv, Context
<1>3. Context' = dcache' \o waiting'
    BY <1>1 DEF Context
<1>4. /\ Drafter!New(k) \in Seq(Numbers) /\ Len(Drafter!New(k)) = k
    BY <1>2, NewPairs
<1>5. /\ Seen(committed) \in Nat /\ Seen(committed + k) \in Nat
      /\ Seen(committed + k) <= Seen(committed) + k
      /\ dkind = "vlm" /\ keep # 0 => Seen(committed + k) <= keep
    BY <1>2, SeenMore
<1>6. CASE dkind = "mtp"
    <2>1. dcache' = dcache \o Drafter!New(k) /\ waiting = <<>> /\ waiting' = <<>>
        BY <1>1, <1>2, <1>6
    <2>2. dcache \o waiting = dcache
        BY <1>2, <2>1, ConcatEmptySeq
    <2>3. Ends(dcache, committed, Seen(committed))
        BY <1>2, <2>2
    <2>4. /\ dcache' \in Seq(Numbers)
          /\ Ends(dcache', committed + k, Seen(committed + k))
        BY <1>2, <1>5, <2>1, <2>3, EndsMore
    <2>5. Context' = dcache'
        BY <1>3, <2>1, <2>4, ConcatEmptySeq
    <2>6. waiting' \in Seq(Numbers) /\ Len(waiting') = 0
        BY <2>1, EmptySeq
    <2>7. Len(waiting') <= committed + k /\ (keep # 0 => Len(waiting') <= keep)
        BY <1>2, <2>6 DEF Numbers
    <2> QED BY <1>1, <1>2, <2>1, <2>4, <2>5, <2>6, <2>7, PairsGoIn
<1>7. CASE dkind = "vlm"
    <2>1. PICK w : w = waiting \o Drafter!New(k)
        OBVIOUS
    <2> PICK v : v = Drafter!New(k)
        OBVIOUS
    <2>2. w \in Seq(Numbers) /\ Len(w) = Len(waiting) + k
        <3>1. v \in Seq(Numbers) /\ Len(v) = k /\ w = waiting \o v
            BY <1>4, <2>1
        <3> QED BY <1>2, <3>1, ConcatProperties
    <2>3. dcache \o w = (dcache \o waiting) \o Drafter!New(k)
        <3>1. v \in Seq(Numbers) /\ w = waiting \o v
            BY <1>4, <2>1
        <3> QED BY <1>2, <3>1, ConcatAssociative
    <2>4. dcache \o w \in Seq(Numbers) /\ Ends(dcache \o w, committed + k, Seen(committed + k))
        BY <1>2, <1>5, <2>3, EndsMore
    <2>5. Len(w) <= committed + k /\ committed + k \in Nat
        BY <1>2, <2>2, LenProperties DEF Numbers
    <2>6. dcache' = dcache
          /\ waiting' = (IF keep = 0 THEN w ELSE Drafter!LastOf(w, keep))
        BY <1>1, <1>7, <2>1 DEF Drafter!Window
    <2>7. /\ waiting' \in Seq(Numbers) /\ Len(waiting') <= committed + k
          /\ (keep # 0 => Len(waiting') <= keep)
          /\ Ends(dcache \o waiting', committed + k, Seen(committed + k))
        <3>1. CASE keep = 0
            BY <2>2, <2>4, <2>5, <2>6, <3>1
        <3>2. CASE keep # 0
            <4>1. keep \in Numbers /\ Seen(committed + k) <= keep
                BY <1>2, <1>5, <1>7, <3>2 DEF Numbers
            <4>2. /\ waiting' \in Seq(Numbers) /\ Len(waiting') <= keep
                  /\ Len(waiting') <= Len(w)
                  /\ Ends(dcache \o waiting', committed + k, Seen(committed + k))
                BY <1>2, <1>5, <2>2, <2>4, <2>5, <2>6, <3>2, <4>1, EndsInWindow
            <4>3. Len(waiting') \in Nat /\ Len(w) \in Nat
                BY <2>2, <4>2, LenProperties
            <4>4. Len(waiting') <= committed + k
                BY <2>5, <4>2, <4>3
            <4> QED BY <4>2, <4>4
        <3> QED BY <3>1, <3>2
    <2>8. Context' \in Seq(Numbers)
        BY <1>2, <1>3, <2>6, <2>7, ConcatProperties
    <2> QED BY <1>1, <1>2, <1>3, <1>7, <2>6, <2>7, <2>8, PairsGoIn
<1> QED BY <1>2, <1>6, <1>7

LEMMA HDraftChain ==
    ASSUME HInv, NEW k \in Numbers, NEW depth \in Numbers, Drafter!DraftChain(k, depth)
    PROVE  HInv'
<1> PICK v : v = Drafter!New(k)
    OBVIOUS
<1>1. /\ dkind = "mtp" /\ chain = 0 /\ committed' = committed + k
      /\ dcache' = dcache \o v /\ snap' = dcache \o v
      /\ chain' = depth /\ UNCHANGED <<dkind, keep, waiting>>
    BY DEF Drafter!DraftChain, Drafter!Snapshot
<1>2. /\ keep \in Nat /\ committed \in Nat /\ dcache \in Seq(Numbers) /\ waiting = <<>>
      /\ Ends(dcache \o waiting, committed, Seen(committed))
      /\ Len(waiting) <= committed /\ (keep # 0 => Len(waiting) <= keep)
    BY <1>1 DEF HInv, Context
<1>3. Seen(committed) \in Nat /\ Seen(committed + k) \in Nat
      /\ Seen(committed + k) <= Seen(committed) + k
    BY <1>2, SeenMore
<1>4. dcache \o waiting = dcache
    BY <1>2, ConcatEmptySeq
<1>5. dcache' \in Seq(Numbers) /\ Ends(dcache', committed + k, Seen(committed + k))
    BY <1>1, <1>2, <1>3, <1>4, EndsMore
<1>6. depth # 0 /\ chain' \in Nat
    BY <1>1 DEF Numbers
<1>7. Context' = dcache'
    BY <1>1, <1>6 DEF Context
<1>8. waiting' = <<>> /\ waiting' \in Seq(Numbers) /\ Len(waiting') = 0
    BY <1>1, <1>2, EmptySeq
<1>9. Len(waiting') <= committed + k /\ (keep # 0 => Len(waiting') <= keep)
    BY <1>2, <1>8 DEF Numbers
<1> QED BY <1>1, <1>5, <1>6, <1>7, <1>8, <1>9, PairsGoIn

LEMMA HDraftBlock ==
    ASSUME HInv, NEW k \in Numbers, Drafter!DraftBlock(k)
    PROVE  HInv'
<1> PICK v : v = Drafter!New(k)
    OBVIOUS
<1>1. /\ dkind = "vlm" /\ committed' = committed + k /\ waiting' = <<>>
      /\ dcache' = (dcache \o waiting) \o v /\ UNCHANGED <<dkind, keep, chain>>
    BY DEF Drafter!DraftBlock
<1>2. /\ keep \in Nat /\ committed \in Nat /\ chain = 0 /\ dcache \o waiting \in Seq(Numbers)
      /\ Ends(dcache \o waiting, committed, Seen(committed))
    BY <1>1 DEF HInv, Context
<1>3. Seen(committed) \in Nat /\ Seen(committed + k) \in Nat
      /\ Seen(committed + k) <= Seen(committed) + k
    BY <1>2, SeenMore
<1>4. dcache' \in Seq(Numbers) /\ Ends(dcache', committed + k, Seen(committed + k))
    BY <1>1, <1>2, <1>3, EndsMore
<1>5. Context' = dcache'
    <2>1. Context' = dcache' \o waiting'
        BY <1>1, <1>2 DEF Context
    <2> QED BY <1>1, <1>4, <2>1, ConcatEmptySeq
<1>6. waiting' \in Seq(Numbers) /\ Len(waiting') = 0
    BY <1>1, EmptySeq
<1>7. Len(waiting') <= committed + k /\ (keep # 0 => Len(waiting') <= keep)
    BY <1>2, <1>6 DEF Numbers
<1>8. chain' = 0 /\ chain' \in Nat
    BY <1>1, <1>2
<1> QED BY <1>1, <1>2, <1>4, <1>5, <1>6, <1>7, <1>8, PairsGoIn

\* The chain's own ids come and go while the snapshot stands for the context.
LEMMA HChain ==
    ASSUME HInv, Drafter!ChainOn \/ Drafter!ChainEnd
    PROVE  HInv'
<1>1. CASE Drafter!ChainOn
    <2>1. /\ chain > 1 /\ chain' = chain - 1 /\ dcache' = Append(dcache, 0)
          /\ UNCHANGED <<dkind, keep, waiting, snap, committed>> /\ chain \in Nat
        BY <1>1 DEF Drafter!ChainOn, HInv
    <2>2. chain # 0 /\ chain' # 0 /\ chain' \in Nat
        BY <2>1
    <2>3. dcache' \in Seq(Nat)
        <3>1. dcache \in Seq(Nat) /\ 0 \in Nat
            BY DEF HInv
        <3> QED BY <2>1, <3>1, AppendProperties
    <2>4. Context' = Context /\ Seen(committed)' = Seen(committed)
        BY <2>1, <2>2 DEF Context, Seen
    <2>5. Ends(Context, committed, Seen(committed))' <=> Ends(Context, committed, Seen(committed))
        BY <2>1, <2>4 DEF Ends
    <2> QED BY <2>1, <2>2, <2>3, <2>4, <2>5 DEF HInv
<1>2. CASE Drafter!ChainEnd
    <2>1. /\ chain = 1 /\ chain' = 0 /\ dcache' = snap
          /\ UNCHANGED <<dkind, keep, waiting, committed>>
        BY <1>2 DEF Drafter!ChainEnd
    <2>2. Context = snap /\ snap \in Seq(Numbers) /\ waiting = <<>>
        BY <2>1 DEF HInv, Context
    <2>3. Context' = Context
        <3>1. Context' = snap \o <<>>
            BY <2>1, <2>2 DEF Context
        <3> QED BY <2>2, <3>1, ConcatEmptySeq
    <2>4. dcache' \in Seq(Nat)
        <3>1. /\ Len(snap) \in Nat /\ DOMAIN snap = 1 .. Len(snap)
              /\ \A j \in 1 .. Len(snap) : snap[j] \in Nat
            BY <2>2, LenProperties, ElementOfSeq DEF Numbers
        <3>2. snap = [j \in 1 .. Len(snap) |-> snap[j]]
            BY <2>2, <3>1, LenProperties
        <3> QED BY <2>1, <3>1, <3>2, IsASeq
    <2>5. Seen(committed)' = Seen(committed)
        BY <2>1 DEF Seen
    <2>6. Ends(Context, committed, Seen(committed))' <=> Ends(Context, committed, Seen(committed))
        BY <2>1, <2>3, <2>5 DEF Ends
    <2>7. dkind = "mtp" /\ dkind' = "mtp"
        BY <2>1 DEF HInv
    <2> QED BY <2>1, <2>2, <2>3, <2>4, <2>5, <2>6, <2>7 DEF HInv
<1> QED BY <1>1, <1>2

LEMMA HReset ==
    ASSUME HInv, Drafter!Reset
    PROVE  HInv'
<1>1. /\ chain' = 0 /\ dcache' = <<>> /\ waiting' = <<>> /\ committed' = 0
      /\ UNCHANGED <<dkind, keep>>
    BY DEF Drafter!Reset
<1>2. \A S : <<>> \in Seq(S)
    BY EmptySeq
<1>3. Len(<<>>) = 0 /\ <<>> \o <<>> = <<>>
    BY EmptySeq, <1>2, ConcatEmptySeq
<1>4. Context' = <<>> /\ Seen(committed)' = 0
    <2>1. keep \in Nat
        BY DEF HInv
    <2> QED BY <1>1, <1>3, <2>1 DEF Context, Seen
<1>5. Ends(Context, committed, Seen(committed))'
    BY <1>1, <1>3, <1>4 DEF Ends
<1> QED BY <1>1, <1>2, <1>3, <1>4, <1>5 DEF HInv

\* The head's context is what was committed, whatever was drafted in between,
\* and a windowed head keeps no more waiting than a layer sees
\* (pipeline_adapters.py, _MtpDrafter and VlmDrafter).
THEOREM HeadContextAlways == PartsSpec => []HeadContext
<1> DEFINE Inv == part = "head" => HInv
<1>0. Drafter!DraftHeadAssumption
    BY PartsAssumption
<1>1. PartsInit => Inv
    BY <1>0, HInitInv DEF Drafter!DraftHeadAssumption, PartsInit
<1>2. Inv /\ [PartsNext]_<<part, vars, headVars, sampleVars, gateVars>> => Inv'
    <2> SUFFICES ASSUME Inv, [PartsNext]_<<part, vars, headVars, sampleVars, gateVars>>,
                        part' = "head"
                 PROVE  HInv'
        OBVIOUS
    <2>0. part = "head" /\ HInv /\ (Drafter!Next \/ UNCHANGED headVars)
        BY DEF PartsNext
    <2>1. \A k \in 1 .. MaxPairs : k \in Numbers
        BY <1>0 DEF Numbers, Drafter!DraftHeadAssumption
    <2>2. \A depth \in 1 .. Depth : depth \in Numbers
        BY <1>0 DEF Numbers, Drafter!DraftHeadAssumption
    <2>3. CASE Drafter!Reset
        BY <2>0, <2>3, HReset
    <2>4. ASSUME NEW k \in 1 .. MaxPairs, Drafter!Prime(k) PROVE HInv'
        BY <2>0, <2>1, <2>4, HPrime
    <2>5. ASSUME NEW k \in 1 .. MaxPairs, NEW depth \in 1 .. Depth,
                 Drafter!DraftChain(k, depth)
          PROVE  HInv'
        BY <2>0, <2>1, <2>2, <2>5, HDraftChain
    <2>6. ASSUME NEW k \in 1 .. MaxPairs, Drafter!DraftBlock(k) PROVE HInv'
        BY <2>0, <2>1, <2>6, HDraftBlock
    <2>7. CASE Drafter!ChainOn \/ Drafter!ChainEnd
        BY <2>0, <2>7, HChain
    <2>8. CASE UNCHANGED headVars
        <3>1. UNCHANGED <<dkind, keep, dcache, waiting, snap, chain, committed>>
            BY <2>8 DEF headVars
        <3> QED BY <2>0, <3>1 DEF HInv, Context, Seen, Ends
    <2> QED BY <2>0, <2>3, <2>4, <2>5, <2>6, <2>7, <2>8 DEF Drafter!Next
<1>3. HInv => Drafter!HeadContext
    <2> SUFFICES ASSUME HInv PROVE Drafter!ContextExact /\ Drafter!WaitingBounded
        BY DEF Drafter!HeadContext
    <2>1. ASSUME chain = 0
          PROVE  LET context == dcache \o waiting
                 IN  /\ Drafter!LastOf(context, Seen(committed))
                            = [i \in 1 .. Seen(committed) |-> committed - Seen(committed) + i]
                     /\ \A i \in DOMAIN context : context[i] # 0
        <3>1. PICK c : c = dcache \o waiting
            OBVIOUS
        <3>2. PICK s : s = Seen(committed)
            OBVIOUS
        <3>3. /\ c \in Seq(Numbers) /\ Ends(c, committed, s) /\ committed \in Nat
              /\ s \in Nat
            BY <2>1, <3>1, <3>2 DEF HInv, Context, Seen
        <3>4. Len(c) \in Nat /\ DOMAIN c = 1 .. Len(c) /\ \A i \in 1 .. Len(c) : c[i] \in Numbers
            BY <3>3, LenProperties, ElementOfSeq
        <3>5. s <= Len(c) /\ \A j \in 0 .. s - 1 : c[Len(c) - j] = committed - j
            BY <3>3 DEF Ends
        <3>6. Drafter!LastOf(c, s) = SubSeq(c, Len(c) - s + 1, Len(c))
            <4>1. CASE Len(c) <= s
                <5>1. Len(c) = s /\ Len(c) - s + 1 = 1
                    <6>1. s <= Len(c) /\ s \in Nat /\ Len(c) \in Nat
                        BY <3>3, <3>4, <3>5
                    <6> QED BY <4>1, <6>1
                <5>2. SubSeq(c, 1, Len(c)) = c
                    BY <3>3, SubSeqFull
                <5> QED BY <4>1, <5>1, <5>2 DEF Drafter!LastOf
            <4> QED BY <4>1 DEF Drafter!LastOf
        <3>7. PICK t : t = SubSeq(c, Len(c) - s + 1, Len(c))
            OBVIOUS
        <3>8. /\ t \in Seq(Numbers) /\ Len(t) = s
              /\ \A i \in 1 .. s : t[i] = c[Len(c) - s + i]
            <4>1. \A i \in Len(c) - s + 1 .. Len(c) : c[i] \in Numbers
                BY <3>3, <3>4, <3>5
            <4>2. PICK a : a = Len(c) - s + 1
                OBVIOUS
            <4>3. a \in Int
                BY <3>3, <3>4, <4>2
            <4>4. /\ t \in Seq(Numbers)
                  /\ Len(t) = IF a <= Len(c) THEN Len(c) - a + 1 ELSE 0
                  /\ \A i \in 1 .. Len(c) - a + 1 : t[i] = c[a + i - 1]
                BY <3>4, <3>7, <4>1, <4>2, <4>3, SubSeqProperties
            <4>5. /\ Len(c) - a + 1 = s /\ (IF a <= Len(c) THEN s ELSE 0) = s
                  /\ \A i \in 1 .. s : a + i - 1 = Len(c) - s + i
                BY <3>3, <3>4, <4>2
            <4> QED BY <4>4, <4>5
        <3>9. ASSUME NEW i \in 1 .. s PROVE t[i] = committed - s + i
            <4>1. s - i \in 0 .. s - 1 /\ Len(c) - (s - i) = Len(c) - s + i
                  /\ committed - (s - i) = committed - s + i
                BY <3>3, <3>4
            <4>2. c[Len(c) - (s - i)] = committed - (s - i)
                BY <3>5, <4>1
            <4> QED BY <3>8, <4>1, <4>2
        <3>10. t = [i \in 1 .. s |-> committed - s + i]
            <4>1. DOMAIN t = 1 .. s /\ t = [i \in 1 .. Len(t) |-> t[i]]
                BY <3>8, LenProperties
            <4> QED BY <3>8, <3>9, <4>1
        <3>11. \A i \in DOMAIN c : c[i] # 0
            BY <3>4 DEF Numbers
        <3> QED BY <3>1, <3>2, <3>6, <3>7, <3>10, <3>11
    <2>2. Drafter!ContextExact
        BY <2>1 DEF Drafter!ContextExact, Seen
    <2>3. Drafter!WaitingBounded
        BY DEF Drafter!WaitingBounded, HInv
    <2> QED BY <2>2, <2>3
<1>4. Inv => HeadContext
    BY <1>3 DEF HeadContext
<1> QED BY <1>1, <1>2, <1>4, PTL DEF PartsSpec

-----------------------------------------------------------------------------
(* The gate, where the adapter feeds its head while drafting is off and    *)
(* the host resets the decoder with each sequence.                         *)
Arms == {"on", "off"}

\* A measured rate is one of the regime's: what its tokens cost, and no more.
Measured(arm) ==
    /\ spt[arm][2] # 0
    /\ drifts = 0 => spt[arm][1] = cost[arm] * spt[arm][2]

RatesInv ==
    /\ phase \in Arms /\ verdict \in Arms \cup {"none"}
    /\ holdCur \in GateHold .. GateHoldMax /\ holdLeft \in 0 .. holdCur
    /\ charged \in 0 .. GateProbe - 1 /\ tok \in charged .. charged * KMax /\ time \in Nat
    /\ settle \in BOOLEAN /\ spt \in [Arms -> Nat \X Nat] /\ cost \in [Arms -> Costs]
    /\ drifts = 0 => time = cost[phase] * tok
    /\ \A arm \in Arms : spt[arm] = <<0, 0>> \/ Measured(arm)
    /\ Gate!HoldsFaster

GateInv ==
    /\ RatesInv /\ stale = FALSE /\ warmGate = into
    /\ explore \in BOOLEAN /\ warm \in 0 .. 2 /\ into \in 0 .. 2 /\ drifts \in Nat
    /\ tN \in [2 .. KMax -> 0 .. 3] /\ unseen \in [2 .. KMax -> 0 .. ExploreEvery + 1]

\* Two rates compare as the costs they are made of, however many tokens each
\* was measured on.
LEMMA LowerScaled ==
    ASSUME NEW a \in Nat, NEW b \in Nat, NEW i \in Numbers, NEW j \in Numbers
    PROVE  Gate!Lower(<<a * i, i>>, <<b * j, j>>, 2) <=> Gate!Lower(<<a, 1>>, <<b, 1>>, 2)
<1>1. PICK m : m = i * j
    OBVIOUS
<1>2. m \in Nat /\ m > 0
    BY <1>1 DEF Numbers
<1>3. 100 * (a * i) * j = (100 * a) * m /\ (100 - 2) * (b * j) * i = (98 * b) * m
    BY <1>1 DEF Numbers
<1>4. (100 * a) * m < (98 * b) * m <=> 100 * a < 98 * b
    <2>1. PICK x : x = 100 * a
        OBVIOUS
    <2>2. PICK y : y = 98 * b
        OBVIOUS
    <2>3. x \in Nat /\ y \in Nat
        BY <2>1, <2>2
    <2>4. x * m < y * m <=> x < y
        <3>1. CASE x < y
            <4>1. x * m < y * m
                BY <1>2, <2>3, <3>1
            <4> QED BY <3>1, <4>1
        <3>2. CASE ~(x < y)
            <4>1. x * m >= y * m
                BY <1>2, <2>3, <3>2
            <4>2. x * m \in Nat /\ y * m \in Nat
                BY <1>2, <2>3
            <4> QED BY <3>2, <4>1, <4>2
        <3> QED BY <3>1, <3>2
    <2> QED BY <2>1, <2>2, <2>4
<1>5. 100 * a * 1 = 100 * a /\ (100 - 2) * b * 1 = 98 * b
    OBVIOUS
<1> QED BY <1>3, <1>4, <1>5 DEF Gate!Lower

\* An arm begins with nothing charged to it.
LEMMA ArmBegins ==
    ASSUME RatesInv, Gate!GateAssumption, NEW arm \in Arms, NEW hold, Gate!BeginArm(arm, hold),
           UNCHANGED <<cost, drifts>>, holdCur' \in GateHold .. GateHoldMax,
           hold \in 0 .. holdCur', verdict' \in Arms \cup {"none"},
           spt' \in [Arms -> Nat \X Nat],
           \A a \in Arms : spt'[a] = <<0, 0>> \/ Measured(a)',
           hold > 0 /\ drifts = 0 => arm = Gate!Faster
    PROVE  RatesInv'
<1>1. /\ phase' = arm /\ holdLeft' = hold /\ charged' = 0 /\ time' = 0 /\ tok' = 0
      /\ settle' = TRUE
    BY DEF Gate!BeginArm
<1>2. 0 \in 0 .. GateProbe - 1 /\ KMax \in Nat
    BY DEF Gate!GateAssumption
<1>3. tok' \in charged' .. charged' * KMax /\ charged' \in 0 .. GateProbe - 1
    BY <1>1, <1>2
<1>4. cost' \in [Arms -> Costs] /\ \A a \in Arms : cost[a] \in Nat
    BY DEF RatesInv, Gate!GateAssumption
<1>5. drifts' = 0 => time' = cost'[phase'] * tok'
    BY <1>1, <1>4
<1>6. Gate!HoldsFaster'
    BY <1>1 DEF Gate!HoldsFaster, Gate!Holding, Gate!Faster
<1> QED BY <1>1, <1>3, <1>4, <1>5, <1>6 DEF RatesInv

\* A hold ends in a probe, or goes on.
LEMMA HoldGoesOn ==
    ASSUME RatesInv, Gate!GateAssumption, NEW tokens \in Numbers, Gate!Holding,
           Gate!HoldOn(tokens), UNCHANGED <<cost, drifts>>
    PROVE  RatesInv'
<1>1. CASE holdLeft <= tokens
    <2>1. Gate!BeginArm(Gate!Other, 0) /\ UNCHANGED <<holdCur, spt, verdict>>
        BY <1>1 DEF Gate!HoldOn, RatesInv, Numbers
    <2>2. Gate!Other \in Arms
        BY DEF Gate!Other, Arms
    <2>3. holdCur' \in GateHold .. GateHoldMax /\ 0 \in 0 .. holdCur'
        BY <2>1 DEF RatesInv, Gate!GateAssumption
    <2>4. \A a \in Arms : spt'[a] = <<0, 0>> \/ Measured(a)'
        BY <2>1 DEF RatesInv, Measured
    <2>5. verdict' \in Arms \cup {"none"} /\ spt' \in [Arms -> Nat \X Nat]
        BY <2>1 DEF RatesInv
    <2> QED BY <2>1, <2>2, <2>3, <2>4, <2>5, ArmBegins
<1>2. CASE ~(holdLeft <= tokens)
    <2>1. /\ holdLeft' = holdLeft - tokens /\ holdLeft > tokens
          /\ UNCHANGED <<phase, holdCur, charged, time, tok, settle, spt, verdict>>
        BY <1>2 DEF Gate!HoldOn
    <2>2. holdLeft' \in 0 .. holdCur'
        BY <2>1 DEF RatesInv, Numbers, Gate!GateAssumption
    <2>3. Gate!HoldsFaster'
        BY <2>1 DEF RatesInv, Gate!HoldsFaster, Gate!Holding, Gate!Faster
    <2>4. \A a \in Arms : Measured(a)' <=> Measured(a)
        BY <2>1 DEF Measured
    <2> QED BY <2>1, <2>2, <2>3, <2>4 DEF RatesInv
<1> QED BY <1>1, <1>2

\* The step that pays for the switch is charged to neither arm.
LEMMA SwitchPaid ==
    ASSUME RatesInv, Gate!Settled \/ UNCHANGED Gate!gate, UNCHANGED <<cost, drifts>>
    PROVE  RatesInv'
<1>1. /\ UNCHANGED <<phase, holdLeft, holdCur, charged, time, tok, spt, verdict>>
      /\ settle' \in BOOLEAN
    BY DEF Gate!Settled, Gate!gate, RatesInv
<1>2. \A a \in Arms : Measured(a)' <=> Measured(a)
    BY <1>1 DEF Measured
<1>3. Gate!HoldsFaster' <=> Gate!HoldsFaster
    BY <1>1 DEF Gate!HoldsFaster, Gate!Holding, Gate!Faster
<1> QED BY <1>1, <1>2, <1>3 DEF RatesInv

\* The rates measured in one regime choose the faster arm.
LEMMA RatesChoose ==
    ASSUME NEW rates \in [Arms -> Nat \X Nat], cost \in [Arms -> Nat],
           \A a \in Arms : rates[a][2] # 0 /\ rates[a][1] = cost[a] * rates[a][2]
    PROVE  Gate!Chosen(rates) = Gate!Faster
<1>1. PICK i : i = rates["on"][2]
    OBVIOUS
<1>2. PICK j : j = rates["off"][2]
    OBVIOUS
<1>3. i \in Numbers /\ j \in Numbers /\ "on" \in Arms /\ "off" \in Arms
    BY <1>1, <1>2 DEF Arms, Numbers
<1>4. rates["on"] = <<cost["on"] * i, i>> /\ rates["off"] = <<cost["off"] * j, j>>
    BY <1>1, <1>2, <1>3
<1>5. Gate!Lower(rates["on"], rates["off"], 2)
        <=> Gate!Lower(<<cost["on"], 1>>, <<cost["off"], 1>>, 2)
    BY <1>3, <1>4, LowerScaled
<1>6. Gate!Faster = IF Gate!Lower(<<cost["on"], 1>>, <<cost["off"], 1>>, 2) THEN "on" ELSE "off"
    BY DEF Gate!Faster, Gate!Chosen, Gate!Arms
<1> QED BY <1>5, <1>6 DEF Gate!Chosen

\* A step charged at the arm's own cost leaves the rates clean; the probe it
\* ends is followed by the other arm's, or by a hold of the faster arm.
LEMMA ChargeClean ==
    ASSUME RatesInv, Gate!GateAssumption, ~Gate!Holding, NEW tokens \in 1 .. KMax,
           NEW dt \in Nat, drifts = 0 => dt = cost[phase] * tokens, Gate!Charge(dt, tokens),
           UNCHANGED <<cost, drifts>>
    PROVE  RatesInv'
<1> PICK rate : rate = <<time + dt, tok + tokens>>
    OBVIOUS
<1>1. \/ Gate!EndProbe([spt EXCEPT ![phase] = rate])
      \/ /\ charged + 1 < GateProbe
         /\ charged' = charged + 1 /\ time' = time + dt /\ tok' = tok + tokens
         /\ UNCHANGED <<phase, holdLeft, holdCur, settle, spt, verdict>>
    BY DEF Gate!Charge
<1>2. /\ phase \in Arms /\ time \in Nat /\ cost \in [Arms -> Nat] /\ KMax \in Nat
      /\ charged \in Nat /\ tok \in Nat /\ tok >= charged /\ tok <= charged * KMax
      /\ tokens \in Nat /\ tokens >= 1 /\ tokens <= KMax /\ dt \in Nat
    <2>1. charged \in Nat /\ KMax \in Nat /\ charged * KMax \in Nat
        BY DEF RatesInv, Gate!GateAssumption
    <2>2. cost \in [Arms -> Nat]
        BY DEF RatesInv, Gate!GateAssumption
    <2> QED BY <2>1, <2>2 DEF RatesInv
<1>3. drifts = 0 => time + dt = cost[phase] * (tok + tokens)
    <2> SUFFICES ASSUME drifts = 0 PROVE time + dt = cost[phase] * (tok + tokens)
        OBVIOUS
    <2>1. time = cost[phase] * tok /\ dt = cost[phase] * tokens /\ cost[phase] \in Nat
        BY <1>2 DEF RatesInv
    <2> QED BY <1>2, <2>1
<1>4. rate \in Nat \X Nat /\ rate[1] = time + dt /\ rate[2] = tok + tokens /\ rate[2] # 0
    BY <1>2
<1>5. CASE /\ charged + 1 < GateProbe
           /\ charged' = charged + 1 /\ time' = time + dt /\ tok' = tok + tokens
           /\ UNCHANGED <<phase, holdLeft, holdCur, settle, spt, verdict>>
    <2>1. charged' \in 0 .. GateProbe - 1
        BY <1>2, <1>5 DEF Gate!GateAssumption
    <2>2. (charged + 1) * KMax = charged * KMax + KMax /\ charged * KMax \in Nat
        BY <1>2
    <2>3. tok' \in charged' .. charged' * KMax
        BY <1>2, <1>5, <2>2
    <2>4. drifts' = 0 => time' = cost'[phase'] * tok'
        BY <1>3, <1>5
    <2>5. \A a \in Arms : Measured(a)' <=> Measured(a)
        BY <1>5 DEF Measured
    <2>6. Gate!HoldsFaster' <=> Gate!HoldsFaster
        BY <1>5 DEF Gate!HoldsFaster, Gate!Holding, Gate!Faster
    <2>7. time' \in Nat
        BY <1>2, <1>5
    <2> QED BY <1>5, <2>1, <2>3, <2>4, <2>5, <2>6, <2>7 DEF RatesInv
<1>6. CASE Gate!EndProbe([spt EXCEPT ![phase] = rate])
    <2>1. PICK rates : rates = [spt EXCEPT ![phase] = rate]
        OBVIOUS
    <2>2. Gate!EndProbe(rates)
        BY <1>6, <2>1
    <2>3. spt \in [Arms -> Nat \X Nat] /\ \A a \in Arms : spt[a] = <<0, 0>> \/ Measured(a)
        BY DEF RatesInv
    <2>4. rates \in [Arms -> Nat \X Nat] /\ rates[phase] = rate
          /\ \A a \in Arms \ {phase} : rates[a] = spt[a]
        BY <1>2, <1>4, <2>1, <2>3
    <2>5. \A a \in Arms : \/ rates[a] = <<0, 0>>
                          \/ /\ rates[a][2] # 0
                             /\ drifts = 0 => rates[a][1] = cost[a] * rates[a][2]
        <3>1. rate[2] # 0 /\ (drifts = 0 => rate[1] = cost[phase] * rate[2])
            BY <1>3, <1>4
        <3>2. \A a \in Arms \ {phase} :
                  \/ spt[a] = <<0, 0>>
                  \/ spt[a][2] # 0 /\ (drifts = 0 => spt[a][1] = cost[a] * spt[a][2])
            BY <2>3 DEF Measured
        <3> QED BY <2>4, <3>1, <3>2
    <2>6. spt' = rates
        BY <2>2 DEF Gate!EndProbe
    <2>7. \A a \in Arms : spt'[a] = <<0, 0>> \/ Measured(a)'
        BY <2>5, <2>6 DEF Measured
    <2>8. Gate!Other \in Arms /\ Gate!Other # phase /\ Arms = {phase, Gate!Other}
        BY <1>2 DEF Gate!Other, Arms
    <2>9. CASE rates[Gate!Other] = <<0, 0>>
        <3>1. Gate!BeginArm(Gate!Other, 0) /\ UNCHANGED <<holdCur, verdict>>
            BY <2>2, <2>9 DEF Gate!EndProbe, Gate!Unmeasured
        <3>2. holdCur' \in GateHold .. GateHoldMax /\ 0 \in 0 .. holdCur'
              /\ verdict' \in Arms \cup {"none"}
            BY <3>1 DEF RatesInv, Gate!GateAssumption
        <3> QED BY <2>4, <2>6, <2>7, <2>8, <3>1, <3>2, ArmBegins
    <2>10. CASE rates[Gate!Other] # <<0, 0>>
        <3>1. /\ holdCur' = Gate!NextHold(Gate!Chosen(rates)) /\ verdict' = Gate!Chosen(rates)
              /\ Gate!BeginArm(Gate!Chosen(rates), holdCur')
            BY <2>2, <2>10 DEF Gate!EndProbe, Gate!Unmeasured
        <3>2. Gate!Chosen(rates) \in Arms
            BY DEF Gate!Chosen, Arms
        <3>3. holdCur' \in GateHold .. GateHoldMax /\ holdCur' \in 0 .. holdCur'
            BY <3>1 DEF RatesInv, Gate!GateAssumption, Gate!NextHold, Gate!UpTo
        <3>4. drifts = 0 => Gate!Chosen(rates) = Gate!Faster
            <4> SUFFICES ASSUME drifts = 0 PROVE Gate!Chosen(rates) = Gate!Faster
                OBVIOUS
            <4>1. rate # <<0, 0>>
                BY <1>4
            <4>2. \A a \in Arms : rates[a] # <<0, 0>>
                BY <2>4, <2>8, <2>10, <4>1
            <4>3. \A a \in Arms : rates[a][2] # 0 /\ rates[a][1] = cost[a] * rates[a][2]
                BY <2>5, <4>2
            <4> QED BY <1>2, <2>4, <4>3, RatesChoose
        <3> QED BY <2>4, <2>6, <2>7, <3>1, <3>2, <3>3, <3>4, ArmBegins
    <2> QED BY <2>9, <2>10
<1> QED BY <1>1, <1>5, <1>6

\* What a step is charged depends on what it paid for.
LEMMA AccountClean ==
    ASSUME RatesInv, Gate!GateAssumption, NEW tokens \in 1 .. KMax, NEW dt \in Nat,
           NEW exploring,
           warmGate >= 2 /\ ~Gate!Holding /\ ~settle /\ ~exploring => dt = cost[phase] * tokens,
           Gate!GateAccount(dt, tokens, exploring), UNCHANGED <<cost, drifts>>
    PROVE  RatesInv' /\ explore' = FALSE /\ warmGate' = Gate!UpTo(2, warmGate + 1)
<1>1. explore' = FALSE /\ warmGate' = Gate!UpTo(2, warmGate + 1)
    BY DEF Gate!GateAccount
<1>2. tokens \in Numbers
    BY DEF Numbers, Gate!GateAssumption
<1>3. CASE UNCHANGED Gate!gate \/ Gate!Settled
    BY <1>1, <1>3, SwitchPaid
<1>4. CASE Gate!Holding /\ Gate!HoldOn(tokens)
    BY <1>1, <1>2, <1>4, HoldGoesOn
<1>5. CASE /\ warmGate >= 2 /\ ~Gate!Holding /\ ~settle /\ ~exploring
           /\ Gate!Charge(dt, tokens)
    BY <1>1, <1>5, ChargeClean
<1>6. \/ UNCHANGED Gate!gate \/ Gate!Settled
      \/ Gate!Holding /\ Gate!HoldOn(tokens)
      \/ /\ warmGate >= 2 /\ ~Gate!Holding /\ ~settle /\ ~exploring
         /\ Gate!Charge(dt, tokens)
    BY DEF Gate!GateAccount
<1> QED BY <1>1, <1>3, <1>4, <1>5, <1>6

\* A step costs its arm's seconds, and more only while it is cold, settles or
\* explores.
LEMMA SecondsOf ==
    ASSUME RatesInv, Gate!GateAssumption, NEW arm \in Arms, NEW tokens \in 1 .. KMax,
           NEW exploring \in BOOLEAN, into \in 0 .. 2
    PROVE  /\ Gate!Seconds(arm, tokens, exploring) \in Nat
           /\ into >= 2 /\ ~Gate!Holding /\ ~settle /\ ~exploring
                => Gate!Seconds(arm, tokens, exploring) = cost[arm] * tokens
<1>1. cost[arm] \in Nat /\ tokens \in Nat /\ Extra \in Nat
    <2>1. KMax \in Nat /\ Extra \in Nat /\ Costs \subseteq Nat
        BY DEF Gate!GateAssumption
    <2>2. cost \in [Arms -> Costs]
        BY DEF RatesInv
    <2>3. cost[arm] \in Nat
        BY <2>1, <2>2
    <2> QED BY <2>1, <2>3
<1>2. PICK x : x = cost[arm] * tokens
    OBVIOUS
<1>3. x \in Nat
    BY <1>1, <1>2
<1>4. /\ Gate!Seconds(arm, tokens, exploring) \in {x + Extra, x + 0}
      /\ into >= 2 /\ ~Gate!Holding /\ ~settle /\ ~exploring
             => Gate!Seconds(arm, tokens, exploring) = x + 0
    BY <1>2 DEF Gate!Seconds, Gate!Cold
<1> QED BY <1>1, <1>2, <1>3, <1>4

LEMMA GateInitInv == ASSUME Gate!GateAssumption, Gate!Init PROVE GateInv
<1>1. /\ phase = "off" /\ holdLeft = 0 /\ holdCur = GateHold
      /\ charged = 0 /\ time = 0 /\ tok = 0 /\ settle = TRUE /\ explore = FALSE
      /\ spt = [arm \in Arms |-> <<0, 0>>] /\ verdict = "none"
      /\ warmGate = 0 /\ warm = 0 /\ stale = FALSE /\ into = 0
      /\ cost \in [Arms -> Costs] /\ drifts = 0
    BY DEF Gate!Init, Gate!Arms, Arms, Gate!Unmeasured
<1>2. /\ tN = [K \in 2 .. KMax |-> 0] /\ unseen = [K \in 2 .. KMax |-> 0]
    BY DEF Gate!Init, Gate!Ks
<1>3. GateHold \in GateHold .. GateHoldMax /\ 0 \in 0 .. GateHold
      /\ 0 \in 0 .. GateProbe - 1 /\ 0 \in 0 .. 0 * KMax
    BY DEF Gate!GateAssumption
<1>4. tN \in [2 .. KMax -> 0 .. 3] /\ unseen \in [2 .. KMax -> 0 .. ExploreEvery + 1]
    BY <1>2 DEF Gate!GateAssumption
<1>5. time = cost[phase] * tok
    <2>1. cost[phase] \in Nat
        BY <1>1 DEF Gate!GateAssumption, Arms
    <2> QED BY <1>1, <2>1
<1>6. Gate!HoldsFaster
    BY <1>1 DEF Gate!HoldsFaster, Gate!Holding
<1>7. spt \in [Arms -> Nat \X Nat] /\ \A arm \in Arms : spt[arm] = <<0, 0>>
    BY <1>1
<1>8. RatesInv
    BY <1>1, <1>3, <1>5, <1>6, <1>7 DEF RatesInv, Arms
<1>9. stale = FALSE /\ explore \in BOOLEAN
    BY <1>1
<1>10. warmGate = into /\ warm \in 0 .. 2 /\ into \in 0 .. 2 /\ drifts \in Nat
    BY <1>1
<1> QED BY <1>4, <1>8, <1>9, <1>10 DEF GateInv

LEMMA GateStepInv ==
    ASSUME GateInv, Gate!GateAssumption, Feeds, HostResets, [Gate!Next]_(Gate!vars)
    PROVE  GateInv'
<1>1. /\ RatesInv /\ stale = FALSE /\ warmGate = into
      /\ explore \in BOOLEAN /\ warm \in 0 .. 2 /\ into \in 0 .. 2 /\ drifts \in Nat
      /\ tN \in [2 .. KMax -> 0 .. 3] /\ unseen \in [2 .. KMax -> 0 .. ExploreEvery + 1]
    BY DEF GateInv
<1>2. "on" \in Arms /\ "off" \in Arms /\ KMax \in Nat /\ 1 \in 1 .. KMax
    BY DEF Arms, Gate!GateAssumption
<1>3. ASSUME Gate!UpTo(2, warmGate + 1) = warmGate', Gate!Stepped
      PROVE  warmGate' = into' /\ into' \in 0 .. 2
    BY <1>1, <1>3 DEF Gate!Stepped, Gate!UpTo
<1>4. CASE Gate!OffStep
    <2>1. /\ phase = "off" /\ stale' = (stale \/ ~Feeds)
          /\ Gate!GateAccount(Gate!Seconds("off", 1, FALSE), 1, explore)
          /\ Gate!Stepped /\ UNCHANGED <<warm, tN, unseen, cost, drifts, restarts>>
        BY <1>4 DEF Gate!OffStep, Gate!model, Gate!world
    <2>2. PICK dt : dt = Gate!Seconds("off", 1, FALSE)
        OBVIOUS
    <2>3. dt \in Nat /\ (into >= 2 /\ ~Gate!Holding /\ ~settle => dt = cost[phase] * 1)
        BY <1>1, <1>2, <2>1, <2>2, SecondsOf
    <2>4. RatesInv' /\ explore' = FALSE /\ warmGate' = Gate!UpTo(2, warmGate + 1)
        BY <1>1, <1>2, <2>1, <2>2, <2>3, AccountClean
    <2> QED BY <1>1, <1>3, <2>1, <2>4 DEF GateInv
<1>5. CASE Gate!OnPlainStep
    <2>1. /\ phase = "on" /\ Gate!Stepped
          /\ Gate!GateAccount(Gate!Seconds("on", 1, FALSE), 1, explore)
          /\ UNCHANGED <<warm, tN, unseen, stale, cost, drifts, restarts>>
        BY <1>1, <1>5 DEF Gate!OnPlainStep, Gate!model, Gate!world
    <2>2. PICK dt : dt = Gate!Seconds("on", 1, FALSE)
        OBVIOUS
    <2>3. dt \in Nat /\ (into >= 2 /\ ~Gate!Holding /\ ~settle => dt = cost[phase] * 1)
        BY <1>1, <1>2, <2>1, <2>2, SecondsOf
    <2>4. RatesInv' /\ explore' = FALSE /\ warmGate' = Gate!UpTo(2, warmGate + 1)
        BY <1>1, <1>2, <2>1, <2>2, <2>3, AccountClean
    <2> QED BY <1>1, <1>3, <2>1, <2>4 DEF GateInv
<1>6. CASE Gate!OnStep
    <2>1. PICK kmax \in 2 .. KMax : \E choice \in Gate!ChooseK(kmax) : \E a \in 1 .. choice.K :
              /\ Gate!LearnTime(choice.K)
              /\ Gate!GateAccount(Gate!Seconds("on", a, explore \/ choice.exploring), a,
                                  explore \/ choice.exploring)
        BY <1>6 DEF Gate!OnStep, Gate!Ks
    <2>2. PICK choice \in Gate!ChooseK(kmax) : \E a \in 1 .. choice.K :
              /\ Gate!LearnTime(choice.K)
              /\ Gate!GateAccount(Gate!Seconds("on", a, explore \/ choice.exploring), a,
                                  explore \/ choice.exploring)
        BY <2>1
    <2>3. choice.K \in 2 .. kmax /\ choice.exploring \in BOOLEAN
        <3>1. \/ \E K \in 2 .. kmax : choice = [K |-> K, exploring |-> TRUE]
              \/ \E K \in 2 .. kmax : choice = [K |-> K, exploring |-> FALSE]
            BY <2>2 DEF Gate!ChooseK
        <3>2. ASSUME NEW K \in 2 .. kmax, NEW e \in BOOLEAN, choice = [K |-> K, exploring |-> e]
              PROVE  choice.K \in 2 .. kmax /\ choice.exploring \in BOOLEAN
            BY <3>2
        <3> QED BY <3>1, <3>2
    <2>4. PICK a \in 1 .. choice.K :
              /\ Gate!LearnTime(choice.K)
              /\ Gate!GateAccount(Gate!Seconds("on", a, explore \/ choice.exploring), a,
                                  explore \/ choice.exploring)
        BY <2>2
    <2>5. phase = "on" /\ Gate!Stepped /\ UNCHANGED <<stale, cost, drifts, restarts>>
        BY <1>6 DEF Gate!OnStep, Gate!world
    <2>6. PICK exploring \in BOOLEAN : exploring = (explore \/ choice.exploring)
        BY <1>1, <2>3
    <2>7. PICK dt : dt = Gate!Seconds("on", a, exploring)
        OBVIOUS
    <2>8. a \in 1 .. KMax /\ choice.K \in 2 .. KMax
        BY <1>2, <2>1, <2>3, <2>4
    <2>9. /\ dt \in Nat
          /\ into >= 2 /\ ~Gate!Holding /\ ~settle /\ ~exploring => dt = cost[phase] * a
        BY <1>1, <1>2, <2>5, <2>7, <2>8, SecondsOf
    <2>10. Gate!GateAccount(dt, a, exploring)
        BY <2>4, <2>6, <2>7
    <2>11. RatesInv' /\ explore' = FALSE /\ warmGate' = Gate!UpTo(2, warmGate + 1)
        BY <1>1, <2>5, <2>8, <2>9, <2>10, AccountClean
    <2>12. /\ warm' \in 0 .. 2 /\ tN' \in [2 .. KMax -> 0 .. 3]
           /\ unseen' \in [2 .. KMax -> 0 .. ExploreEvery + 1]
        <3>1. warm' = Gate!UpTo(2, warm + 1)
              /\ (tN' = tN \/ tN' = [tN EXCEPT ![choice.K] = Gate!UpTo(3, @ + 1)])
              /\ unseen' = [j \in 2 .. KMax |->
                                IF j = choice.K /\ warm >= 2 THEN 0
                                ELSE Gate!UpTo(ExploreEvery + 1, unseen[j] + 1)]
            BY <2>4 DEF Gate!LearnTime, Gate!Ks
        <3>2. warm' \in 0 .. 2
            BY <1>1, <3>1 DEF Gate!UpTo
        <3>3. tN' \in [2 .. KMax -> 0 .. 3]
            <4>1. tN[choice.K] \in 0 .. 3
                BY <1>1, <2>8
            <4>2. Gate!UpTo(3, tN[choice.K] + 1) \in 0 .. 3
                BY <4>1 DEF Gate!UpTo
            <4> QED BY <1>1, <3>1, <4>2
        <3>4. ExploreEvery \in Nat
            BY DEF Gate!GateAssumption
        <3>5. \A j \in 2 .. KMax : Gate!UpTo(ExploreEvery + 1, unseen[j] + 1)
                                      \in 0 .. ExploreEvery + 1
            BY <1>1, <3>4 DEF Gate!UpTo
        <3> QED BY <3>1, <3>2, <3>3, <3>4, <3>5
    <2> QED BY <1>1, <1>3, <2>5, <2>11, <2>12 DEF GateInv
<1>7. CASE Gate!OnStepRaises
    <2>1. PICK kmax \in 2 .. KMax : \E choice \in Gate!ChooseK(kmax) :
              explore' = (explore \/ choice.exploring)
        BY <1>7 DEF Gate!OnStepRaises, Gate!Ks
    <2>2. explore' \in BOOLEAN
        BY <1>1, <2>1 DEF Gate!ChooseK
    <2>3. UNCHANGED <<Gate!gate, warmGate, warm, tN, unseen, stale, into, cost, drifts>>
        BY <1>7 DEF Gate!OnStepRaises, Gate!model
    <2>4. RatesInv'
        BY <1>1, <2>3, SwitchPaid
    <2> QED BY <1>1, <2>2, <2>3, <2>4 DEF GateInv
<1>8. CASE Gate!NewSequence
    <2>1. /\ warm' = 0 /\ into' = 0 /\ warmGate' = 0 /\ stale' = FALSE
          /\ UNCHANGED <<Gate!gate, explore, tN, unseen, cost, drifts>>
        BY <1>1, <1>8 DEF Gate!NewSequence
    <2>2. RatesInv'
        BY <1>1, <2>1, SwitchPaid
    <2> QED BY <1>1, <2>1, <2>2 DEF GateInv
<1>9. CASE Gate!Drift
    <2>1. /\ drifts' = drifts + 1 /\ cost' \in [Arms -> Costs]
          /\ UNCHANGED <<Gate!gate, explore, warmGate, warm, tN, unseen, stale, into>>
        BY <1>9 DEF Gate!Drift, Gate!Arms, Arms, Gate!model
    <2>2. drifts' \in Nat /\ drifts' # 0
        BY <1>1, <2>1
    <2>3. UNCHANGED <<phase, holdLeft, holdCur, charged, time, tok, settle, spt, verdict>>
        BY <2>1 DEF Gate!gate
    <2>4. \A a \in Arms : Measured(a) => Measured(a)'
        BY <2>2, <2>3 DEF Measured
    <2>5. Gate!HoldsFaster'
        BY <2>2 DEF Gate!HoldsFaster
    <2>6. RatesInv'
        BY <1>1, <2>1, <2>2, <2>3, <2>4, <2>5 DEF RatesInv
    <2> QED BY <1>1, <2>1, <2>2, <2>6 DEF GateInv
<1>10. CASE UNCHANGED Gate!vars
    <2>1. UNCHANGED <<Gate!gate, explore, warmGate, warm, tN, unseen, stale, into, cost, drifts>>
        BY <1>10 DEF Gate!vars, Gate!model, Gate!world
    <2>2. RatesInv'
        BY <1>1, <2>1, SwitchPaid
    <2> QED BY <1>1, <2>1, <2>2 DEF GateInv
<1> QED BY <1>4, <1>5, <1>6, <1>7, <1>8, <1>9, <1>10 DEF Gate!Next, Gate!Step

\* While the regime lasts the gate holds the arm whose tokens cost less,
\* whatever cold, settling and exploring steps cost, and no longer than its
\* maximum (_gate_account).
THEOREM GateAlwaysHolds ==
    ASSUME Feeds, HostResets
    PROVE  PartsSpec => []GateHolds
<1> DEFINE Inv == part = "gate" => GateInv
<1>0. Gate!GateAssumption
    BY PartsAssumption
<1>1. PartsInit => Inv
    BY <1>0, GateInitInv DEF PartsInit
<1>2. Inv /\ [PartsNext]_<<part, vars, headVars, sampleVars, gateVars>> => Inv'
    <2> SUFFICES ASSUME Inv, [PartsNext]_<<part, vars, headVars, sampleVars, gateVars>>,
                        part' = "gate"
                 PROVE  GateInv'
        OBVIOUS
    <2>1. part = "gate" /\ GateInv /\ (Gate!Next \/ UNCHANGED gateVars)
        BY DEF PartsNext
    <2>2. UNCHANGED gateVars => UNCHANGED Gate!vars
        BY DEF gateVars, Gate!vars, Gate!gate, Gate!model, Gate!world
    <2> QED BY <1>0, <2>1, <2>2, GateStepInv
<1>3. GateInv => Gate!GateHolds
    <2> SUFFICES ASSUME GateInv PROVE Gate!GateHolds
        OBVIOUS
    <2>1. Gate!TypeOK
        BY DEF GateInv, RatesInv, Gate!TypeOK, Gate!Arms, Arms, Gate!Ks
    <2>2. Gate!HoldsFaster
        BY DEF GateInv, RatesInv
    <2> QED BY <2>1, <2>2 DEF Gate!GateHolds
<1>4. Inv => GateHolds
    BY <1>3 DEF GateHolds
<1> QED BY <1>1, <1>2, <1>4, PTL DEF PartsSpec
=============================================================================
