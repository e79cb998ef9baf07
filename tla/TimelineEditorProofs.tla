------------------------ MODULE TimelineEditorProofs ------------------------
(* Proofs about the timeline editor, for every project, every library of       *)
(* assets, every length of the history and every number of edits: what the     *)
(* handlers keep of the versions they make (assets, undo, tracks), then what   *)
(* overwriting, splitting and deleting a take leave on the screen.             *)
EXTENDS TimelineEditorProps, SequenceTheorems, FiniteSetTheorems, WellFoundedInduction, TLAPS

LEMMA NewestProperties ==
    ASSUME NEW S, NEW s \in Seq(S), NEW n \in Nat \ {0}
    PROVE  /\ V!Newest(s, n) \in Seq(S)
           /\ Len(V!Newest(s, n)) = IF Len(s) > n THEN n ELSE Len(s)
           /\ \A i \in 1..Len(V!Newest(s, n)) :
                V!Newest(s, n)[i] = s[(Len(s) - Len(V!Newest(s, n))) + i]
  <1>1. CASE Len(s) > n
    <2> DEFINE m == Len(s) - n + 1
               t == SubSeq(s, m, Len(s))
    <2>1. V!Newest(s, n) = t
      BY <1>1 DEF V!Newest
    <2>2. m \in Int /\ Len(s) \in Int /\ m <= Len(s) /\ \A i \in m..Len(s) : s[i] \in S
      BY <1>1
    <2>3. t \in Seq(S) /\ Len(t) = Len(s) - m + 1 /\ \A i \in 1..Len(s) - m + 1 : t[i] = s[m + i - 1]
      <3> HIDE DEF m
      <3> QED
        BY <2>2, SubSeqProperties
    <2>4. Len(s) - m + 1 = n /\ Len(s) - n = m - 1
      BY <2>2
    <2>5. ASSUME NEW i \in 1..n PROVE m + i - 1 = (Len(s) - n) + i
      BY <2>2
    <2> HIDE DEF t, m
    <2> QED
      BY <1>1, <2>1, <2>3, <2>4, <2>5
  <1>2. CASE ~(Len(s) > n)
    <2>1. V!Newest(s, n) = s
      <3>1. V!Newest(s, n) = SubSeq(s, 1, Len(s))
        BY <1>2 DEF V!Newest
      <3> QED
        BY <3>1, SubSeqFull
    <2> QED
      BY <1>2, <2>1
  <1> QED
    BY <1>1, <1>2

\* The versions of the line: the ones to undo, the document, the ones to redo.
LineOf(undo, d, redo) == undo \o <<d>> \o Reverse(redo)

LEMMA LineProperties ==
    ASSUME NEW S, NEW undo \in Seq(S), NEW d \in S, NEW redo \in Seq(S)
    PROVE  /\ LineOf(undo, d, redo) \in Seq(S)
           /\ Len(LineOf(undo, d, redo)) = Len(undo) + 1 + Len(redo)
           /\ \A i \in 1..Len(undo) + 1 + Len(redo) :
                LineOf(undo, d, redo)[i] =
                  IF i <= Len(undo) THEN undo[i]
                  ELSE IF i = Len(undo) + 1 THEN d
                  ELSE redo[Len(undo) + 2 + Len(redo) - i]
  <1> DEFINE r == Reverse(redo)
             u == undo \o <<d>>
  <1>1. r \in Seq(S) /\ Len(r) = Len(redo) /\ \A i \in 1..Len(redo) : r[i] = redo[(Len(redo) - i) + 1]
    BY DEF Reverse
  <1>2. /\ u \in Seq(S) /\ Len(u) = Len(undo) + 1
        /\ \A i \in 1..Len(u) : u[i] = IF i <= Len(undo) THEN undo[i] ELSE d
    OBVIOUS
  <1>3. LineOf(undo, d, redo) = u \o r
    BY DEF LineOf
  <1> HIDE DEF r, u
  <1>0. Len(undo) \in Nat /\ Len(redo) \in Nat /\ r \in Seq(S) /\ u \in Seq(S)
    BY <1>1, <1>2
  <1>4. /\ u \o r \in Seq(S) /\ Len(u \o r) = Len(u) + Len(r)
        /\ \A i \in 1..Len(u) + Len(r) :
             (u \o r)[i] = IF i <= Len(u) THEN u[i] ELSE r[i - Len(u)]
    BY <1>0, ConcatProperties
  <1>5. ASSUME NEW i \in 1..Len(undo) + 1 + Len(redo)
        PROVE  (u \o r)[i] = IF i <= Len(undo) THEN undo[i]
                             ELSE IF i = Len(undo) + 1 THEN d
                             ELSE redo[Len(undo) + 2 + Len(redo) - i]
    <2>1. i \in 1..Len(u) + Len(r) /\ i \in Nat
      BY <1>0, <1>1, <1>2
    <2>2. CASE i <= Len(undo) + 1
      BY <1>0, <1>2, <1>4, <2>1, <2>2
    <2>3. CASE ~(i <= Len(undo) + 1)
      <3>1. (u \o r)[i] = r[i - (Len(undo) + 1)]
        BY <1>2, <1>4, <2>1, <2>3
      <3>2. i - (Len(undo) + 1) \in 1..Len(redo)
        BY <1>0, <2>3
      <3>3. r[i - (Len(undo) + 1)] = redo[(Len(redo) - (i - (Len(undo) + 1))) + 1]
        BY <1>1, <3>2
      <3>4. (Len(redo) - (i - (Len(undo) + 1))) + 1 = Len(undo) + 2 + Len(redo) - i
        BY <1>0
      <3>5. ~(i <= Len(undo)) /\ i # Len(undo) + 1
        BY <1>0, <2>1, <2>3
      <3> QED
        BY <3>1, <3>3, <3>4, <3>5
    <2> QED
      BY <2>2, <2>3
  <1> QED
    BY <1>1, <1>2, <1>3, <1>4, <1>5

LEMMA NewestIsSubSeq ==
    ASSUME NEW S, NEW s \in Seq(S), NEW n \in Nat \ {0}, n <= Len(s)
    PROVE  /\ V!Newest(s, n) = SubSeq(s, (Len(s) - n) + 1, Len(s))
           /\ V!Newest(s, n) \in Seq(S) /\ Len(V!Newest(s, n)) = n
  <1>1. CASE Len(s) > n
    BY <1>1, NewestProperties DEF V!Newest
  <1>2. CASE ~(Len(s) > n)
    <2>1. Len(s) = n
      BY <1>2
    <2>2. V!Newest(s, n) = SubSeq(s, 1, Len(s)) /\ (Len(s) - n) + 1 = 1
      BY <2>1 DEF V!Newest
    <2> QED
      BY <2>1, <2>2, SubSeqFull
  <1> QED
    BY <1>1, <1>2

\* The newest of s \o t are the newest of t, if there are enough of them.
LEMMA NewestSuffix ==
    ASSUME NEW S, NEW s \in Seq(S), NEW t \in Seq(S), NEW n \in Nat \ {0}, n <= Len(t)
    PROVE  V!Newest(s \o t, n) = V!Newest(t, n)
  <1> DEFINE st == s \o t
  <1>1. st \in Seq(S) /\ Len(st) = Len(s) + Len(t) /\ Len(s) \in Nat /\ Len(t) \in Nat
    BY ConcatProperties
  <1> HIDE DEF st
  <1>2. n <= Len(st)
    BY <1>1
  <1>3. V!Newest(st, n) = SubSeq(st, (Len(st) - n) + 1, Len(st))
    BY <1>1, <1>2, NewestIsSubSeq
  <1>4. V!Newest(t, n) = SubSeq(t, (Len(t) - n) + 1, Len(t))
    BY NewestIsSubSeq
  <1>5. /\ (Len(st) - n) + 1 \in Len(s) + 1 .. Len(s) + Len(t)
        /\ Len(st) \in Len(s) + 1 .. Len(s) + Len(t)
        /\ ((Len(st) - n) + 1) - Len(s) = (Len(t) - n) + 1
        /\ Len(st) - Len(s) = Len(t)
    BY <1>1
  <1>6. SubSeq(st, (Len(st) - n) + 1, Len(st)) = SubSeq(t, ((Len(st) - n) + 1) - Len(s), Len(st) - Len(s))
    <2> DEFINE i == (Len(st) - n) + 1
               j == Len(st)
    <2>1. i \in Len(s) + 1 .. Len(s) + Len(t) /\ j \in Len(s) + 1 .. Len(s) + Len(t)
      BY <1>5
    <2> HIDE DEF i, j
    <2>2. SubSeq(s \o t, i, j) = SubSeq(t, i - Len(s), j - Len(s))
      BY <2>1, SubSeqOfConcat2
    <2> QED
      BY <2>2 DEF i, j, st
  <1> QED
    BY <1>3, <1>4, <1>5, <1>6 DEF st

LEMMA NewestCutsOff ==
    ASSUME NEW S, NEW s \in Seq(S), NEW n \in Nat \ {0}, n <= Len(s)
    PROVE  \E a \in Seq(S) : s = a \o V!Newest(s, n)
  <1> DEFINE k == Len(s) - n
             a == SubSeq(s, 1, k)
  <1>1. Len(s) \in Nat /\ 1 \in 1..Len(s) + 1 /\ k \in 1 - 1..Len(s) /\ Len(s) \in k..Len(s)
    OBVIOUS
  <1>2. a \in Seq(S)
    BY <1>1
  <1>3. V!Newest(s, n) = SubSeq(s, k + 1, Len(s))
    BY NewestIsSubSeq
  <1> HIDE DEF k
  <1>4. SubSeq(s, 1, k) \o SubSeq(s, k + 1, Len(s)) = SubSeq(s, 1, Len(s))
    BY <1>1, ConcatAdjacentSubSeq
  <1>5. SubSeq(s, 1, Len(s)) = s
    BY SubSeqFull
  <1> HIDE DEF a
  <1>6. s = a \o V!Newest(s, n)
    BY <1>3, <1>4, <1>5 DEF a
  <1> QED
    BY <1>2, <1>6

\* The newest m of the newest n are the newest m.
LEMMA NewestNewest ==
    ASSUME NEW S, NEW s \in Seq(S), NEW m \in Nat \ {0}, NEW n \in Nat \ {0}, m <= n, n <= Len(s)
    PROVE  V!Newest(V!Newest(s, n), m) = V!Newest(s, m)
  <1> DEFINE b == V!Newest(s, n)
  <1>1. b \in Seq(S) /\ Len(b) = n
    BY NewestIsSubSeq
  <1>2. PICK a \in Seq(S) : s = a \o b
    BY NewestCutsOff
  <1> HIDE DEF b
  <1>3. m <= Len(b)
    BY <1>1
  <1>4. V!Newest(a \o b, m) = V!Newest(b, m)
    BY <1>1, <1>2, <1>3, NewestSuffix
  <1> QED
    BY <1>2, <1>4 DEF b

\* One more element keeps one more of the others.
LEMMA NewestAppended ==
    ASSUME NEW S, NEW s \in Seq(S), NEW e \in S, NEW n \in Nat \ {0}
    PROVE  V!Newest(s \o <<e>>, n + 1) = V!Newest(s, n) \o <<e>>
  <1>1. <<e>> \in Seq(S) /\ Len(<<e>>) = 1 /\ Len(s) \in Nat /\ n + 1 \in Nat \ {0}
    OBVIOUS
  <1>2. s \o <<e>> \in Seq(S) /\ Len(s \o <<e>>) = Len(s) + 1
    BY <1>1, ConcatProperties
  <1>3. CASE Len(s) > n
    <2> DEFINE b == V!Newest(s, n)
    <2>1. b \in Seq(S) /\ Len(b) = n
      BY <1>3, NewestIsSubSeq
    <2>2. PICK a \in Seq(S) : s = a \o b
      <3>1. n <= Len(s)
        BY <1>3
      <3> QED
        BY <3>1, NewestCutsOff
    <2> HIDE DEF b
    <2>3. s \o <<e>> = a \o (b \o <<e>>)
      BY <1>1, <2>1, <2>2, ConcatAssociative
    <2> DEFINE be == b \o <<e>>
    <2>4. be \in Seq(S) /\ Len(be) = n + 1
      BY <1>1, <2>1, ConcatProperties
    <2> HIDE DEF be
    <2>5. n + 1 <= Len(be) /\ ~(Len(be) > n + 1)
      BY <2>4
    <2>6. V!Newest(a \o be, n + 1) = V!Newest(be, n + 1)
      BY <1>1, <2>2, <2>4, <2>5, NewestSuffix
    <2>7. V!Newest(be, n + 1) = SubSeq(be, 1, Len(be))
      BY <2>5 DEF V!Newest
    <2>8. SubSeq(be, 1, Len(be)) = be
      BY <2>4, SubSeqFull
    <2> QED
      BY <2>3, <2>6, <2>7, <2>8 DEF be, b
  <1>4. CASE ~(Len(s) > n)
    <2>1. V!Newest(s, n) = SubSeq(s, 1, Len(s))
      BY <1>4 DEF V!Newest
    <2>2. ~(Len(s \o <<e>>) > n + 1)
      BY <1>1, <1>2, <1>4
    <2>3. V!Newest(s \o <<e>>, n + 1) = SubSeq(s \o <<e>>, 1, Len(s \o <<e>>))
      BY <2>2 DEF V!Newest
    <2> QED
      BY <1>2, <2>1, <2>3, SubSeqFull
  <1> QED
    BY <1>3, <1>4

LEMMA FrontLast ==
    ASSUME NEW S, NEW s \in Seq(S), s # <<>>
    PROVE  /\ Front(s) \in Seq(S) /\ Len(Front(s)) = Len(s) - 1
           /\ Last(s) \in S /\ s = Front(s) \o <<Last(s)>>
  <1> DEFINE k == Len(s) - 1
  <1>1. /\ Len(s) \in Nat \ {0} /\ k \in Nat /\ k + 1 = Len(s)
        /\ 1 \in 1..Len(s) + 1 /\ k \in 1 - 1..Len(s) /\ Len(s) \in k..Len(s)
    BY EmptySeq
  <1>2. Front(s) = SubSeq(s, 1, k) /\ Last(s) = s[Len(s)] /\ Last(s) \in S
    BY <1>1 DEF Front, Last
  <1>3. SubSeq(s, 1, k) \in Seq(S) /\ Len(SubSeq(s, 1, k)) = k
    BY <1>1
  <1>4. SubSeq(s, k + 1, Len(s)) = <<s[Len(s)]>>
    <2> DEFINE l == Len(s)
               t == SubSeq(s, l, l)
    <2>1. l \in Int /\ s[l] \in S /\ l <= l /\ (l - l) + 1 = 1
      BY <1>1
    <2> HIDE DEF l
    <2>2. t \in Seq(S) /\ Len(t) = 1 /\ t[1] = s[l]
      BY <2>1, SubSeqProperties
    <2> HIDE DEF t
    <2>3. t = <<s[l]>>
      BY <2>1, <2>2
    <2> QED
      BY <1>1, <2>3 DEF t, l
  <1> HIDE DEF k
  <1>5. SubSeq(s, 1, k) \o SubSeq(s, k + 1, Len(s)) = SubSeq(s, 1, Len(s))
    BY <1>1, ConcatAdjacentSubSeq
  <1>6. SubSeq(s, 1, Len(s)) = s
    BY SubSeqFull
  <1> QED
    BY <1>2, <1>3, <1>4, <1>5, <1>6 DEF k

\* Three lists joined one after the other, from either side.
Regroups(a, b, c) == (a \o b) \o c = a \o (b \o c)

LEMMA Regrouped ==
    ASSUME NEW S, NEW a \in Seq(S), NEW b \in Seq(S), NEW c \in Seq(S)
    PROVE  Regroups(a, b, c)
  BY ConcatAssociative DEF Regroups

\* What a handler that commits the versions news makes of the history is the
\* line up to the document, then what is kept of news.
LEMMA CommitLine ==
    ASSUME NEW S, NEW undo \in Seq(S), NEW d \in S, NEW redo \in Seq(S),
           NEW news \in Seq(S), news # <<>>
    PROVE  LET kept == V!Newest(undo \o <<d>> \o Front(news), MaxUndo)
               line == LineOf(kept, Last(news), <<>>)
           IN  /\ Len(line) = Len(kept) + 1
               /\ \E n \in 1..Len(line) :
                    line = V!Newest(SubSeq(LineOf(undo, d, redo), 1, Len(undo) + 1)
                                      \o V!Newest(line, n), MaxUndo + 1)
  <1> DEFINE x == undo \o <<d>>
             all == x \o Front(news)
             kept == V!Newest(all, MaxUndo)
             line == kept \o <<Last(news)>>
             N == MaxUndo + 1
  <1>1. x \in Seq(S) /\ Len(x) = Len(undo) + 1 /\ Len(undo) \in Nat
    BY ConcatProperties
  <1>2. Front(news) \in Seq(S) /\ Last(news) \in S /\ news = Front(news) \o <<Last(news)>>
    BY FrontLast
  <1> HIDE DEF x
  <1>3. all \in Seq(S)
    BY <1>1, <1>2, ConcatProperties
  <1>4. kept \in Seq(S) /\ N \in Nat \ {0}
    <2>1. MaxUndo \in Nat \ {0} /\ MaxUndo + 1 \in Nat \ {0}
      BY HistoryAssumption
    <2> HIDE DEF all
    <2>2. kept \in Seq(S)
      BY <1>3, <2>1, NewestProperties
    <2> QED
      BY <2>1, <2>2
  <1>5. LineOf(kept, Last(news), <<>>) = line
    <2>1. Reverse(<<>>) = <<>>
      BY DEF Reverse
    <2> HIDE DEF kept
    <2>2. line \in Seq(S)
      BY <1>2, <1>4
    <2>3. LineOf(kept, Last(news), <<>>) = line \o <<>>
      BY <2>1 DEF LineOf
    <2> HIDE DEF line
    <2> QED
      BY <2>2, <2>3, ConcatEmptySeq
  <1>6. line \in Seq(S) /\ Len(line) = Len(kept) + 1 /\ Len(kept) \in Nat
    <2> HIDE DEF kept
    <2> QED
      BY <1>2, <1>4
  <1>7. SubSeq(LineOf(undo, d, redo), 1, Len(undo) + 1) = x
    <2> DEFINE r == Reverse(redo)
    <2>1. r \in Seq(S) /\ LineOf(undo, d, redo) = x \o r
      BY DEF LineOf, Reverse, x
    <2> HIDE DEF r
    <2>2. SubSeq(x \o r, 1, Len(x)) = SubSeq(x, 1, Len(x))
      <3>1. 1 \in 1..Len(x) /\ Len(x) \in 1..Len(x)
        BY <1>1
      <3> QED
        BY <1>1, <2>1, <3>1, SubSeqOfConcat1
    <2> QED
      BY <1>1, <2>1, <2>2, SubSeqFull
  <1>8. line = V!Newest(x \o news, N) /\ x \o news \in Seq(S)
    <2>1. x \o news = all \o <<Last(news)>>
      <3> DEFINE f == Front(news)
                 e == <<Last(news)>>
      <3>1. e \in Seq(S) /\ f \in Seq(S) /\ news = f \o e
        BY <1>2
      <3> HIDE DEF f, e
      <3>2. (x \o f) \o e = x \o (f \o e)
        <4>1. x \in Seq(S)
          BY <1>1
        <4>2. e \in Seq(S) /\ f \in Seq(S)
          BY <3>1
        <4> HIDE DEF x
        <4>3. Regroups(x, f, e)
          BY <4>1, <4>2, Regrouped
        <4> QED
          BY <4>3 DEF Regroups
      <3> QED
        BY <3>1, <3>2 DEF f, e
    <2> HIDE DEF all
    <2>2. V!Newest(all \o <<Last(news)>>, N) = kept \o <<Last(news)>>
      BY <1>2, <1>3, HistoryAssumption, NewestAppended
    <2> QED
      BY <1>1, <2>1, <2>2, ConcatProperties
  <1> HIDE DEF line, all, N, kept
  <1>9. Len(news) \in Nat \ {0} /\ Len(x \o news) = Len(x) + Len(news) /\ Len(x) \in Nat
    <2>1. Len(news) \in Nat \ {0}
      BY EmptySeq
    <2>2. Len(x \o news) = Len(x) + Len(news)
      BY <1>1, ConcatProperties
    <2> QED
      BY <1>1, <2>1, <2>2
  <1>10. \E n \in 1..Len(line) : line = V!Newest(x \o V!Newest(line, n), N)
    <2>1. CASE Len(news) > N
      <3>1. line = V!Newest(news, N) /\ Len(line) = N
        BY <1>1, <1>4, <1>8, <2>1, NewestSuffix, NewestIsSubSeq
      <3>2. V!Newest(line, N) = line
        <4>1. ~(Len(line) > N)
          BY <3>1, <1>4
        <4>2. V!Newest(line, N) = SubSeq(line, 1, Len(line))
          BY <4>1 DEF V!Newest
        <4> QED
          BY <1>6, <4>2, SubSeqFull
      <3>3. V!Newest(x \o line, N) = V!Newest(line, N)
        <4>1. N <= Len(line)
          BY <3>1, <1>4
        <4> QED
          BY <1>1, <1>4, <1>6, <4>1, NewestSuffix
      <3>4. N \in 1..Len(line)
        BY <1>4, <3>1
      <3> QED
        BY <3>2, <3>3, <3>4
    <2>2. CASE ~(Len(news) > N)
      <3> DEFINE m == Len(news)
      <3>1. V!Newest(line, m) = V!Newest(x \o news, m) /\ m <= Len(line)
        <4>1. CASE Len(x \o news) > N
          <5>1. N <= Len(x \o news) /\ m <= N
            BY <1>4, <1>9, <2>2, <4>1
          <5>2. Len(line) = N
            BY <1>4, <1>8, <5>1, NewestIsSubSeq
          <5> QED
            BY <1>4, <1>8, <1>9, <5>1, <5>2, NewestNewest
        <4>2. CASE ~(Len(x \o news) > N)
          <5>1. line = SubSeq(x \o news, 1, Len(x \o news))
            BY <1>8, <4>2 DEF V!Newest
          <5>2. line = x \o news
            BY <1>8, <5>1, SubSeqFull
          <5>3. m <= Len(line)
            BY <1>9, <5>2
          <5> QED
            BY <5>2, <5>3
        <4> QED
          BY <4>1, <4>2
      <3>2. V!Newest(x \o news, m) = V!Newest(news, m)
        BY <1>1, <1>9, NewestSuffix
      <3>3. V!Newest(news, m) = news
        <4>1. V!Newest(news, m) = SubSeq(news, 1, Len(news))
          BY <1>9 DEF V!Newest
        <4> QED
          BY <4>1, SubSeqFull
      <3>4. m \in 1..Len(line)
        BY <1>6, <1>9, <3>1
      <3> QED
        BY <1>8, <3>1, <3>2, <3>3, <3>4
    <2> QED
      BY <2>1, <2>2
  <1> QED
    BY <1>5, <1>6, <1>7, <1>10 DEF line, kept, all, x, N

-----------------------------------------------------------------------------
(* The two folds of the editor.  FoldLeft recurses over the sets of indices of *)
(* a list, taking the largest first.  That there is a function that does so is *)
(* shown once, for a step that is either of the two; what is said of every     *)
(* result is then shown at a least set where it would fail.                    *)

\* One clip of moved cuts the others; one clip of a batch is split.
CutUnder(left, id, moved, now) ==
    IF id \notin Ids(left) THEN left
    ELSE UNION {IF c.id \in ToSet(moved) THEN {c} ELSE Cut(c, ClipOf(left, id), now) : c \in left}

SplitOne(s, id, time, now) ==
    LET c == ClipOf(s.cs, id)
    IN  IF id \in s.done THEN s
        ELSE [cs |-> SplitGroup(s.cs, c, time, now), done |-> s.done \cup {id} \cup c.linked]

StepOf(cuts, x, id, with, now) ==
    IF cuts THEN CutUnder(x, id, with, now) ELSE SplitOne(x, id, with, now)

Folds(g, T, cuts, base, list, with, now) ==
    g = [U \in SUBSET T |->
           IF U = {} THEN base ELSE StepOf(cuts, g[U \ {Max(U)}], list[Max(U)], with, now)]

LEMMA MaxIn ==
    ASSUME NEW n \in Nat, NEW U \in SUBSET (1..n), U # {}
    PROVE  Max(U) \in U
  <1> DEFINE M == {n - u : u \in U}
  <1>1. M \subseteq Nat /\ M # {}
    <2>1. \A u \in U : n - u \in Nat
      OBVIOUS
    <2> QED
      BY <2>1
  <1>2. PICK m \in M : \A i \in M : <<i, m>> \notin OpToRel(<, Nat)
    <2> HIDE DEF M
    <2> QED
      BY <1>1, NatLessThanWellFounded, WFMin
  <1>3. \A i \in M : ~(i < m)
    BY <1>1, <1>2 DEF OpToRel
  <1>4. PICK u \in U : m = n - u
    OBVIOUS
  <1>5. ASSUME NEW v \in U PROVE u >= v
    <2>1. ~(n - v < n - u)
      BY <1>3, <1>4
    <2> QED
      BY <2>1
  <1> QED
    BY <1>5 DEF Max

\* The indices of a list: a finite set with a largest one in every subset.
Indices(S) == IsFiniteSet(S) /\ \A U \in SUBSET S : U # {} => Max(U) \in U

LEMMA IndicesOfList ==
    ASSUME NEW n \in Nat
    PROVE  Indices(1..n)
  <1>1. IsFiniteSet(1..n)
    BY FS_Interval
  <1>2. \A U \in SUBSET (1..n) : U # {} => Max(U) \in U
    BY MaxIn
  <1> QED
    BY <1>1, <1>2 DEF Indices

\* Sets of subsets of a finite set have a least one.
LEMMA LeastSet ==
    ASSUME NEW S, IsFiniteSet(S), NEW B \in SUBSET (SUBSET S), B # {}
    PROVE  \E T \in B : \A U \in B : U \subseteq T => U = T
  <1> DEFINE R == StrictSubsetOrdering(S)
  <1>1. IsWellFoundedOn(R, SUBSET S)
    BY FS_StrictSubsetOrderingWellFounded, FS_FiniteSubsetsOfFinite
  <1>2. PICK T \in B : \A U \in B : <<U, T>> \notin R
    <2> HIDE DEF R
    <2> QED
      BY <1>1, WFMin
  <1>3. \A U \in B : U \subseteq T => U = T
    BY <1>2 DEF StrictSubsetOrdering
  <1> QED
    BY <1>3

LEMMA FoldsAgree ==
    ASSUME NEW S, Indices(S), NEW T \in SUBSET S,
           NEW cuts, NEW base, NEW list, NEW with, NEW now, NEW g, NEW h,
           Folds(g, S, cuts, base, list, with, now), Folds(h, T, cuts, base, list, with, now)
    PROVE  \A U \in SUBSET T : g[U] = h[U]
  <1> DEFINE B == {U \in SUBSET T : g[U] # h[U]}
  <1>1. SUFFICES ASSUME B # {} PROVE FALSE
    OBVIOUS
  <1>2. PICK U \in B : \A Y \in B : Y \subseteq U => Y = U
    <2>1. IsFiniteSet(T) /\ B \in SUBSET (SUBSET T)
      BY FS_Subset DEF Indices
    <2> HIDE DEF B
    <2> QED
      BY <1>1, <2>1, LeastSet
  <1> DEFINE m == Max(U)
  <1>3. /\ U \subseteq T /\ U \subseteq S /\ g[U] # h[U]
        /\ g[U] = IF U = {} THEN base ELSE StepOf(cuts, g[U \ {m}], list[m], with, now)
        /\ h[U] = IF U = {} THEN base ELSE StepOf(cuts, h[U \ {m}], list[m], with, now)
    BY DEF Folds
  <1>4. U # {} => m \in U
    BY <1>3 DEF Indices
  <1> HIDE DEF m
  <1>5. U # {} => g[U \ {m}] = h[U \ {m}]
    BY <1>2, <1>3, <1>4
  <1> QED
    BY <1>3, <1>5

LEMMA FoldExists ==
    ASSUME NEW S, Indices(S),
           NEW cuts, NEW base, NEW list, NEW with, NEW now
    PROVE  \E g : Folds(g, S, cuts, base, list, with, now)
  <1> DEFINE Fs(g, T) == Folds(g, T, cuts, base, list, with, now)
             B == {T \in SUBSET S : \A g : ~Fs(g, T)}
  <1>1. SUFFICES ASSUME B # {} PROVE FALSE
    OBVIOUS
  <1>2. PICK T \in B : \A Y \in B : Y \subseteq T => Y = T
    <2>1. IsFiniteSet(S) /\ B \in SUBSET (SUBSET S)
      BY FS_Subset DEF Indices
    <2> HIDE DEF B
    <2> QED
      BY <1>1, <2>1, LeastSet
  <1> DEFINE f(U) == CHOOSE g : Fs(g, U)
             W(U) == U \ {Max(U)}
             a(U) == StepOf(cuts, f(W(U))[W(U)], list[Max(U)], with, now)
             g == [U \in SUBSET T |-> IF U = {} THEN base ELSE a(U)]
  <1>3. ASSUME NEW U \in SUBSET T, U # T PROVE Fs(f(U), U)
    <2> HIDE DEF Fs
    <2> QED
      BY <1>2, <1>3
  <1>4. ASSUME NEW U \in SUBSET T, U # {}
        PROVE  g[W(U)] = f(W(U))[W(U)]
    <2> DEFINE Y == W(U)
    <2>1. Y \in SUBSET T /\ Y # T
      BY <1>4 DEF Indices
    <2>2. Fs(f(Y), Y)
      BY <1>3, <2>1
    <2>3. CASE Y = {}
      <3>1. f(Y)[Y] = base
        BY <2>2, <2>3 DEF Folds
      <3> QED
        BY <2>3, <3>1
    <2>4. CASE Y # {}
      <3> DEFINE X == W(Y)
      <3>1. Max(Y) \in Y /\ X \in SUBSET Y /\ X \in SUBSET T /\ X # T /\ Indices(Y)
        BY <2>1, <2>4, FS_Subset DEF Indices
      <3>2. Fs(f(X), X)
        BY <1>3, <3>1
      <3>3. f(Y)[X] = f(X)[X]
        <4> HIDE DEF f, X, Y
        <4> QED
          BY <2>2, <3>1, <3>2, FoldsAgree
      <3>4. f(Y)[Y] = StepOf(cuts, f(Y)[X], list[Max(Y)], with, now)
        <4> HIDE DEF f
        <4> QED
          BY <2>2, <2>4 DEF Folds
      <3>5. g[Y] = StepOf(cuts, f(X)[X], list[Max(Y)], with, now)
        <4> HIDE DEF f
        <4> QED
          BY <2>1, <2>4
      <3> QED
        BY <3>3, <3>4, <3>5
    <2> QED
      BY <2>3, <2>4
  <1>5. Fs(g, T)
    <2> HIDE DEF f
    <2> QED
      BY <1>4 DEF Folds
  <1> QED
    BY <1>5

\* ResolveOverlaps and SplitEach are such folds.
LEMMA OverlapsFold ==
    ASSUME NEW cs, NEW moved, NEW now, Indices(DOMAIN moved)
    PROVE  \E g : /\ Folds(g, DOMAIN moved, TRUE, cs, moved, moved, now)
                  /\ ResolveOverlaps(cs, moved, now) = g[DOMAIN moved]
  <1> DEFINE Runs(g) ==
               g = [U \in SUBSET (DOMAIN moved) |->
                      IF U = {} THEN cs ELSE CutUnder(g[U \ {Max(U)}], moved[Max(U)], moved, now)]
             h == CHOOSE g : Runs(g)
  <1>1. ASSUME NEW g PROVE Runs(g) <=> Folds(g, DOMAIN moved, TRUE, cs, moved, moved, now)
    BY DEF Folds, StepOf
  <1>2. \E g : Runs(g)
    BY <1>1, FoldExists
  <1>3. Runs(h)
    <2> HIDE DEF Runs
    <2> QED
      BY <1>2
  <1>4. ResolveOverlaps(cs, moved, now) = h[DOMAIN moved]
    BY DEF ResolveOverlaps, FoldLeft, MapThenFoldSet, CutUnder
  <1> QED
    BY <1>1, <1>3, <1>4

LEMMA SplitsFold ==
    ASSUME NEW cs, NEW batch, NEW time, NEW now, Indices(DOMAIN batch)
    PROVE  \E g : /\ Folds(g, DOMAIN batch, FALSE, [cs |-> cs, done |-> {}], batch, time, now)
                  /\ SplitEach(cs, batch, time, now) = g[DOMAIN batch].cs
  <1> DEFINE base == [cs |-> cs, done |-> {}]
             Runs(g) ==
               g = [U \in SUBSET (DOMAIN batch) |->
                      IF U = {} THEN base ELSE SplitOne(g[U \ {Max(U)}], batch[Max(U)], time, now)]
             h == CHOOSE g : Runs(g)
  <1>1. ASSUME NEW g PROVE Runs(g) <=> Folds(g, DOMAIN batch, FALSE, base, batch, time, now)
    BY DEF Folds, StepOf
  <1>2. \E g : Runs(g)
    BY <1>1, FoldExists
  <1>3. Runs(h)
    <2> HIDE DEF Runs
    <2> QED
      BY <1>2
  <1>4. SplitEach(cs, batch, time, now) = h[DOMAIN batch].cs
    BY DEF SplitEach, FoldLeft, MapThenFoldSet, SplitOne
  <1> QED
    BY <1>1, <1>3, <1>4

-----------------------------------------------------------------------------
(* What becomes of clips: copies, halves and what is left of a clip show the   *)
(* asset it showed, on its track.                                              *)

Shaped(c) == IsClip(c) /\ c.id \in Made(Now)
Same(c, d) == Shaped(c) /\ c.asset = d.asset /\ c.track = d.track

\* Ids made up to a time were made up to a later one.
LEMMA MadeLater ==
    ASSUME minted \in Nat
    PROVE  /\ Made(minted) \subseteq Made(Now) /\ \A id \in Made(Now) : Append(id, Now) \in Made(Now)
           /\ <<Now>> \in Made(Now) /\ <<Now, 0>> \in Made(Now)
  <1> DEFINE S == {k \in Int : k <= minted}
             T == {k \in Int : k <= Now}
  <1>1. S \subseteq T /\ Now \in T /\ 0 \in T
    BY DEF Now
  <1> HIDE DEF S, T
  <1>2. Seq(S) \subseteq Seq(T) /\ <<Now>> \in Seq(T) /\ <<Now, 0>> \in Seq(T)
    BY <1>1
  <1>3. \A id \in Seq(T) : Append(id, Now) \in Seq(T) /\ Append(id, Now) # <<>>
    BY <1>1
  <1>4. Made(minted) = Seq(S) \ {<<>>} /\ Made(Now) = Seq(T) \ {<<>>}
    BY DEF Made, S, T
  <1>5. Made(minted) \subseteq Made(Now)
    BY <1>2, <1>4
  <1>6. <<Now>> # <<>> /\ <<Now, 0>> # <<>>
    OBVIOUS
  <1> QED
    BY <1>2, <1>3, <1>4, <1>5, <1>6

\* Finitely many clips, each the same as one of those of old.
Kin(cs, old) == IsFiniteSet(cs) /\ \A c \in cs : \E d \in old : Same(c, d)

LEMMA ImageFinite ==
    ASSUME NEW S, IsFiniteSet(S), NEW f
    PROVE  IsFiniteSet({f[x] : x \in S})
  <1> DEFINE T == {f[x] : x \in S}
             g == [x \in S |-> f[x]]
  <1>1. g \in Surjection(S, T)
    BY DEF Surjection
  <1> HIDE DEF g, T
  <1>2. IsFiniteSet(T)
    BY <1>1, FS_Surjection
  <1> QED
    BY <1>2 DEF T

LEMMA FewFinite ==
    /\ IsFiniteSet({}) /\ \A x, y : IsFiniteSet({x}) /\ IsFiniteSet({x, y})
    /\ \A S, T : IsFiniteSet(S) /\ IsFiniteSet(T) => IsFiniteSet(S \cup T)
  <1>1. \A S, T : IsFiniteSet(S) /\ IsFiniteSet(T) => IsFiniteSet(S \cup T)
    BY FS_Union
  <1>2. \A x : IsFiniteSet({x})
    BY FS_Singleton
  <1>3. \A x, y : IsFiniteSet({x, y})
    <2> TAKE x, y
    <2>1. {x, y} = {x} \cup {y} /\ IsFiniteSet({x}) /\ IsFiniteSet({y})
      BY <1>2
    <2> QED
      BY <1>1, <2>1
  <1>4. IsFiniteSet({})
    BY FS_EmptySet
  <1> QED
    BY <1>1, <1>2, <1>3, <1>4

LEMMA SameSelf ==
    ASSUME NEW c, Shaped(c)
    PROVE  Same(c, c)
  BY DEF Same

LEMMA CopyIs ==
    ASSUME minted \in Nat, NEW c, Shaped(c)
    PROVE  /\ Same(Copy(c, Now), c) /\ Copy(c, Now).start = c.start /\ Copy(c, Now).dur = c.dur
           /\ Copy(c, Now).trimStart = c.trimStart /\ Copy(c, Now).speed = c.speed
           /\ Copy(c, Now).id = Append(c.id, Now)
  <1> DEFINE d == Copy(c, Now)
  <1>1. /\ DOMAIN d = ClipFields /\ d.start = c.start /\ d.dur = c.dur /\ d.trimStart = c.trimStart
        /\ d.trimEnd = c.trimEnd /\ d.speed = c.speed /\ d.take = c.take /\ d.reversed = c.reversed /\ d.asset = c.asset
        /\ d.track = c.track /\ d.id = Append(c.id, Now)
    BY DEF Shaped, IsClip, ClipFields, Copy
  <1> HIDE DEF d
  <1>2. d.id \in Made(Now)
    BY <1>1, MadeLater DEF Shaped
  <1>3. Same(d, c)
    BY <1>1, <1>2 DEF Shaped, IsClip, Same
  <1> QED
    BY <1>1, <1>3 DEF d

LEMMA PartsSame ==
    ASSUME NEW c, Shaped(c), NEW s, s \in Int
    PROVE  Same(UpTo(c, s), c) /\ Same(From(c, s), c)
  <1>1. Same(UpTo(c, s), c)
    <2> DEFINE d == UpTo(c, s)
    <2>1. /\ DOMAIN d = ClipFields /\ d.start = c.start /\ d.dur = s - c.start /\ d.trimStart = c.trimStart
          /\ d.trimEnd = c.trimEnd /\ d.speed = c.speed /\ d.take = c.take /\ d.reversed = c.reversed /\ d.asset = c.asset
          /\ d.track = c.track /\ d.id = c.id
      BY DEF Shaped, IsClip, ClipFields, UpTo
    <2> HIDE DEF d
    <2> QED
      BY <2>1 DEF Shaped, IsClip, Same, d
  <1>2. Same(From(c, s), c)
    <2> DEFINE d == From(c, s)
               at == c.trimStart + (s - c.start) * c.speed
    <2>1. /\ DOMAIN d = ClipFields /\ d.start = s /\ d.dur = End(c) - s /\ d.trimStart = at
          /\ d.trimEnd = c.trimEnd /\ d.speed = c.speed /\ d.take = c.take /\ d.reversed = c.reversed /\ d.asset = c.asset
          /\ d.track = c.track /\ d.id = c.id
      BY DEF Shaped, IsClip, ClipFields, From
    <2>2. at \in Int /\ End(c) \in Int
      <3>1. (s - c.start) \in Int /\ c.speed \in Int /\ c.trimStart \in Int /\ c.dur \in Int /\ c.start \in Int
        BY DEF Shaped, IsClip
      <3> QED
        BY <3>1 DEF End
    <2> HIDE DEF d, at
    <2> QED
      BY <2>1, <2>2 DEF Shaped, IsClip, Same, d
  <1> QED
    BY <1>1, <1>2

LEMMA EndIs ==
    ASSUME NEW c, Shaped(c)
    PROVE  End(c) \in Int /\ c.start \in Int
  BY DEF Shaped, IsClip, End

LEMMA CutSame ==
    ASSUME minted \in Nat, NEW c, Shaped(c), NEW m, Shaped(m)
    PROVE  IsFiniteSet(Cut(c, m, Now)) /\ \A x \in Cut(c, m, Now) : Same(x, c)
  <1> DEFINE tail == IF c.start < m.start THEN Copy(c, Now) ELSE c
  <1>1. Same(c, c) /\ Same(tail, c) /\ Shaped(tail)
    BY CopyIs, SameSelf DEF Same
  <1> HIDE DEF tail
  <1>2. Same(UpTo(c, m.start), c) /\ Same(From(tail, End(m)), tail)
    BY <1>1, EndIs, PartsSame
  <1>3. Cut(c, m, Now) \in {{c}, {}, {UpTo(c, m.start)}, {From(tail, End(m))},
                            {UpTo(c, m.start), From(tail, End(m))}}
    BY DEF Cut, tail
  <1> QED
    BY <1>1, <1>2, <1>3, FewFinite DEF Same

LEMMA CutUnderKin ==
    ASSUME minted \in Nat, NEW old, NEW left, Kin(left, old), NEW id, NEW moved
    PROVE  Kin(CutUnder(left, id, moved, Now), old)
  <1> DEFINE m == ClipOf(left, id)
             f == [c \in left |-> IF c.id \in ToSet(moved) THEN {c} ELSE Cut(c, m, Now)]
             T == {f[c] : c \in left}
  <1>0. SUFFICES ASSUME id \in Ids(left) PROVE Kin(CutUnder(left, id, moved, Now), old)
    BY DEF CutUnder
  <1>1. ASSUME NEW c \in left
        PROVE  /\ IsFiniteSet(f[c])
               /\ \A x \in f[c] : Same(x, c)
    <2>1. Shaped(c) /\ Same(c, c)
      BY DEF Kin, Same, Shaped
    <2>2. CASE c.id \in ToSet(moved)
      BY <2>1, <2>2, FewFinite
    <2>3. CASE c.id \notin ToSet(moved)
      <3>1. m \in left
        BY <1>0 DEF ClipOf, Ids
      <3>2. Shaped(m)
        BY <3>1 DEF Kin, Same
      <3> HIDE DEF m
      <3> QED
        BY <2>1, <2>3, <3>2, CutSame
    <2> QED
      BY <2>2, <2>3
  <1>2. CutUnder(left, id, moved, Now) = UNION T
    BY <1>0 DEF CutUnder
  <1> HIDE DEF f
  <1>3. IsFiniteSet(UNION T)
    <2>1. IsFiniteSet(T)
      BY ImageFinite DEF Kin
    <2>2. \A t \in T : IsFiniteSet(t)
      BY <1>1
    <2> HIDE DEF T
    <2> QED
      BY <2>1, <2>2, FS_UNION
  <1>4. ASSUME NEW x \in UNION T PROVE \E d \in old : Same(x, d)
    <2>1. PICK c \in left : x \in f[c]
      OBVIOUS
    <2>2. PICK d \in old : Same(c, d)
      BY DEF Kin
    <2> QED
      BY <1>1, <2>1, <2>2 DEF Same
  <1> HIDE DEF T
  <1> QED
    BY <1>2, <1>3, <1>4 DEF Kin

\* Overwriting leaves parts of the clips there were.
LEMMA OverlapsKin ==
    ASSUME minted \in Nat, NEW cs, Kin(cs, cs), NEW moved, Indices(DOMAIN moved)
    PROVE  Kin(ResolveOverlaps(cs, moved, Now), cs)
  <1> DEFINE D == DOMAIN moved
  <1>1. PICK g : /\ Folds(g, D, TRUE, cs, moved, moved, Now)
                 /\ ResolveOverlaps(cs, moved, Now) = g[D]
    BY OverlapsFold
  <1> HIDE DEF D
  <1> DEFINE B == {U \in SUBSET D : ~Kin(g[U], cs)}
  <1>2. SUFFICES ASSUME B # {} PROVE FALSE
    BY <1>1
  <1>3. PICK U \in B : \A W \in B : W \subseteq U => W = U
    <2>1. IsFiniteSet(D) /\ B \in SUBSET (SUBSET D)
      BY DEF Indices, D
    <2> HIDE DEF B
    <2> QED
      BY <1>2, <2>1, LeastSet
  <1>4. U # {}
    BY <1>1, <1>3 DEF Folds
  <1> DEFINE m == Max(U)
  <1>5. m \in U /\ g[U] = CutUnder(g[U \ {m}], moved[m], moved, Now)
    BY <1>1, <1>4 DEF Indices, D, Folds, StepOf
  <1> HIDE DEF m
  <1>6. Kin(g[U \ {m}], cs)
    BY <1>3, <1>5
  <1> QED
    BY <1>5, <1>6, CutUnderKin

LEMMA HalvesSame ==
    ASSUME minted \in Nat, NEW c, Shaped(c), NEW time, time \in Int, NEW linked
    PROVE  /\ Same(FirstHalf(c, time, linked), c) /\ FirstHalf(c, time, linked).id = c.id
           /\ Same(SecondHalf(c, time, Now, linked), c)
  <1>0. c.start \in Int /\ End(c) \in Int
    BY EndIs
  <1>1. Same(FirstHalf(c, time, linked), c) /\ FirstHalf(c, time, linked).id = c.id
    <2> DEFINE d == FirstHalf(c, time, linked)
    <2>1. /\ DOMAIN d = ClipFields /\ d.start = c.start /\ d.dur = time - c.start /\ d.trimStart = c.trimStart
          /\ d.trimEnd = c.trimEnd + (End(c) - time) /\ d.speed = c.speed /\ d.take = c.take /\ d.reversed = c.reversed
          /\ d.asset = c.asset /\ d.track = c.track /\ d.id = c.id
      BY DEF Shaped, IsClip, ClipFields, FirstHalf
    <2> HIDE DEF d
    <2> QED
      BY <1>0, <2>1 DEF Shaped, IsClip, Same, d
  <1>2. Same(SecondHalf(c, time, Now, linked), c)
    <2> DEFINE b == Copy(c, Now)
               d == SecondHalf(c, time, Now, linked)
    <2>1. Same(b, c) /\ b.trimStart = c.trimStart
      BY CopyIs
    <2>2. d = [b EXCEPT !.start = time, !.dur = End(c) - time, !.linked = linked,
                        !.trimStart = @ + (time - c.start)]
      BY DEF SecondHalf
    <2> HIDE DEF b, d
    <2>3. /\ DOMAIN d = ClipFields /\ d.start = time /\ d.dur = End(c) - time
          /\ d.trimStart = c.trimStart + (time - c.start)
          /\ d.trimEnd = b.trimEnd /\ d.speed = b.speed /\ d.take = b.take /\ d.reversed = b.reversed
          /\ d.asset = b.asset /\ d.track = b.track /\ d.id = b.id
      BY <2>1, <2>2 DEF Same, Shaped, IsClip, ClipFields
    <2> QED
      BY <1>0, <2>1, <2>3 DEF Shaped, IsClip, Same, d
  <1> QED
    BY <1>1, <1>2

\* The clips of a group are split, and no id is lost.
LEMMA SplitGroupKin ==
    ASSUME minted \in Nat, NEW old, NEW cs, Kin(cs, old), NEW c \in cs, NEW time, time \in Int
    PROVE  /\ Kin(SplitGroup(cs, c, time, Now), old)
           /\ Ids(cs) \subseteq Ids(SplitGroup(cs, c, time, Now))
  <1> DEFINE group == {d \in cs : d.id \in c.linked}
             both  == {d \in group : Splits(d, time)}
             New2  == {Append(d.id, Now) : d \in both}
             one   == FirstHalf(c, time, Ids(group))
             two   == SecondHalf(c, time, Now, New2)
             f == [d \in both |-> FirstHalf(d, time, {c.id})]
             g == [d \in both |-> SecondHalf(d, time, Now, {Append(c.id, Now)})]
             rest == cs \ ({c} \cup both)
             firsts == {f[d] : d \in both}
             seconds == {g[d] : d \in both}
  <1>1. SplitGroup(cs, c, time, Now) = rest \cup {one, two} \cup firsts \cup seconds
    BY DEF SplitGroup
  <1>2. both \subseteq cs /\ \A d \in cs : Shaped(d)
    BY DEF Kin, Same
  <1> HIDE DEF group, New2
  <1>3. Same(one, c) /\ one.id = c.id /\ Same(two, c)
    BY <1>2, HalvesSame
  <1>4. \A d \in both : Same(f[d], d) /\ f[d].id = d.id /\ Same(g[d], d)
    BY <1>2, HalvesSame
  <1> HIDE DEF one, two, f, g, both
  <1>5. IsFiniteSet(rest \cup {one, two} \cup firsts \cup seconds)
    <2>1. IsFiniteSet(rest) /\ IsFiniteSet(both)
      BY <1>2, FS_Subset DEF Kin
    <2>2. IsFiniteSet(firsts) /\ IsFiniteSet(seconds)
      BY <2>1, ImageFinite
    <2> HIDE DEF rest, firsts, seconds
    <2> QED
      BY <2>1, <2>2, FewFinite
  <1>6. \A x \in rest \cup {one, two} \cup firsts \cup seconds : \E d \in cs : Same(x, d)
    <2>1. \A d \in cs : Same(d, d)
      BY <1>2 DEF Same
    <2> QED
      BY <1>2, <1>3, <1>4, <2>1
  <1>7. \A x \in rest \cup {one, two} \cup firsts \cup seconds : \E d \in old : Same(x, d)
    <2> TAKE x \in rest \cup {one, two} \cup firsts \cup seconds
    <2>1. PICK e \in cs : Same(x, e)
      BY <1>6
    <2>2. PICK d \in old : Same(e, d)
      BY DEF Kin
    <2> QED
      BY <2>1, <2>2 DEF Same
  <1>8. Ids(cs) \subseteq Ids(rest \cup {one, two} \cup firsts \cup seconds)
    <2> SUFFICES ASSUME NEW d \in cs
                 PROVE  \E x \in rest \cup {one, two} \cup firsts \cup seconds : x.id = d.id
      BY DEF Ids
    <2>1. CASE d = c
      BY <1>3, <2>1
    <2>2. CASE d \in both
      BY <1>4, <2>2
    <2>3. CASE d # c /\ d \notin both
      BY <2>3
    <2> QED
      BY <2>1, <2>2, <2>3
  <1> QED
    BY <1>1, <1>5, <1>7, <1>8 DEF Kin

LEMMA SplitsKin ==
    ASSUME minted \in Nat, NEW cs, Kin(cs, cs), NEW batch, NEW time, time \in Int, Indices(DOMAIN batch),
           \A i \in DOMAIN batch : batch[i] \in Ids(cs)
    PROVE  Kin(SplitEach(cs, batch, time, Now), cs)
  <1> DEFINE D == DOMAIN batch
             Good(s) == Kin(s.cs, cs) /\ Ids(cs) \subseteq Ids(s.cs)
  <1>1. PICK g : /\ Folds(g, D, FALSE, [cs |-> cs, done |-> {}], batch, time, Now)
                 /\ SplitEach(cs, batch, time, Now) = g[D].cs
    BY SplitsFold
  <1> HIDE DEF D
  <1> DEFINE B == {U \in SUBSET D : ~Good(g[U])}
  <1>2. SUFFICES ASSUME B # {} PROVE FALSE
    BY <1>1
  <1>3. PICK U \in B : \A W \in B : W \subseteq U => W = U
    <2>1. IsFiniteSet(D) /\ B \in SUBSET (SUBSET D)
      BY DEF Indices, D
    <2> HIDE DEF B
    <2> QED
      BY <1>2, <2>1, LeastSet
  <1>4. U # {}
    <2>1. g[{}] = [cs |-> cs, done |-> {}]
      BY <1>1 DEF Folds
    <2>2. Good(g[{}])
      BY <2>1
    <2> QED
      BY <1>3, <2>2
  <1> DEFINE m == Max(U)
             s == g[U \ {m}]
             id == batch[m]
  <1>5. m \in U /\ g[U] = SplitOne(s, id, time, Now)
    BY <1>1, <1>4 DEF Indices, D, Folds, StepOf
  <1>6. id \in Ids(cs)
    BY <1>3, <1>5 DEF D
  <1> HIDE DEF m
  <1>7. Good(s)
    BY <1>3, <1>5
  <1> HIDE DEF s, id
  <1>8. Good(SplitOne(s, id, time, Now))
    <2>1. CASE id \in s.done
      BY <1>7, <2>1 DEF SplitOne
    <2>2. CASE id \notin s.done
      <3> DEFINE c == ClipOf(s.cs, id)
      <3>1. c \in s.cs
        BY <1>6, <1>7 DEF ClipOf, Ids
      <3>2. SplitOne(s, id, time, Now).cs = SplitGroup(s.cs, c, time, Now)
        BY <2>2 DEF SplitOne
      <3> HIDE DEF c
      <3> QED
        BY <1>7, <3>1, <3>2, SplitGroupKin
    <2> QED
      BY <2>1, <2>2
  <1> QED
    BY <1>3, <1>5, <1>8

-----------------------------------------------------------------------------
(* Undo and redo walk the line: the last version to undo and the document trade *)
(* places across the same line, and back.                                      *)

LEMMA ReverseAppend ==
    ASSUME NEW S, NEW r \in Seq(S), NEW d \in S
    PROVE  Reverse(Append(r, d)) = <<d>> \o Reverse(r)
  <1> DEFINE n == Len(r)
             a == Append(r, d)
             x == Reverse(a)
             y == Reverse(r)
             z == <<d>> \o y
  <1>1. n \in Nat /\ Len(a) = n + 1 /\ \A i \in 1..n + 1 : a[i] = IF i = n + 1 THEN d ELSE r[i]
    OBVIOUS
  <1>2. x \in Seq(S) /\ Len(x) = n + 1 /\ \A i \in 1..n + 1 : x[i] = a[(n + 1 - i) + 1]
    BY DEF Reverse
  <1>3. y \in Seq(S) /\ Len(y) = n /\ \A i \in 1..n : y[i] = r[(n - i) + 1]
    BY DEF Reverse
  <1> HIDE DEF a, x, y
  <1>4. z \in Seq(S) /\ Len(z) = n + 1 /\ \A i \in 1..n + 1 : z[i] = IF i = 1 THEN d ELSE y[i - 1]
    BY <1>1, <1>3, ConcatProperties
  <1> HIDE DEF z, n
  <1>5. ASSUME NEW i \in 1..n + 1 PROVE x[i] = z[i]
    <2>1. CASE i = 1
      <3>1. (n + 1 - i) + 1 = n + 1 /\ n + 1 \in 1..n + 1
        BY <1>1, <2>1
      <3> QED
        BY <1>1, <1>2, <1>4, <2>1, <3>1
    <2>2. CASE i # 1
      <3> DEFINE j == (n + 1 - i) + 1
      <3>1. i - 1 \in 1..n /\ j \in 1..n + 1 /\ j # n + 1 /\ (n - (i - 1)) + 1 = j
        BY <1>1, <2>2
      <3>2. x[i] = a[j]
        BY <1>2
      <3> HIDE DEF j
      <3>3. a[j] = r[j] /\ z[i] = y[i - 1] /\ y[i - 1] = r[j]
        BY <1>1, <1>3, <1>4, <2>2, <3>1
      <3> QED
        BY <3>2, <3>3
    <2> QED
      BY <2>1, <2>2
  <1>6. x = z
    BY <1>1, <1>2, <1>4, <1>5, SeqEqual
  <1> QED
    BY <1>6 DEF x, z, a, y

\* The line of versions is the same after the last one of u becomes the current one.
Walks(u, d, r) == LineOf(Front(u), Last(u), Append(r, d)) = LineOf(u, d, r)

LEMMA WalkLine ==
    ASSUME NEW S, NEW u \in Seq(S), u # <<>>, NEW d \in S, NEW r \in Seq(S)
    PROVE  /\ Walks(u, d, r)
           /\ Front(u) \in Seq(S) /\ Last(u) \in S /\ Len(Front(u)) = Len(u) - 1
           /\ Append(r, d) \in Seq(S)
  <1> DEFINE f == Front(u)
             l == <<Last(u)>>
             t == Reverse(r)
             e == <<d>>
  <1>1. f \in Seq(S) /\ Last(u) \in S /\ l \in Seq(S) /\ u = f \o l /\ Len(f) = Len(u) - 1
    <2>1. f \in Seq(S) /\ Len(f) = Len(u) - 1 /\ Last(u) \in S /\ u = f \o l
      BY FrontLast
    <2>2. l \in Seq(S)
      BY <2>1
    <2> QED
      BY <2>1, <2>2
  <1>2. t \in Seq(S) /\ e \in Seq(S)
    BY DEF Reverse
  <1>3. LineOf(f, Last(u), Append(r, d)) = (f \o l) \o (e \o t)
    BY ReverseAppend DEF LineOf
  <1>4. LineOf(u, d, r) = (u \o e) \o t
    BY DEF LineOf
  <1> HIDE DEF f, l, t, e
  <1>5. (u \o e) \o t = u \o (e \o t)
    BY <1>2, ConcatAssociative
  <1>6. Append(r, d) \in Seq(S)
    OBVIOUS
  <1> QED
    BY <1>1, <1>3, <1>4, <1>5, <1>6 DEF f, Walks

LEMMA WalkBack ==
    ASSUME NEW S, NEW u \in Seq(S), NEW d \in S, NEW r \in Seq(S), r # <<>>
    PROVE  /\ LineOf(Append(u, d), Last(r), Front(r)) = LineOf(u, d, r)
           /\ Front(r) \in Seq(S) /\ Last(r) \in S /\ Len(Append(u, d)) = Len(u) + 1
           /\ Append(u, d) \in Seq(S)
  <1> DEFINE f == Front(r)
             l == Last(r)
             w == Append(u, d)
  <1>1. f \in Seq(S) /\ l \in S /\ r = f \o <<l>>
    BY FrontLast
  <1>2. w \in Seq(S) /\ w # <<>> /\ Len(w) = Len(u) + 1 /\ Len(u) \in Nat /\ w = u \o <<d>>
    BY AppendIsConcat
  <1>3. Append(f, l) = r
    BY <1>1, AppendIsConcat
  <1>4. Front(w) = u /\ Last(w) = d
    <2>1. Front(w) \in Seq(S) /\ Len(Front(w)) = Len(w) - 1 /\ Last(w) = w[Len(w)]
      BY <1>2, FrontLast DEF Last
    <2>2. Front(w) = SubSeq(w, 1, Len(u)) /\ w[Len(u) + 1] = d
      BY <1>2 DEF Front
    <2>3. SubSeq(w, 1, Len(u)) = SubSeq(u, 1, Len(u))
      <3> DEFINE e == <<d>>
      <3>1. e \in Seq(S) /\ w = u \o e
        BY <1>2
      <3>2. CASE u = <<>>
        BY <1>2, <3>2
      <3>3. CASE u # <<>>
        <4>1. 1 \in 1..Len(u) /\ Len(u) \in 1..Len(u)
          BY <1>2, <3>3, EmptySeq
        <4> HIDE DEF e, w
        <4> QED
          BY <3>1, <4>1, SubSeqOfConcat1
      <3> QED
        BY <3>2, <3>3
    <2> HIDE DEF w
    <2> QED
      BY <1>2, <2>1, <2>2, <2>3, SubSeqFull
  <1> HIDE DEF f, l, w
  <1>5. LineOf(Front(w), Last(w), Append(f, l)) = LineOf(w, l, f)
    <2>1. f \in Seq(S) /\ l \in S /\ w \in Seq(S) /\ w # <<>>
      BY <1>1, <1>2
    <2>2. Walks(w, l, f)
      BY <2>1, WalkLine
    <2> QED
      BY <2>2 DEF Walks
  <1> QED
    BY <1>1, <1>2, <1>3, <1>4, <1>5 DEF f, l, w

-----------------------------------------------------------------------------
(* The invariant: every version undo and redo can bring back is a project.     *)

Histories == IsList(undoStack) /\ IsList(redoStack)

\* What a paste and a drop of the mouse take from an earlier document.
HeldClips ==
    /\ IsFiniteSet(clipboard) /\ \A c \in clipboard : IsClip(c) /\ c.id \in Made(minted)
    /\ gesture # None =>
         /\ gesture.tool = "drag" =>
              /\ IsFiniteSet(DOMAIN gesture.to)
              /\ \A id \in DOMAIN gesture.to : id \in Made(minted) /\ gesture.to[id].start \in Int
         /\ gesture.tool \in Trims =>
              IsClip(gesture.base) /\ (gesture.other # None => IsClip(gesture.other))
         /\ gesture.tool \in {"slip", "slide"} =>
              /\ IsClip(gesture.base)
              /\ \A c \in {gesture.previous, gesture.next} : c # None => IsClip(c)

\* A version of a project, its ids made up to a time: what a handler makes.
Version(d, now) == IsProject(d) /\ MadeBy(d, now)

ClipsIn(cs, as) ==
    IsFiniteSet(cs) /\ \A c \in cs : Shaped(c) /\ c.asset \in DOMAIN as \cup {None}

Line(line, as) ==
    /\ DOMAIN line = {"id", "tracks", "clips", "subs"}
    /\ AreTracks(line.tracks) /\ ClipsIn(line.clips, as) /\ AreCues(line.subs)

AssetsIn(as) == \A a \in DOMAIN as : IsAsset(as[a])

LEMMA VersionIs ==
    \A d : Version(d, Now) <=>
             /\ DOMAIN d = {"assets", "lines"} /\ AssetsIn(d.assets) /\ IsList(d.lines)
             /\ \A i \in DOMAIN d.lines : Line(d.lines[i], d.assets)
  BY DEF Version, IsProject, MadeBy, AssetsIn, Line, IsLine, ClipsIn, AreClips, Shaped

IInv ==
    /\ Histories
    /\ \A d \in Versions : Version(d, minted)
    /\ minted \in Nat
    /\ HeldClips

\* The versions a handler commits.
Projects(news) ==
    IsList(news) /\ news # <<>> /\ \A i \in DOMAIN news : Version(news[i], Now)

LEMMA ListIn ==
    ASSUME NEW S, NEW s \in Seq(S)
    PROVE  IsList(s)
  BY SeqOfRange DEF IsList

LEMMA ListOf ==
    ASSUME NEW S, NEW s, IsList(s), \A i \in DOMAIN s : s[i] \in S
    PROVE  s \in Seq(S)
  <1>1. s \in Seq(Range(s))
    BY DEF IsList
  <1>2. Range(s) \subseteq S
    BY DEF Range
  <1> QED
    BY <1>1, <1>2

LEMMA VersionsAre ==
    ASSUME NEW S, undoStack \in Seq(S), doc \in S, redoStack \in Seq(S)
    PROVE  Versions \subseteq S
  BY DEF Versions, ToSet

\* The versions there are and those that are set, as one set of projects.
LEMMA ProjectSet ==
    ASSUME IInv, NEW news, Projects(news)
    PROVE  \E S : /\ undoStack \in Seq(S) /\ doc \in S /\ redoStack \in Seq(S) /\ news \in Seq(S)
                  /\ \A d \in S : Version(d, Now)
  <1> DEFINE S == Versions \cup Range(news)
  <1>1. undoStack \in Seq(S) /\ redoStack \in Seq(S)
    <2>1. IsList(undoStack) /\ IsList(redoStack)
      BY DEF IInv, Histories
    <2>2. \A i \in DOMAIN undoStack : undoStack[i] \in S
      BY DEF Versions, ToSet
    <2>3. \A i \in DOMAIN redoStack : redoStack[i] \in S
      BY DEF Versions, ToSet
    <2> HIDE DEF S
    <2> QED
      BY <2>1, <2>2, <2>3, ListOf
  <1>2. news \in Seq(S)
    <2>1. IsList(news) /\ \A i \in DOMAIN news : news[i] \in S
      BY DEF Projects, Range
    <2> HIDE DEF S
    <2> QED
      BY <2>1, ListOf
  <1>3. doc \in S /\ \A d \in S : Version(d, Now)
    <2>1. Made(minted) \subseteq Made(Now)
      BY MadeLater DEF IInv
    <2> QED
      BY <2>1 DEF IInv, Projects, Versions, Range, Version, MadeBy
  <1> QED
    BY <1>1, <1>2, <1>3

\* What the three kinds of step do to the history.
Kept(now) == Histories' /\ (\A d \in Versions' : Version(d, now)) /\ [V!Next]_(V!line)

LEMMA VersionsNext ==
    ASSUME NEW now, NEW S, undoStack' \in Seq(S), doc' \in S, redoStack' \in Seq(S),
           \A d \in S : Version(d, now)
    PROVE  Histories' /\ \A d \in Versions' : Version(d, now)
  <1>1. IsList(undoStack') /\ IsList(redoStack')
    BY ListIn
  <1>2. Versions' \subseteq S
    BY DEF Versions, ToSet
  <1> QED
    BY <1>1, <1>2 DEF Histories

LEMMA RecordKeeps ==
    ASSUME IInv, NEW news, Projects(news), Record(news)
    PROVE  Kept(Now) /\ Version(doc', Now) /\ doc' = Last(news)
  <1>1. PICK S : /\ undoStack \in Seq(S) /\ doc \in S /\ redoStack \in Seq(S) /\ news \in Seq(S)
                 /\ \A d \in S : Version(d, Now)
    BY ProjectSet
  <1>2. news # <<>> /\ Last(news) \in S /\ Front(news) \in Seq(S)
    <2>1. news # <<>>
      BY DEF Projects
    <2> QED
      BY <1>1, <2>1, FrontLast
  <1> DEFINE all == undoStack \o <<doc>> \o Front(news)
  <1>3. undoStack' = V!Newest(all, MaxUndo) /\ redoStack' = <<>> /\ doc' = Last(news)
    BY DEF Record
  <1>4. undoStack' \in Seq(S)
    <2>1. all \in Seq(S)
      BY <1>1, <1>2
    <2>2. MaxUndo \in Nat \ {0}
      BY HistoryAssumption
    <2> HIDE DEF all
    <2> QED
      BY <1>3, <2>1, <2>2, NewestProperties
  <1>5. V!Commit
    <2> DEFINE line == LineOf(undoStack', doc', redoStack')
    <2>1. /\ Len(line) = Len(undoStack') + 1
          /\ \E n \in 1..Len(line) :
               line = V!Newest(SubSeq(LineOf(undoStack, doc, redoStack), 1, Len(undoStack) + 1)
                                 \o V!Newest(line, n), MaxUndo + 1)
      <3> DEFINE kept == V!Newest(all, MaxUndo)
                 next == LineOf(kept, Last(news), <<>>)
      <3>1. /\ Len(next) = Len(kept) + 1
            /\ \E n \in 1..Len(next) :
                 next = V!Newest(SubSeq(LineOf(undoStack, doc, redoStack), 1, Len(undoStack) + 1)
                                   \o V!Newest(next, n), MaxUndo + 1)
        <4>1. news \in Seq(S) /\ news # <<>>
          BY <1>1, <1>2
        <4> QED
          BY <1>1, <4>1, CommitLine
      <3>2. kept = undoStack' /\ next = line
        BY <1>3
      <3> HIDE DEF kept, next, line
      <3> QED
        BY <3>1, <3>2
    <2> QED
      BY <2>1 DEF V!Commit, LineOf
  <1>6. redoStack' \in Seq(S) /\ doc' \in S
    BY <1>2, <1>3
  <1>7. Histories' /\ \A d \in Versions' : Version(d, Now)
    BY <1>1, <1>4, <1>6, VersionsNext
  <1> QED
    BY <1>1, <1>3, <1>5, <1>6, <1>7 DEF Kept, V!Next

LEMMA StacksIn ==
    ASSUME IInv
    PROVE  \E S : /\ undoStack \in Seq(S) /\ doc \in S /\ redoStack \in Seq(S)
                  /\ \A d \in S : Version(d, minted)
  <1>1. IsList(undoStack) /\ IsList(redoStack)
    BY DEF IInv, Histories
  <1>2. \A i \in DOMAIN undoStack : undoStack[i] \in Versions
    BY DEF Versions, ToSet
  <1>3. \A i \in DOMAIN redoStack : redoStack[i] \in Versions
    BY DEF Versions, ToSet
  <1>4. doc \in Versions /\ \A d \in Versions : Version(d, minted)
    BY DEF IInv, Versions
  <1>5. undoStack \in Seq(Versions) /\ redoStack \in Seq(Versions)
    BY <1>1, <1>2, <1>3, ListOf
  <1> QED
    BY <1>4, <1>5

LEMMA UndoKeeps ==
    ASSUME IInv, Undo
    PROVE  Kept(minted)
  <1>1. PICK S : /\ undoStack \in Seq(S) /\ doc \in S /\ redoStack \in Seq(S)
                 /\ \A d \in S : Version(d, minted)
    BY StacksIn
  <1>2. /\ undoStack # <<>> /\ doc' = Last(undoStack) /\ undoStack' = Front(undoStack)
        /\ redoStack' = Append(redoStack, doc)
    BY DEF Undo
  <1>3. /\ LineOf(undoStack', doc', redoStack') = LineOf(undoStack, doc, redoStack)
        /\ undoStack' \in Seq(S) /\ doc' \in S /\ redoStack' \in Seq(S)
        /\ Len(undoStack') = Len(undoStack) - 1
    <2>1. /\ Walks(undoStack, doc, redoStack)
          /\ Front(undoStack) \in Seq(S) /\ Last(undoStack) \in S
          /\ Len(Front(undoStack)) = Len(undoStack) - 1
          /\ Append(redoStack, doc) \in Seq(S)
      BY <1>1, <1>2, WalkLine
    <2> QED
      BY <1>2, <2>1 DEF Walks
  <1>4. Len(undoStack) \in Nat \ {0}
    BY <1>1, <1>2, EmptySeq
  <1>5. V!Back
    <2>1. /\ Len(undoStack) + 1 > 1 /\ Len(undoStack') + 1 = (Len(undoStack) + 1) - 1
      BY <1>3, <1>4
    <2> QED
      BY <1>3, <2>1 DEF V!Back, LineOf
  <1>6. Histories' /\ \A d \in Versions' : Version(d, minted)
    BY <1>1, <1>3, VersionsNext
  <1> QED
    BY <1>5, <1>6 DEF Kept, V!Next

LEMMA RedoKeeps ==
    ASSUME IInv, Redo
    PROVE  Kept(minted)
  <1>1. PICK S : /\ undoStack \in Seq(S) /\ doc \in S /\ redoStack \in Seq(S)
                 /\ \A d \in S : Version(d, minted)
    BY StacksIn
  <1>2. /\ redoStack # <<>> /\ doc' = Last(redoStack) /\ redoStack' = Front(redoStack)
        /\ undoStack' = Append(undoStack, doc)
    BY DEF Redo
  <1>3. /\ LineOf(undoStack', doc', redoStack') = LineOf(undoStack, doc, redoStack)
        /\ undoStack' \in Seq(S) /\ doc' \in S /\ redoStack' \in Seq(S)
        /\ Len(undoStack') = Len(undoStack) + 1
    BY <1>1, <1>2, WalkBack
  <1>4. Len(redoStack) \in Nat \ {0} /\ Len(undoStack) \in Nat
    BY <1>1, <1>2, EmptySeq
  <1>5. Len(LineOf(undoStack, doc, redoStack)) = Len(undoStack) + 1 + Len(redoStack)
    BY <1>1, LineProperties
  <1>6. V!Forth
    <2>1. /\ Len(undoStack) + 1 < Len(LineOf(undoStack, doc, redoStack))
          /\ Len(undoStack') + 1 = (Len(undoStack) + 1) + 1
      BY <1>3, <1>4, <1>5
    <2> QED
      BY <1>3, <2>1 DEF V!Forth, LineOf
  <1>7. Histories' /\ \A d \in Versions' : Version(d, minted)
    BY <1>1, <1>3, VersionsNext
  <1> QED
    BY <1>6, <1>7 DEF Kept, V!Next

-----------------------------------------------------------------------------
(* A handler commits projects, and its last version has everything on a track *)
(* if the document had.                                                        *)

\* The edits EditsStayOnTracks says nothing of.
Exempt ==
    \/ did' = "paste"
    \/ did' = "drag" /\ ~(\A id \in DOMAIN gesture.to : gesture.to[id].track \in DOMAIN tracks)

Handled ==
    /\ Kept(Now) /\ minted' = Now /\ HeldClips'
    /\ Exempt \/ (OnTracks(doc) => OnTracks(doc'))

Fits(c) == Shaped(c) /\ c.asset \in DOMAIN assets \cup {None}

Lies(c) == c.track \in DOMAIN tracks

OnRows(line) ==
    /\ \A c \in line.clips : c.track \in DOMAIN line.tracks
    /\ \A s \in line.subs : s.track \in DOMAIN line.tracks /\ line.tracks[s.track].kind = "subtitle"

LEMMA SessionKept ==
    ASSUME IInv, UNCHANGED <<clipboard, gesture>>, minted' = Now \/ UNCHANGED minted
    PROVE  HeldClips'
  <1>1. Made(minted) \subseteq Made(minted')
    BY MadeLater DEF IInv
  <1>2. HeldClips
    BY DEF IInv
  <1> QED
    BY <1>1, <1>2 DEF HeldClips

LEMMA Edited ==
    ASSUME IInv, NEW tool, NEW news, Projects(news), Edit(tool, news), HeldClips',
           Exempt \/ (OnTracks(doc) => OnTracks(Last(news)))
    PROVE  Handled
  <1>1. Record(news) /\ minted' = Now
    BY DEF Edit
  <1>2. Kept(Now) /\ doc' = Last(news)
    BY <1>1, RecordKeeps
  <1>3. OnTracks(doc') <=> OnTracks(Last(news))
    BY <1>2
  <1> QED
    BY <1>1, <1>2, <1>3 DEF Handled

LEMMA OneVersion ==
    ASSUME NEW d, Version(d, Now)
    PROVE  Projects(<<d>>) /\ Last(<<d>>) = d
  <1>1. <<d>> \in Seq({d}) /\ <<d>> # <<>> /\ DOMAIN <<d>> = {1} /\ <<d>>[1] = d /\ Len(<<d>>) = 1
    OBVIOUS
  <1>2. IsList(<<d>>)
    BY <1>1, ListIn
  <1> QED
    BY <1>1, <1>2 DEF Projects, Last

LEMMA EditedTo ==
    ASSUME IInv, NEW tool, NEW d, Version(d, Now), Edit(tool, <<d>>), HeldClips',
           Exempt \/ (OnTracks(doc) => OnTracks(d))
    PROVE  Handled
  BY OneVersion, Edited

LEMMA DocIsProject ==
    ASSUME IInv
    PROVE  /\ Version(doc, Now) /\ DOMAIN doc = {"assets", "lines"} /\ IsList(doc.lines)
           /\ AssetsIn(assets) /\ \A i \in DOMAIN doc.lines : Line(doc.lines[i], assets)
           /\ OnTracks(doc) => \A i \in DOMAIN doc.lines : OnRows(doc.lines[i])
  <1>1. doc \in Versions /\ Version(doc, minted)
    BY DEF IInv, Versions
  <1>2. Version(doc, Now)
    <2>1. Made(minted) \subseteq Made(Now)
      BY MadeLater DEF IInv
    <2> QED
      BY <1>1, <2>1 DEF Version, MadeBy
  <1>3. OnTracks(doc) => \A i \in DOMAIN doc.lines : OnRows(doc.lines[i])
    BY DEF OnTracks, OnRows
  <1> QED
    BY <1>2, <1>3, VersionIs DEF assets

LEMMA HereIsLine ==
    ASSUME IInv, Open
    PROVE  /\ Current \in DOMAIN doc.lines
           /\ Line(Here, assets) /\ DOMAIN Here = {"id", "tracks", "clips", "subs"}
           /\ AreTracks(tracks) /\ ClipsIn(clips, assets) /\ AreCues(Here.subs)
           /\ IsFiniteSet(clips) /\ \A c \in clips : Fits(c) /\ Same(c, c)
           /\ OnTracks(doc) => OnRows(Here) /\ \A c \in clips : Lies(c)
  <1>1. Current \in DOMAIN doc.lines
    <2>1. doc.lines \in Seq(Range(doc.lines)) /\ doc.lines # <<>>
      BY DocIsProject DEF IsList, Open
    <2>2. 1 \in DOMAIN doc.lines
      BY <2>1, EmptySeq
    <2> QED
      BY <2>2 DEF Current
  <1>2. Line(Here, assets)
    BY <1>1, DocIsProject DEF Here
  <1>3. /\ DOMAIN Here = {"id", "tracks", "clips", "subs"}
        /\ AreTracks(tracks) /\ ClipsIn(clips, assets) /\ AreCues(Here.subs)
    BY <1>2 DEF Line, tracks, clips
  <1>4. IsFiniteSet(clips) /\ \A c \in clips : Fits(c) /\ Same(c, c)
    BY <1>3 DEF ClipsIn, Fits, Same, Shaped
  <1>5. OnTracks(doc) => OnRows(Here)
    BY <1>1, DocIsProject DEF Here
  <1>6. OnTracks(doc) => \A c \in clips : Lies(c)
    BY <1>5 DEF OnRows, Lies, clips, tracks
  <1> QED
    BY <1>1, <1>2, <1>3, <1>4, <1>5, <1>6

LEMMA WithLine ==
    ASSUME IInv, Open, NEW line, Line(line, assets)
    PROVE  Version(With(line), Now) /\ (OnTracks(doc) /\ OnRows(line) => OnTracks(With(line)))
  <1> DEFINE S == Range(doc.lines) \cup {line}
             new == [doc.lines EXCEPT ![Current] = line]
             d == With(line)
  <1>1. DOMAIN d = {"assets", "lines"} /\ d.assets = assets /\ d.lines = new
    BY DocIsProject DEF With, assets
  <1>2. doc.lines \in Seq(S) /\ Current \in DOMAIN doc.lines /\ line \in S
    <2>1. IsList(doc.lines) /\ \A i \in DOMAIN doc.lines : doc.lines[i] \in S
      BY DocIsProject DEF Range
    <2>2. line \in S
      OBVIOUS
    <2> HIDE DEF S
    <2>3. doc.lines \in Seq(S)
      BY <2>1, ListOf
    <2> QED
      BY <2>2, <2>3, HereIsLine
  <1>3. new \in Seq(S)
    <2> HIDE DEF S
    <2> QED
      BY <1>2
  <1>4. IsList(new)
    <2> HIDE DEF S, new
    <2> QED
      BY <1>3, ListIn
  <1>5. DOMAIN new = DOMAIN doc.lines /\ \A i \in DOMAIN new : new[i] = IF i = Current THEN line ELSE doc.lines[i]
    OBVIOUS
  <1> HIDE DEF new, d
  <1>6. Version(d, Now)
    BY <1>1, <1>4, <1>5, DocIsProject, VersionIs
  <1>7. OnTracks(doc) /\ OnRows(line) => OnTracks(d)
    BY <1>1, <1>5, DocIsProject DEF OnTracks, OnRows
  <1> QED
    BY <1>6, <1>7 DEF d

\* Only the clips of the timeline that is open change.
LEMMA ClipsEdited ==
    ASSUME IInv, Open, NEW tool, NEW cs, NEW old, Edit(tool, <<WithClips(cs)>>), HeldClips',
           Kin(cs, old), \A c \in old : Fits(c),
           Exempt \/ (OnTracks(doc) => \A c \in old : Lies(c))
    PROVE  Handled
  <1> DEFINE line == [Here EXCEPT !.clips = cs]
  <1>1. /\ DOMAIN line = {"id", "tracks", "clips", "subs"} /\ line.clips = cs
        /\ line.tracks = tracks /\ line.subs = Here.subs /\ WithClips(cs) = With(line)
    BY HereIsLine DEF WithClips, tracks
  <1> HIDE DEF line
  <1>2. ClipsIn(cs, assets)
    <2>1. IsFiniteSet(cs)
      BY DEF Kin
    <2>2. \A c \in cs : \E d \in old : Same(c, d) /\ Fits(d)
      BY DEF Kin
    <2>3. \A c \in cs : Shaped(c) /\ c.asset \in DOMAIN assets \cup {None}
      BY <2>2 DEF Same, Shaped, Fits
    <2> QED
      BY <2>1, <2>3 DEF ClipsIn
  <1>3. Line(line, assets)
    BY <1>1, <1>2, HereIsLine DEF Line
  <1>4. OnTracks(doc) /\ (\A c \in old : Lies(c)) => OnRows(line)
    <2>1. SUFFICES ASSUME OnTracks(doc), \A c \in old : Lies(c)
                   PROVE  OnRows(line)
      OBVIOUS
    <2>2. \A c \in cs : c.track \in DOMAIN tracks
      BY <2>1 DEF Kin, Same, Lies
    <2>3. OnRows(Here)
      BY <2>1, HereIsLine
    <2> QED
      BY <1>1, <2>2, <2>3 DEF OnRows, tracks
  <1>5. Version(With(line), Now) /\ (OnTracks(doc) /\ OnRows(line) => OnTracks(With(line)))
    BY <1>3, WithLine
  <1> QED
    BY <1>1, <1>4, <1>5, EditedTo

LEMMA ClipsEdit ==
    ASSUME IInv, NEW tool, NEW cs, NEW old, EditClips(tool, cs),
           Kin(cs, old), \A c \in old : Fits(c),
           Exempt \/ (OnTracks(doc) => \A c \in old : Lies(c))
    PROVE  Handled
  <1>1. Open /\ Edit(tool, <<WithClips(cs)>>) /\ HeldClips'
    BY SessionKept DEF EditClips, session, Edit
  <1> QED
    BY <1>1, ClipsEdited

\* The clips of the document, each changed; and clips added to them.
LEMMA MappedKin ==
    ASSUME IInv, Open, NEW old, NEW f, \A c \in clips : \E d \in old : Same(f[c], d)
    PROVE  Kin({f[c] : c \in clips}, old)
  <1>1. IsFiniteSet({f[c] : c \in clips})
    BY HereIsLine, ImageFinite
  <1> QED
    BY <1>1 DEF Kin

LEMMA SelfKin ==
    ASSUME IInv, Open
    PROVE  Kin(clips, clips)
  BY HereIsLine DEF Kin

LEMMA SubsetKin ==
    ASSUME NEW cs, NEW old, Kin(cs, old), NEW few, few \subseteq cs
    PROVE  Kin(few, old)
  BY FS_Subset DEF Kin

LEMMA UnionKin ==
    ASSUME NEW cs, NEW old, NEW ds, NEW young, Kin(cs, old), Kin(ds, young)
    PROVE  Kin(cs \cup ds, old \cup young)
  <1>1. IsFiniteSet(cs \cup ds)
    BY FewFinite DEF Kin
  <1> QED
    BY <1>1 DEF Kin

LEMMA KinOfKin ==
    ASSUME NEW cs, NEW mid, NEW old, Kin(cs, mid), Kin(mid, old)
    PROVE  Kin(cs, old)
  BY DEF Kin, Same

-----------------------------------------------------------------------------
(* The handlers that change clips of the open timeline. *)

LEMMA ShiftSame ==
    ASSUME NEW c, Shaped(c), NEW by, by \in Int
    PROVE  Same(Shift(c, by), c)
  <1> DEFINE d == Shift(c, by)
  <1>1. /\ DOMAIN d = ClipFields /\ d.start = c.start + by /\ d.dur = c.dur /\ d.trimStart = c.trimStart
        /\ d.trimEnd = c.trimEnd /\ d.speed = c.speed /\ d.take = c.take /\ d.reversed = c.reversed /\ d.asset = c.asset
        /\ d.track = c.track /\ d.id = c.id
    BY DEF Shaped, IsClip, ClipFields, Shift
  <1> HIDE DEF d
  <1> QED
    BY <1>1 DEF Shaped, IsClip, Same, d

LEMMA CopySame ==
    ASSUME minted \in Nat, NEW c, Shaped(c), NEW by, by \in Int
    PROVE  Same(Copy(c, Now), c) /\ Same(Shift(c, by), c) /\ Same(Shift(Copy(c, Now), by), c)
  <1>1. Same(Copy(c, Now), c) /\ Shaped(Copy(c, Now)) /\ Same(Shift(c, by), c)
    BY CopyIs, ShiftSame DEF Same
  <1>2. Same(Shift(Copy(c, Now), by), Copy(c, Now))
    BY <1>1, ShiftSame
  <1> QED
    BY <1>1, <1>2 DEF Same

\* A handler that makes of clips others like them.
LEMMA LikeClips ==
    ASSUME IInv, NEW tool, NEW cs, EditClips(tool, cs), Kin(cs, clips)
    PROVE  Handled
  <1>1. Open
    BY DEF EditClips
  <1>2. (\A c \in clips : Fits(c)) /\ (OnTracks(doc) => \A c \in clips : Lies(c))
    BY <1>1, HereIsLine
  <1> QED
    BY <1>2, ClipsEdit

LEMMA Duplicated ==
    ASSUME IInv, NEW c \in clips, DuplicateClip(c)
    PROVE  Handled
  <1> DEFINE d == Shift(Copy(c, Now), c.dur)
  <1>1. EditClips("duplicate", clips \cup {d}) /\ Open
    BY DEF DuplicateClip, EditClips
  <1>2. Same(d, c)
    <2>1. Shaped(c) /\ minted \in Nat
      BY <1>1, HereIsLine DEF Fits, IInv
    <2>2. c.dur \in Int
      BY <2>1 DEF Shaped, IsClip
    <2> QED
      BY <2>1, <2>2, CopySame
  <1> HIDE DEF d
  <1>3. Kin({d}, clips)
    BY <1>2, FewFinite DEF Kin
  <1>4. Kin(clips \cup {d}, clips)
    BY <1>1, <1>3, SelfKin, UnionKin
  <1> QED
    BY <1>1, <1>4, LikeClips

LEMMA Unlinked ==
    ASSUME IInv, NEW c \in clips, UnlinkClipGroup(c)
    PROVE  Handled
  <1> DEFINE f == [d \in clips |->
                     IF d.id = c.id THEN [d EXCEPT !.linked = {}]
                     ELSE IF d.id \in c.linked THEN [d EXCEPT !.linked = @ \ {c.id}] ELSE d]
  <1>1. EditClips("unlink", {f[d] : d \in clips}) /\ Open
    BY DEF UnlinkClipGroup, EditClips, Mapped
  <1>2. \A d \in clips : Same(f[d], d)
    BY <1>1, HereIsLine DEF Fits, Shaped, Same, IsClip, ClipFields
  <1> HIDE DEF f
  <1> QED
    BY <1>1, <1>2, MappedKin, LikeClips

LEMMA WithoutKin ==
    ASSUME IInv, Open, NEW ids
    PROVE  Kin(Without(clips, ids), clips)
  <1> DEFINE few == {d \in clips : d.id \notin ids}
             f == [c \in few |-> [c EXCEPT !.linked = @ \ ids]]
  <1>1. Without(clips, ids) = {f[c] : c \in few}
    BY DEF Without
  <1>2. \A c \in few : Same(f[c], c)
    BY HereIsLine DEF Fits, Shaped, Same, IsClip, ClipFields
  <1>3. IsFiniteSet(few)
    BY HereIsLine, FS_Subset
  <1> HIDE DEF f
  <1>4. IsFiniteSet({f[c] : c \in few})
    BY <1>3, ImageFinite
  <1> QED
    BY <1>1, <1>2, <1>4 DEF Kin

LEMMA Deleted ==
    ASSUME IInv, NEW selected, DeleteSelected(selected)
    PROVE  Handled
  <1>1. PICK ids : EditClips("delete", Without(clips, ids))
    BY DEF DeleteSelected
  <1>2. Open
    BY <1>1 DEF EditClips
  <1> QED
    BY <1>1, <1>2, WithoutKin, LikeClips

LEMMA Removed ==
    ASSUME IInv, NEW c, RemoveClip(c)
    PROVE  Handled
  <1> DEFINE few == {d \in clips : d.id \notin {c.id} \cup c.linked}
  <1>1. EditClips("remove", few) /\ Open
    BY DEF RemoveClip, EditClips
  <1>2. Kin(few, clips)
    BY <1>1, SelfKin, SubsetKin
  <1> QED
    BY <1>1, <1>2, LikeClips

LEMMA OrderIndices ==
    ASSUME NEW S, IsFiniteSet(S), NEW order \in SetToSeqs(S)
    PROVE  Indices(DOMAIN order) /\ \A i \in DOMAIN order : order[i] \in S
  <1> DEFINE n == Cardinality(S)
  <1>1. n \in Nat
    BY FS_CardinalityType
  <1>2. order \in [1..n -> S]
    BY DEF SetToSeqs
  <1> HIDE DEF n
  <1>3. DOMAIN order = 1..n
    BY <1>2
  <1> QED
    BY <1>1, <1>2, <1>3, IndicesOfList

LEMMA Cleft ==
    ASSUME IInv, NEW batch \in SUBSET clips, NEW time, time \in Int, SplitClips(batch, time)
    PROVE  Handled
  <1>1. PICK order \in SetToSeqs(Ids(batch)) :
          EditClips("split", SplitEach(clips, order, time, Now))
    BY DEF SplitClips
  <1>2. Open
    BY <1>1 DEF EditClips
  <1>3. IsFiniteSet(Ids(batch))
    <2> DEFINE f == [c \in batch |-> c.id]
    <2>1. IsFiniteSet(batch)
      BY <1>2, HereIsLine, FS_Subset
    <2>2. Ids(batch) = {f[c] : c \in batch}
      BY DEF Ids
    <2> HIDE DEF f
    <2> QED
      BY <2>1, <2>2, ImageFinite
  <1>4. Indices(DOMAIN order) /\ \A i \in DOMAIN order : order[i] \in Ids(clips)
    <2>1. Ids(batch) \subseteq Ids(clips)
      BY DEF Ids
    <2> QED
      BY <1>1, <1>3, <2>1, OrderIndices
  <1>5. Kin(SplitEach(clips, order, time, Now), clips)
    BY <1>2, <1>4, SelfKin, SplitsKin DEF IInv
  <1> QED
    BY <1>1, <1>5, LikeClips

\* The longest a clip can be is a number.
LEMMA MaxDurInt ==
    ASSUME IInv, NEW c, IsClip(c)
    PROVE  MaxDur(assets, c) \in Int
  <1>1. CASE c.kind # "video" \/ c.asset \notin DOMAIN assets
    BY <1>1 DEF MaxDur, Forever
  <1>2. CASE c.kind = "video" /\ c.asset \in DOMAIN assets
    <2> DEFINE n == assets[c.asset].dur - c.trimStart - c.trimEnd
               k == c.speed
    <2>1. assets[c.asset].dur \in Int
      BY <1>2, DocIsProject DEF AssetsIn, IsAsset
    <2>2. n \in Int /\ k \in Nat \ {0}
      BY <2>1 DEF IsClip
    <2> HIDE DEF n, k
    <2>3. n \div k \in Int
      BY <2>2
    <2>4. Largest(1, n \div k) \in Int
      BY <2>3 DEF Largest
    <2>5. MaxDur(assets, c) = Largest(1, n \div k)
      BY <1>2 DEF MaxDur, n, k
    <2> QED
      BY <2>4, <2>5
  <1> QED
    BY <1>1, <1>2

LEMMA Sped ==
    ASSUME IInv, NEW c \in clips, NEW speed, speed \in {1, 2}, SetSpeed(c, speed)
    PROVE  Handled
  <1> DEFINE faster == [c EXCEPT !.speed = speed]
             dur == Largest(1, Least((c.dur * c.speed) \div speed, MaxDur(assets, faster)))
             f == [d \in clips |->
                     IF d.id = c.id THEN [d EXCEPT !.speed = speed, !.dur = dur] ELSE d]
  <1>1. EditClips("speed", {f[d] : d \in clips})
    BY DEF SetSpeed, Mapped
  <1>2. EditClips("speed", {f[d] : d \in clips}) /\ Open
    BY <1>1 DEF EditClips
  <1>3. dur \in Int
    <2>1. IsClip(c)
      BY <1>2, HereIsLine DEF Fits, Shaped
    <2>2. IsClip(faster)
      BY <2>1 DEF IsClip, ClipFields
    <2>3. MaxDur(assets, faster) \in Int
      <3> HIDE DEF faster
      <3> QED
        BY <2>2, MaxDurInt
    <2> DEFINE n == c.dur * c.speed
               q == n \div speed
               x == MaxDur(assets, faster)
    <2>4. n \in Int
      <3>1. c.dur \in Int /\ c.speed \in Int
        BY <2>1 DEF IsClip
      <3> QED
        BY <3>1
    <2> HIDE DEF n
    <2>5. q \in Int
      BY <2>4
    <2> HIDE DEF q, x
    <2>6. Largest(1, Least(q, x)) \in Int
      BY <2>3, <2>5 DEF Largest, Least, x
    <2> QED
      BY <2>6 DEF q, x, n
  <1> HIDE DEF dur
  <1>4. \A d \in clips : Same(f[d], d)
    <2> TAKE d \in clips
    <2>1. Shaped(d) /\ Same(d, d)
      BY <1>2, HereIsLine DEF Fits
    <2> DEFINE e == [d EXCEPT !.speed = speed, !.dur = dur]
    <2>2. /\ DOMAIN e = ClipFields /\ e.start = d.start /\ e.dur = dur /\ e.trimStart = d.trimStart
          /\ e.trimEnd = d.trimEnd /\ e.speed = speed /\ e.take = d.take /\ e.reversed = d.reversed /\ e.asset = d.asset
          /\ e.track = d.track /\ e.id = d.id
      BY <2>1 DEF Shaped, IsClip, ClipFields
    <2>3. f[d] \in {e, d}
      OBVIOUS
    <2> HIDE DEF e, f
    <2>4. Same(e, d)
      BY <1>3, <2>1, <2>2 DEF Shaped, IsClip, Same
    <2> QED
      BY <2>1, <2>3, <2>4
  <1> HIDE DEF f
  <1> QED
    BY <1>2, <1>4, MappedKin, LikeClips

LEMMA ClipsReversed ==
    ASSUME IInv, NEW selected, ReverseClips(selected)
    PROVE  Handled
  <1> DEFINE to == \E c \in clips : c.id \in selected /\ ~c.reversed
             f == [d \in clips |-> IF d.id \in selected THEN [d EXCEPT !.reversed = to] ELSE d]
  <1>1. EditClips("reverse", {f[d] : d \in clips})
    BY DEF ReverseClips, Mapped
  <1>2. EditClips("reverse", {f[d] : d \in clips}) /\ Open
    BY <1>1 DEF EditClips
  <1>3. to \in BOOLEAN
    OBVIOUS
  <1> HIDE DEF to
  <1>4. \A d \in clips : Same(f[d], d)
    BY <1>2, <1>3, HereIsLine DEF Fits, Shaped, Same, IsClip, ClipFields
  <1> HIDE DEF f
  <1> QED
    BY <1>2, <1>4, MappedKin, LikeClips

LEMMA Stepped ==
    ASSUME IInv, NEW c \in clips, NEW delta, delta \in {-1, 1}, StepTake(c, delta)
    PROVE  Handled
  <1> DEFINE now  == IF c.take = None THEN assets[c.asset].active ELSE c.take
             next == Largest(1, Least(Len(assets[c.asset].takes), now + delta))
             f == [d \in clips |-> IF d.id = c.id THEN [d EXCEPT !.take = next] ELSE d]
  <1>1. EditClips("take", {f[d] : d \in clips}) /\ c.asset \in DOMAIN assets
    BY DEF StepTake, Mapped
  <1>2. EditClips("take", {f[d] : d \in clips}) /\ Open
    BY <1>1 DEF EditClips
  <1>3. next \in Nat \ {0}
    <2>1. IsAsset(assets[c.asset]) /\ IsClip(c)
      BY <1>1, <1>2, DocIsProject, HereIsLine DEF AssetsIn, Fits, Shaped
    <2> DEFINE takes == assets[c.asset].takes
    <2>2. takes \in Seq(Range(takes)) /\ assets[c.asset].active \in DOMAIN takes
      BY <2>1 DEF IsAsset, IsList
    <2> HIDE DEF takes
    <2>3. Len(takes) \in Nat /\ assets[c.asset].active \in Int
      BY <2>2
    <2>4. now \in Int
      BY <2>1, <2>3 DEF IsClip
    <2> HIDE DEF now
    <2>5. Largest(1, Least(Len(takes), now + delta)) \in Nat \ {0}
      BY <2>3, <2>4 DEF Largest, Least
    <2> QED
      BY <2>5 DEF takes
  <1> HIDE DEF next
  <1>4. \A d \in clips : Same(f[d], d)
    BY <1>2, <1>3, HereIsLine DEF Fits, Shaped, Same, IsClip, ClipFields
  <1> HIDE DEF f
  <1> QED
    BY <1>2, <1>4, MappedKin, LikeClips

-----------------------------------------------------------------------------
(* The handlers that put an asset, a text or a timeline on the tracks. *)

LEMMA MinIn ==
    ASSUME NEW n \in Nat, NEW U \in SUBSET (1..n), U # {}
    PROVE  Min(U) \in U
  <1>1. U \subseteq Nat
    OBVIOUS
  <1>2. PICK m \in U : \A i \in U : <<i, m>> \notin OpToRel(<, Nat)
    BY <1>1, NatLessThanWellFounded, WFMin
  <1>3. \A i \in U : ~(i < m)
    BY <1>1, <1>2 DEF OpToRel
  <1>4. \A i \in U : m <= i
    BY <1>3
  <1> QED
    BY <1>4 DEF Min

LEMMA TrackRange ==
    ASSUME IInv, Open
    PROVE  /\ Len(tracks) \in Nat \ {0} /\ DOMAIN tracks = 1..Len(tracks)
           /\ tracks \in Seq(Range(tracks))
  <1>1. tracks \in Seq(Range(tracks)) /\ tracks # <<>>
    BY HereIsLine DEF AreTracks, IsList
  <1> QED
    BY <1>1, EmptySeq

LEMMA FirstTrackIn ==
    ASSUME IInv, Open, NEW kinds, NEW from
    PROVE  FirstTrack(kinds, from) \in DOMAIN tracks \cup {None}
  <1> DEFINE found == {i \in DOMAIN tracks : /\ i > from /\ tracks[i].kind \in kinds
                                             /\ tracks[i].patched /\ ~tracks[i].locked}
  <1>1. found # {} => Min(found) \in found
    <2>1. found \in SUBSET (1..Len(tracks)) /\ Len(tracks) \in Nat
      BY TrackRange
    <2> HIDE DEF found
    <2> QED
      BY <2>1, MinIn
  <1> QED
    BY <1>1 DEF FirstTrack

LEMMA NewClipFits ==
    ASSUME NEW id, id \in Made(Now), NEW kind, NEW a, NEW track, NEW start, start \in Int,
           NEW dur, dur \in Int, NEW linked
    PROVE  LET c == NewClip(id, kind, a, track, start, dur, linked)
           IN  Shaped(c) /\ c.asset = a /\ c.track = track /\ c.id = id
  BY DEF NewClip, Shaped, IsClip, ClipFields

LEMMA AssetDur ==
    ASSUME IInv, NEW a \in DOMAIN assets
    PROVE  assets[a].dur \in Int
  BY DocIsProject DEF AssetsIn, IsAsset

LEMMA SourceClipsFit ==
    ASSUME IInv, Open, NEW a \in DOMAIN assets, NEW in, in \in Int, NEW out, out \in Int,
           NEW time, time \in Int
    PROVE  /\ IsFiniteSet(SourceClips(a, in, out, time))
           /\ \A c \in SourceClips(a, in, out, time) : Fits(c) /\ Lies(c)
  <1> DEFINE kind  == assets[a].kind
             video == FirstTrack({"video", "subtitle"}, 0)
             audio == FirstTrack({"audio"}, 0)
             both  == kind = "video" /\ audio # None
             Part(c) == [c EXCEPT !.trimStart = in, !.trimEnd = assets[a].dur - out]
             one   == NewClip(<<Now>>, kind, a, video, time, out - in,
                              IF both THEN {<<Now, 0>>} ELSE {})
             two   == NewClip(<<Now, 0>>, "audio", a, audio, time, out - in,
                              IF both THEN {<<Now>>} ELSE {})
             seen  == Part(one)
             heard == Part(two)
  <1>1. /\ Shaped(one) /\ one.asset = a /\ one.track = video
        /\ Shaped(two) /\ two.asset = a /\ two.track = audio
    <2>1. <<Now>> \in Made(Now) /\ <<Now, 0>> \in Made(Now) /\ out - in \in Int
      BY MadeLater DEF IInv
    <2> QED
      BY <2>1, NewClipFits
  <1>2. SourceClips(a, in, out, time) =
          IF kind = "audio"
          THEN IF audio = None THEN {} ELSE {heard}
          ELSE IF video = None THEN {} ELSE IF both THEN {seen, heard} ELSE {seen}
    BY DEF SourceClips
  <1>3. /\ video \in DOMAIN tracks \cup {None}
        /\ audio \in DOMAIN tracks \cup {None}
    BY FirstTrackIn
  <1> HIDE DEF one, two, video, audio, kind
  <1>0. assets[a].dur - out \in Int
    BY AssetDur
  <1>4. /\ Shaped(seen) /\ seen.asset = a /\ seen.track = video
        /\ Shaped(heard) /\ heard.asset = a /\ heard.track = audio
    BY <1>0, <1>1 DEF Shaped, IsClip, ClipFields
  <1> HIDE DEF seen, heard
  <1>5. Fits(seen) /\ Fits(heard)
    BY <1>4 DEF Fits
  <1>6. (video # None => Lies(seen)) /\ (audio # None => Lies(heard))
    BY <1>3, <1>4 DEF Lies
  <1> QED
    BY <1>2, <1>5, <1>6, FewFinite

LEMMA AddedKin ==
    ASSUME NEW cs, NEW old, Kin(cs, old), NEW new, IsFiniteSet(new), \A c \in new : Fits(c)
    PROVE  Kin(cs \cup new, old \cup new)
  <1>1. Kin(new, new)
    BY DEF Kin, Same, Fits
  <1> QED
    BY <1>1, UnionKin

\* What is put on the timeline, and what is left of the clips there.
LEMMA NewClips ==
    ASSUME IInv, NEW tool, NEW cs, EditClips(tool, cs), NEW new,
           \A c \in new : Fits(c) /\ Lies(c), Kin(cs, clips \cup new)
    PROVE  Handled
  <1>1. Open
    BY DEF EditClips
  <1>2. /\ \A c \in clips \cup new : Fits(c)
        /\ OnTracks(doc) => \A c \in clips \cup new : Lies(c)
    BY <1>1, HereIsLine
  <1> QED
    BY <1>2, ClipsEdit

LEMMA Inserted ==
    ASSUME IInv, NEW a \in DOMAIN assets, NEW in, in \in Int, NEW out, out \in Int,
           NEW time, time \in Int, InsertSource(a, in, out, time)
    PROVE  Handled
  <1> DEFINE new == SourceClips(a, in, out, time)
             f == [c \in clips |-> IF c.track \in {n.track : n \in new} /\ c.start >= time
                                   THEN Shift(c, out - in) ELSE c]
  <1>1. EditClips("insert", {f[c] : c \in clips} \cup new) /\ Open
    BY DEF InsertSource, Mapped, EditClips
  <1> HIDE DEF new
  <1>2. \A c \in clips : Same(f[c], c)
    <2>1. out - in \in Int /\ minted \in Nat
      BY DEF IInv
    <2> HIDE DEF new
    <2> QED
      BY <1>1, <2>1, HereIsLine, CopySame DEF Fits
  <1> HIDE DEF f
  <1>3. IsFiniteSet(new) /\ \A c \in new : Fits(c) /\ Lies(c)
    BY <1>1, SourceClipsFit DEF new
  <1>4. Kin({f[c] : c \in clips}, clips)
    BY <1>1, <1>2, MappedKin
  <1>5. Kin({f[c] : c \in clips} \cup new, clips \cup new)
    BY <1>3, <1>4, AddedKin
  <1> QED
    BY <1>1, <1>3, <1>5, NewClips

\* Clips are put on the timeline and cut what they are put on.
LEMMA PutOver ==
    ASSUME IInv, Open, NEW new, IsFiniteSet(new), \A c \in new : Fits(c),
           NEW moved, Indices(DOMAIN moved)
    PROVE  Kin(ResolveOverlaps(clips \cup new, moved, Now), clips \cup new)
  <1>1. Kin(clips \cup new, clips \cup new)
    BY SelfKin, AddedKin
  <1> QED
    BY <1>1, OverlapsKin DEF IInv

LEMMA ShortIndices ==
    \A x, y : Indices(DOMAIN <<x>>) /\ Indices(DOMAIN <<x, y>>)
  <1> TAKE x, y
  <1>1. DOMAIN <<x>> = 1..1 /\ DOMAIN <<x, y>> = 1..2
    OBVIOUS
  <1>2. Indices(1..1) /\ Indices(1..2)
    BY IndicesOfList
  <1> QED
    BY <1>1, <1>2

LEMMA Overwritten ==
    ASSUME IInv, NEW a \in DOMAIN assets, NEW in, in \in Int, NEW out, out \in Int,
           NEW time, time \in Int, OverwriteSource(a, in, out, time)
    PROVE  Handled
  <1> DEFINE new == SourceClips(a, in, out, time)
             moved == <<<<Now>>, <<Now, 0>>>>
  <1>1. EditClips("overwrite", ResolveOverlaps(clips \cup new, moved, Now)) /\ Open
    BY DEF OverwriteSource, EditClips
  <1>2. IsFiniteSet(new) /\ \A c \in new : Fits(c) /\ Lies(c)
    BY <1>1, SourceClipsFit
  <1>3. Indices(DOMAIN moved)
    BY ShortIndices
  <1> HIDE DEF new, moved
  <1>4. Kin(ResolveOverlaps(clips \cup new, moved, Now), clips \cup new)
    BY <1>1, <1>2, <1>3, PutOver
  <1> QED
    BY <1>1, <1>2, <1>4, NewClips

LEMMA Written ==
    ASSUME IInv, NEW time, time \in Int, NEW dur, dur \in Int, AddText(time, dur)
    PROVE  Handled
  <1> DEFINE rows == {i \in DOMAIN tracks : tracks[i].kind = "video"}
             row  == IF rows = {} THEN 1 ELSE Max(rows)
             text == NewClip(<<Now>>, "text", None, row, time, dur, {})
             moved == <<text.id>>
  <1>1. EditClips("text", ResolveOverlaps(clips \cup {text}, moved, Now)) /\ Open
    BY DEF AddText, EditClips
  <1>2. row \in DOMAIN tracks
    <2>1. rows \in SUBSET (1..Len(tracks)) /\ Len(tracks) \in Nat \ {0} /\ DOMAIN tracks = 1..Len(tracks)
      BY <1>1, TrackRange
    <2>2. rows # {} => Max(rows) \in rows
      <3> HIDE DEF rows
      <3> QED
        BY <2>1, MaxIn
    <2> QED
      BY <2>1, <2>2
  <1> HIDE DEF row
  <1>3. Fits(text) /\ Lies(text)
    <2>1. Shaped(text) /\ text.asset = None /\ text.track = row
      BY NewClipFits, MadeLater DEF IInv
    <2> HIDE DEF text
    <2> QED
      BY <1>2, <2>1 DEF Fits, Lies
  <1>4. Indices(DOMAIN moved)
    BY ShortIndices
  <1> HIDE DEF text, moved
  <1> DEFINE new == {text}
  <1>5. IsFiniteSet(new) /\ \A c \in new : Fits(c) /\ Lies(c)
    BY <1>3, FewFinite
  <1>6. EditClips("text", ResolveOverlaps(clips \cup new, moved, Now))
    BY <1>1
  <1> HIDE DEF new
  <1>7. Kin(ResolveOverlaps(clips \cup new, moved, Now), clips \cup new)
    BY <1>1, <1>4, <1>5, PutOver
  <1> QED
    BY <1>5, <1>6, <1>7, NewClips

\* Of finitely many that each stand for a set, one stands for a least set.
LEMMA LeastOf ==
    ASSUME NEW S, IsFiniteSet(S), S # {}, NEW f, \A x \in S : f[x] \subseteq S
    PROVE  \E m \in S : \A x \in S : f[x] \subseteq f[m] => f[x] = f[m]
  <1> DEFINE B == {f[x] : x \in S}
  <1>1. B \in SUBSET (SUBSET S) /\ B # {}
    OBVIOUS
  <1>2. PICK T \in B : \A U \in B : U \subseteq T => U = T
    <2> HIDE DEF B
    <2> QED
      BY <1>1, LeastSet
  <1>3. PICK m \in S : T = f[m]
    BY <1>2
  <1>4. ASSUME NEW x \in S, f[x] \subseteq f[m] PROVE f[x] = f[m]
    <2>1. f[x] \in B
      OBVIOUS
    <2> HIDE DEF B
    <2> QED
      BY <1>2, <1>3, <1>4, <2>1
  <1> QED
    BY <1>4

\* The least and the greatest of finitely many numbers are among them.
LEMMA ExtremesIn ==
    ASSUME NEW S, \A x \in S : x \in Int, IsFiniteSet(S), S # {}
    PROVE  Min(S) \in S /\ Max(S) \in S
  <1> DEFINE below == [m \in S |-> {k \in S : k <= m}]
             above == [m \in S |-> {k \in S : k >= m}]
  <1>1. /\ \A m \in S : below[m] = {k \in S : k <= m} /\ below[m] \subseteq S
        /\ \A m \in S : above[m] = {k \in S : k >= m} /\ above[m] \subseteq S
    OBVIOUS
  <1> HIDE DEF below, above
  <1>0. \E n \in S : \A x \in S : above[x] \subseteq above[n] => above[x] = above[n]
    BY <1>1, LeastOf
  <1>2. PICK m \in S : \A x \in S : below[x] \subseteq below[m] => below[x] = below[m]
    BY <1>1, LeastOf
  <1>3. ASSUME NEW x \in S, x < m PROVE FALSE
    <2>1. x \in Int /\ m \in Int /\ \A k \in S : k \in Int
      OBVIOUS
    <2>2. \A k \in S : k <= x => k <= m
      BY <1>3, <2>1
    <2>4. below[x] \subseteq below[m]
      BY <1>1, <2>2
    <2>3. m \in below[m] /\ m \notin below[x]
      BY <1>1, <1>3, <2>1
    <2> QED
      BY <1>2, <2>3, <2>4
  <1>4. \A x \in S : m <= x
    BY <1>3
  <1>5. PICK n \in S : \A x \in S : above[x] \subseteq above[n] => above[x] = above[n]
    BY <1>0
  <1>6. ASSUME NEW x \in S, n < x PROVE FALSE
    <2>1. x \in Int /\ n \in Int /\ \A k \in S : k \in Int
      OBVIOUS
    <2>2. \A k \in S : k >= x => k >= n
      BY <1>6, <2>1
    <2>4. above[x] \subseteq above[n]
      BY <1>1, <2>2
    <2>3. n \in above[n] /\ n \notin above[x]
      BY <1>1, <1>6, <2>1
    <2> QED
      BY <1>5, <2>3, <2>4
  <1>7. \A x \in S : n >= x
    BY <1>6
  <1> QED
    BY <1>4, <1>7 DEF Min, Max

\* Where the first of some clips begins.
LEMMA EarliestInt ==
    ASSUME NEW cs, IsFiniteSet(cs), cs # {}, \A c \in cs : IsClip(c)
    PROVE  Min({c.start : c \in cs}) \in Int
  <1> DEFINE f == [c \in cs |-> c.start]
             S == {f[c] : c \in cs}
  <1>1. IsFiniteSet(S)
    BY ImageFinite
  <1>2. S \subseteq Int /\ S # {} /\ S = {c.start : c \in cs}
    BY DEF IsClip
  <1> HIDE DEF S
  <1>3. Min(S) \in S
    BY <1>1, <1>2, ExtremesIn
  <1> QED
    BY <1>2, <1>3

LEMMA Flattened ==
    ASSUME IInv, NEW i \in DOMAIN doc.lines, NEW track \in DOMAIN tracks, NEW time, time \in Int,
           FlattenTimeline(i, track, time)
    PROVE  Handled
  <1> DEFINE source   == doc.lines[i].clips
             earliest == Min({c.start : c \in source})
             f == [c \in source |-> [Copy(c, Now) EXCEPT !.start = time + (c.start - earliest),
                                       !.track = Least(track + c.track - 1, Len(tracks))]]
             new == {f[c] : c \in source}
  <1>1. EditClips("flatten", clips \cup new) /\ Open
    BY DEF FlattenTimeline, EditClips
  <1>2. /\ IsFiniteSet(source) /\ \A c \in source : Fits(c)
        /\ IsList(doc.lines[i].tracks)
        /\ OnTracks(doc) => \A c \in source : c.track \in DOMAIN doc.lines[i].tracks
    BY DocIsProject DEF Line, ClipsIn, Fits, Shaped, AreTracks, OnRows
  <1>0. earliest \in Int
    <2>1. source # {}
      BY DEF FlattenTimeline
    <2>2. \A c \in source : IsClip(c)
      BY <1>2 DEF Fits, Shaped
    <2> HIDE DEF source
    <2> QED
      BY <1>2, <2>1, <2>2, EarliestInt
  <1> HIDE DEF source, earliest
  <1>3. \A c \in source : /\ Shaped(f[c]) /\ f[c].asset = c.asset
                          /\ f[c].track = Least(track + c.track - 1, Len(tracks))
    <2> TAKE c \in source
    <2> DEFINE d == Copy(c, Now)
               s == time + (c.start - earliest)
               e == f[c]
    <2>1. Shaped(d) /\ d.asset = c.asset
      BY <1>2, CopyIs DEF Fits, Same, IInv
    <2>2. s \in Int
      BY <1>0, <1>2 DEF Fits, Shaped, IsClip
    <2>3. e = [d EXCEPT !.start = s, !.track = Least(track + c.track - 1, Len(tracks))]
      OBVIOUS
    <2> HIDE DEF d, e, s
    <2>4. Shaped(e) /\ e.asset = d.asset /\ e.track = Least(track + c.track - 1, Len(tracks))
      BY <2>1, <2>2, <2>3 DEF Shaped, IsClip, ClipFields
    <2> QED
      BY <2>1, <2>4 DEF e
  <1> HIDE DEF f
  <1>4. IsFiniteSet(new) /\ \A c \in new : Fits(c)
    BY <1>2, <1>3, ImageFinite DEF Fits
  <1>5. ASSUME OnTracks(doc) PROVE \A c \in new : Lies(c)
    <2>1. ASSUME NEW c \in source PROVE Least(track + c.track - 1, Len(tracks)) \in DOMAIN tracks
      <3>1. c.track \in Nat \ {0}
        <4>1. doc.lines[i].tracks \in Seq(Range(doc.lines[i].tracks))
          BY <1>2 DEF IsList
        <4> QED
          BY <1>2, <1>5, <4>1
      <3>2. Len(tracks) \in Nat \ {0} /\ DOMAIN tracks = 1..Len(tracks)
        BY <1>1, TrackRange
      <3> QED
        BY <3>1, <3>2 DEF Least
    <2> QED
      BY <1>3, <2>1 DEF Lies
  <1> HIDE DEF new
  <1>6. Kin(clips \cup new, clips \cup new)
    BY <1>1, <1>4, SelfKin, AddedKin
  <1>7. /\ \A c \in clips \cup new : Fits(c)
        /\ OnTracks(doc) => \A c \in clips \cup new : Lies(c)
    BY <1>1, <1>4, <1>5, HereIsLine
  <1> QED
    BY <1>1, <1>6, <1>7, ClipsEdit

\* Another version of the timeline that is open.
LEMMA LineEdited ==
    ASSUME IInv, Open, NEW tool, NEW line, Edit(tool, <<With(line)>>), UNCHANGED session,
           Line(line, assets), OnTracks(doc) => OnRows(line)
    PROVE  Handled
  <1>1. Version(With(line), Now) /\ (OnTracks(doc) => OnTracks(With(line)))
    BY WithLine
  <1>2. HeldClips'
    BY SessionKept DEF session, Edit
  <1> QED
    BY <1>1, <1>2, EditedTo

LEMMA MoreTracks ==
    ASSUME IInv, Open, NEW kind
    PROVE  LET all == Append(tracks, NewTrack(kind))
           IN  /\ AreTracks(all) /\ Len(all) \in DOMAIN all
               /\ DOMAIN tracks \subseteq DOMAIN all
               /\ \A i \in DOMAIN tracks : all[i] = tracks[i]
  <1> DEFINE t == NewTrack(kind)
             S == Range(tracks) \cup {t}
             all == Append(tracks, t)
  <1>1. tracks \in Seq(S) /\ t \in S /\ Len(tracks) \in Nat
    BY TrackRange
  <1>2. DOMAIN t = {"kind", "patched", "locked"}
    BY DEF NewTrack, Track
  <1> HIDE DEF t, S
  <1>3. /\ all \in Seq(S) /\ Len(all) = Len(tracks) + 1 /\ DOMAIN all = 1..Len(tracks) + 1
        /\ DOMAIN tracks = 1..Len(tracks)
        /\ \A i \in DOMAIN all : all[i] = IF i = Len(tracks) + 1 THEN t ELSE tracks[i]
    BY <1>1
  <1>4. \A i \in DOMAIN tracks : DOMAIN tracks[i] = {"kind", "patched", "locked"}
    BY HereIsLine DEF AreTracks
  <1> HIDE DEF all
  <1>5. \A i \in DOMAIN all : DOMAIN all[i] = {"kind", "patched", "locked"}
    BY <1>1, <1>2, <1>3, <1>4
  <1>6. all # <<>> /\ IsList(all)
    BY <1>1, <1>3, ListIn
  <1>7. AreTracks(all)
    BY <1>5, <1>6 DEF AreTracks
  <1>8. /\ Len(all) \in DOMAIN all /\ DOMAIN tracks \subseteq DOMAIN all
        /\ \A i \in DOMAIN tracks : all[i] = tracks[i]
    BY <1>1, <1>3
  <1> QED
    BY <1>7, <1>8 DEF all, t

\* Tracks added below the others or changed but for what they hold, and clips
\* that lie on what there then is.
LEMMA TracksChanged ==
    ASSUME IInv, Open, NEW tool, NEW line, Edit(tool, <<With(line)>>), UNCHANGED session,
           DOMAIN line = {"id", "tracks", "clips", "subs"}, line.subs = Here.subs,
           AreTracks(line.tracks), DOMAIN tracks \subseteq DOMAIN line.tracks,
           \A i \in DOMAIN tracks : line.tracks[i].kind = tracks[i].kind,
           ClipsIn(line.clips, assets),
           OnTracks(doc) => \A c \in line.clips : c.track \in DOMAIN line.tracks
    PROVE  Handled
  <1>1. Line(line, assets)
    BY HereIsLine DEF Line
  <1>2. OnTracks(doc) => OnRows(line)
    <2>1. SUFFICES ASSUME OnTracks(doc) PROVE OnRows(line)
      OBVIOUS
    <2>2. OnRows(Here)
      BY <2>1, HereIsLine
    <2> QED
      BY <2>1, <2>2 DEF OnRows, tracks
  <1> QED
    BY <1>1, <1>2, LineEdited

LEMMA TrackAdded ==
    ASSUME IInv, NEW kind, AddTrack(kind)
    PROVE  Handled
  <1> DEFINE line == [Here EXCEPT !.tracks = Append(@, NewTrack(kind))]
  <1>1. Open /\ Edit("track", <<With(line)>>) /\ UNCHANGED session
    BY DEF AddTrack
  <1>2. /\ DOMAIN line = {"id", "tracks", "clips", "subs"} /\ line.subs = Here.subs
        /\ line.clips = clips /\ line.tracks = Append(tracks, NewTrack(kind))
    BY <1>1, HereIsLine DEF clips, tracks
  <1> HIDE DEF line
  <1>3. /\ AreTracks(line.tracks) /\ DOMAIN tracks \subseteq DOMAIN line.tracks
        /\ \A i \in DOMAIN tracks : line.tracks[i] = tracks[i]
    BY <1>1, <1>2, MoreTracks
  <1>4. ClipsIn(line.clips, assets) /\ (OnTracks(doc) => \A c \in line.clips : Lies(c))
    BY <1>1, <1>2, HereIsLine
  <1> QED
    BY <1>1, <1>2, <1>3, <1>4, TracksChanged DEF Lies

LEMMA LockToggled ==
    ASSUME IInv, NEW i \in DOMAIN tracks, ToggleTrackLock(i)
    PROVE  Handled
  <1> DEFINE t == [tracks[i] EXCEPT !.locked = ~@]
             line == [Here EXCEPT !.tracks[i].locked = ~@]
             all == [tracks EXCEPT ![i] = t]
             S == Range(tracks) \cup {t}
  <1>1. Open /\ Edit("lock", <<With(line)>>) /\ UNCHANGED session
    BY DEF ToggleTrackLock
  <1>2. /\ DOMAIN line = {"id", "tracks", "clips", "subs"} /\ line.subs = Here.subs
        /\ line.clips = clips /\ line.tracks = all
    BY <1>1, HereIsLine DEF clips, tracks
  <1>3. \A j \in DOMAIN tracks : DOMAIN tracks[j] = {"kind", "patched", "locked"}
    BY <1>1, HereIsLine DEF AreTracks
  <1>4. DOMAIN t = {"kind", "patched", "locked"} /\ t.kind = tracks[i].kind
    BY <1>3
  <1>5. tracks \in Seq(S) /\ t \in S /\ DOMAIN tracks = 1..Len(tracks) /\ Len(tracks) \in Nat \ {0}
    BY <1>1, TrackRange
  <1> HIDE DEF line, t, S
  <1>6. all \in Seq(S) /\ DOMAIN all = DOMAIN tracks /\ Len(all) = Len(tracks)
    BY <1>5
  <1>7. \A j \in DOMAIN tracks : all[j] = IF j = i THEN t ELSE tracks[j]
    OBVIOUS
  <1> HIDE DEF all
  <1>8. AreTracks(all)
    <2>1. IsList(all)
      BY <1>6, ListIn
    <2>2. all # <<>>
      BY <1>5, <1>6
    <2> QED
      BY <1>3, <1>4, <1>6, <1>7, <2>1, <2>2 DEF AreTracks
  <1>9. DOMAIN tracks \subseteq DOMAIN line.tracks /\ \A j \in DOMAIN tracks : line.tracks[j].kind = tracks[j].kind
    BY <1>2, <1>4, <1>6, <1>7
  <1>10. ClipsIn(line.clips, assets) /\ (OnTracks(doc) => \A c \in line.clips : c.track \in DOMAIN line.tracks)
    BY <1>1, <1>2, <1>6, HereIsLine DEF Lies
  <1> QED
    BY <1>1, <1>2, <1>8, <1>9, <1>10, TracksChanged

LEMMA Dropped ==
    ASSUME IInv, NEW a \in DOMAIN assets, NEW track \in DOMAIN tracks, NEW time, time \in Int,
           DropAsset(a, track, time)
    PROVE  Handled
  <1> DEFINE kind  == assets[a].kind
             below == FirstTrack({"audio"}, IF kind = "video" THEN track ELSE 0)
             any   == IF below = None THEN FirstTrack({"audio"}, 0) ELSE below
             home  == IF kind = "audio" /\ tracks[track].kind = "audio" THEN track ELSE any
             added == kind # "image" /\ home = None
             more  == Append(tracks, NewTrack("audio"))
             all   == IF added THEN more ELSE tracks
             sounds == kind # "image"
             looks == kind # "audio" /\ tracks[track].patched
             both  == looks /\ sounds
             seen  == NewClip(<<Now>>, kind, a, track, time, assets[a].dur,
                              IF both THEN {<<Now, 0>>} ELSE {})
             heard == NewClip(<<Now, 0>>, "audio", a, IF added THEN Len(all) ELSE home, time,
                              assets[a].dur, IF both THEN {<<Now>>} ELSE {})
             new   == (IF looks THEN {seen} ELSE {}) \cup (IF sounds THEN {heard} ELSE {})
             moved == <<<<Now>>, <<Now, 0>>>>
             cs    == ResolveOverlaps(clips \cup new, moved, Now)
             line  == [Here EXCEPT !.tracks = all, !.clips = cs]
  <1>1. Open /\ Edit("drop", <<With(line)>>) /\ UNCHANGED session
    BY DEF DropAsset
  <1>2. /\ Shaped(seen) /\ seen.asset = a /\ seen.track = track
        /\ Shaped(heard) /\ heard.asset = a /\ heard.track = IF added THEN Len(all) ELSE home
    <2>1. <<Now>> \in Made(Now) /\ <<Now, 0>> \in Made(Now) /\ assets[a].dur \in Int
      BY MadeLater, AssetDur DEF IInv
    <2> HIDE DEF kind, added, all, home, both
    <2> QED
      BY <2>1, NewClipFits
  <1>3. home \in DOMAIN tracks \cup {None}
    <2>1. below \in DOMAIN tracks \cup {None}
      BY <1>1, FirstTrackIn
    <2>2. FirstTrack({"audio"}, 0) \in DOMAIN tracks \cup {None}
      BY <1>1, FirstTrackIn
    <2> HIDE DEF below
    <2> QED
      BY <2>1, <2>2
  <1>4. Indices(DOMAIN moved)
    BY ShortIndices
  <1> HIDE DEF home, seen, heard, moved
  <1>5. /\ AreTracks(all) /\ DOMAIN tracks \subseteq DOMAIN all
        /\ \A i \in DOMAIN tracks : all[i] = tracks[i]
        /\ added => Len(all) \in DOMAIN all
    <2>1. /\ AreTracks(more) /\ DOMAIN tracks \subseteq DOMAIN more /\ Len(more) \in DOMAIN more
          /\ \A i \in DOMAIN tracks : more[i] = tracks[i]
      BY <1>1, MoreTracks
    <2>2. AreTracks(tracks)
      BY <1>1, HereIsLine
    <2> HIDE DEF more, added
    <2> QED
      BY <2>1, <2>2
  <1>6. \A c \in new : Fits(c) /\ c.track \in DOMAIN all
    <2>1. Fits(seen) /\ Fits(heard)
      BY <1>2 DEF Fits
    <2>2. seen.track \in DOMAIN all
      BY <1>2, <1>5
    <2>3. sounds => heard.track \in DOMAIN all
      <3>1. sounds /\ ~added => home \in DOMAIN tracks
        BY <1>3
      <3> HIDE DEF all, added, sounds
      <3> QED
        BY <1>2, <1>5, <3>1
    <2> HIDE DEF all, sounds, looks
    <2> QED
      BY <2>1, <2>2, <2>3
  <1>7. IsFiniteSet(new)
    <2> HIDE DEF looks, sounds
    <2> QED
      BY FewFinite
  <1> HIDE DEF new, all, cs
  <1>8. Kin(cs, clips \cup new)
    BY <1>1, <1>4, <1>6, <1>7, PutOver DEF cs
  <1>9. ClipsIn(cs, assets) /\ (OnTracks(doc) => \A c \in cs : c.track \in DOMAIN all)
    <2>1. \A c \in clips \cup new : Fits(c)
      BY <1>1, <1>6, HereIsLine
    <2>2. OnTracks(doc) => \A c \in clips \cup new : c.track \in DOMAIN all
      BY <1>1, <1>5, <1>6, HereIsLine DEF Lies
    <2>3. \A c \in cs : \E d \in clips \cup new : Same(c, d) /\ Fits(d)
      BY <1>8, <2>1 DEF Kin
    <2>4. ClipsIn(cs, assets)
      BY <1>8, <2>3 DEF ClipsIn, Kin, Same, Shaped, Fits
    <2>5. OnTracks(doc) => \A c \in cs : c.track \in DOMAIN all
      BY <2>2, <2>3 DEF Same
    <2> QED
      BY <2>4, <2>5
  <1>10. /\ DOMAIN line = {"id", "tracks", "clips", "subs"} /\ line.subs = Here.subs
         /\ line.clips = cs /\ line.tracks = all
    BY <1>1, HereIsLine
  <1> HIDE DEF line
  <1> QED
    BY <1>1, <1>5, <1>9, <1>10, TracksChanged

-----------------------------------------------------------------------------
(* Tracks that go, subtitle tracks that come, and what is on the tracks. *)

LEMMA RemoveAtProperties ==
    ASSUME NEW S, NEW s \in Seq(S), NEW i \in 1..Len(s)
    PROVE  /\ RemoveAt(s, i) \in Seq(S) /\ Len(RemoveAt(s, i)) = Len(s) - 1
           /\ \A j \in 1..Len(s) - 1 : RemoveAt(s, i)[j] = IF j < i THEN s[j] ELSE s[j + 1]
  <1> DEFINE n == Len(s)
             a == SubSeq(s, 1, i - 1)
             b == SubSeq(s, i + 1, n)
             r == a \o b
  <1>1. n \in Nat /\ i \in 1..n
    OBVIOUS
  <1>2. a \in Seq(S) /\ Len(a) = i - 1 /\ \A j \in 1..i - 1 : a[j] = s[j]
    OBVIOUS
  <1>3. b \in Seq(S) /\ Len(b) = n - i /\ \A j \in 1..n - i : b[j] = s[i + j]
    OBVIOUS
  <1>4. RemoveAt(s, i) = r
    BY DEF RemoveAt
  <1> HIDE DEF a, b, n
  <1>5. /\ r \in Seq(S) /\ Len(r) = Len(a) + Len(b)
        /\ \A j \in 1..Len(a) + Len(b) : r[j] = IF j <= Len(a) THEN a[j] ELSE b[j - Len(a)]
    BY <1>2, <1>3, ConcatProperties
  <1> HIDE DEF r
  <1>6. Len(r) = n - 1
    BY <1>1, <1>2, <1>3, <1>5
  <1>7. ASSUME NEW j \in 1..n - 1 PROVE r[j] = IF j < i THEN s[j] ELSE s[j + 1]
    <2>1. CASE j < i
      <3>1. j \in 1..i - 1 /\ j \in 1..Len(a) + Len(b) /\ j <= Len(a)
        BY <1>1, <1>2, <1>3, <2>1
      <3> QED
        BY <1>2, <1>5, <2>1, <3>1
    <2>2. CASE ~(j < i)
      <3> DEFINE k == j - (i - 1)
      <3>1. /\ k \in 1..n - i /\ i + k = j + 1 /\ j \in 1..Len(a) + Len(b)
            /\ ~(j <= Len(a)) /\ j - Len(a) = k
        BY <1>1, <1>2, <1>3, <2>2
      <3> HIDE DEF k
      <3>2. r[j] = b[k] /\ b[k] = s[j + 1]
        BY <1>3, <1>5, <3>1
      <3> QED
        BY <2>2, <3>2
    <2> QED
      BY <2>1, <2>2
  <1> QED
    BY <1>4, <1>5, <1>6, <1>7 DEF n

\* Two and three versions an action commits one after the other.
Two(d, e)      == Projects(<<d, e>>) /\ Last(<<d, e>>) = e
Three(d, e, f) == Projects(<<d, e, f>>) /\ Last(<<d, e, f>>) = f

LEMMA TwoVersions ==
    ASSUME NEW d, Version(d, Now), NEW e, Version(e, Now)
    PROVE  Two(d, e)
  <1> DEFINE s == <<d, e>>
  <1>1. /\ s \in Seq({d, e}) /\ s # <<>> /\ DOMAIN s = {1, 2} /\ Len(s) = 2
        /\ s[1] = d /\ s[2] = e
    OBVIOUS
  <1> HIDE DEF s
  <1>2. IsList(s)
    BY <1>1, ListIn
  <1>3. Projects(s) /\ Last(s) = e
    BY <1>1, <1>2 DEF Projects, Last
  <1> QED
    BY <1>3 DEF s, Two

LEMMA ThreeVersions ==
    ASSUME NEW d, Version(d, Now), NEW e, Version(e, Now), NEW f, Version(f, Now)
    PROVE  Three(d, e, f)
  <1> DEFINE s == <<d, e, f>>
  <1>1. /\ s \in Seq({d, e, f}) /\ s # <<>> /\ DOMAIN s = {1, 2, 3} /\ Len(s) = 3
        /\ s[1] = d /\ s[2] = e /\ s[3] = f
    OBVIOUS
  <1> HIDE DEF s
  <1>2. IsList(s)
    BY <1>1, ListIn
  <1>3. Projects(s) /\ Last(s) = f
    BY <1>1, <1>2 DEF Projects, Last
  <1> QED
    BY <1>3 DEF s, Three

\* Clips, or cues, of the tracks that stay: of the shape they had, each below
\* the track that goes one number further up.
LEMMA WithoutTrackIs ==
    ASSUME NEW i, NEW things, NEW fields, "track" \in fields, \A x \in things : DOMAIN x = fields
    PROVE  /\ \A y \in WithoutTrack(things, i) : DOMAIN y = fields
           /\ \A y \in WithoutTrack(things, i) : \E x \in things :
                /\ x.track # i /\ y.track = IF x.track > i THEN x.track - 1 ELSE x.track
                /\ \A a \in fields \ {"track"} : y[a] = x[a]
           /\ IsFiniteSet(things) => IsFiniteSet(WithoutTrack(things, i))
  <1> DEFINE few == {y \in things : y.track # i}
             f == [x \in few |-> IF x.track > i THEN [x EXCEPT !.track = @ - 1] ELSE x]
  <1>1. WithoutTrack(things, i) = {f[x] : x \in few}
    BY DEF WithoutTrack
  <1>2. \A x \in few : /\ DOMAIN f[x] = fields
                       /\ f[x].track = IF x.track > i THEN x.track - 1 ELSE x.track
                       /\ \A a \in fields \ {"track"} : f[x][a] = x[a]
    OBVIOUS
  <1> HIDE DEF f
  <1>3. IsFiniteSet(things) => IsFiniteSet({f[x] : x \in few})
    <2>1. IsFiniteSet(things) => IsFiniteSet(few)
      BY FS_Subset
    <2> HIDE DEF few
    <2> QED
      BY <2>1, ImageFinite
  <1> QED
    BY <1>1, <1>2, <1>3

\* A clip of the fields another has, but for its track.
LEMMA LikeButTrack ==
    ASSUME NEW x, Shaped(x), NEW y, DOMAIN y = ClipFields,
           \A a \in ClipFields \ {"track"} : y[a] = x[a]
    PROVE  Shaped(y) /\ y.asset = x.asset
  BY DEF Shaped, IsClip, ClipFields

LEMMA TrackDeleted ==
    ASSUME IInv, NEW i \in DOMAIN tracks, DeleteTrack(i)
    PROVE  Handled
  <1> DEFINE one   == [Here EXCEPT !.clips = WithoutTrack(@, i)]
             two   == [one EXCEPT !.subs = WithoutTrack(@, i)]
             three == [two EXCEPT !.tracks = RemoveAt(@, i)]
             cs    == WithoutTrack(clips, i)
             ss    == WithoutTrack(Here.subs, i)
             ts    == RemoveAt(tracks, i)
             n     == Len(tracks)
             fields == {"id", "tracks", "clips", "subs"}
  <1>1. /\ Open /\ Len(tracks) > 1 /\ Edit("untrack", <<With(one), With(two), With(three)>>)
        /\ UNCHANGED session
    BY DEF DeleteTrack
  <1>2. DOMAIN one = fields /\ one.clips = cs /\ one.subs = Here.subs /\ one.tracks = tracks
    BY <1>1, HereIsLine DEF clips, tracks
  <1> HIDE DEF one
  <1>3. DOMAIN two = fields /\ two.clips = cs /\ two.subs = ss /\ two.tracks = tracks
    BY <1>2
  <1> HIDE DEF two
  <1>4. DOMAIN three = fields /\ three.clips = cs /\ three.subs = ss /\ three.tracks = ts
    BY <1>3
  <1> HIDE DEF three
  <1>5. ClipsIn(clips, assets) /\ AreCues(Here.subs) /\ AreTracks(tracks)
    BY <1>1, HereIsLine
  <1>6. /\ ClipsIn(cs, assets)
        /\ \A y \in cs : \E x \in clips :
             x.track # i /\ y.track = IF x.track > i THEN x.track - 1 ELSE x.track
    <2>1. (\A x \in clips : DOMAIN x = ClipFields) /\ "track" \in ClipFields /\ "asset" \in ClipFields \ {"track"}
      BY <1>5 DEF ClipsIn, Shaped, IsClip, ClipFields
    <2>2. /\ \A y \in cs : DOMAIN y = ClipFields
          /\ \A y \in cs : \E x \in clips :
               /\ x.track # i /\ y.track = IF x.track > i THEN x.track - 1 ELSE x.track
               /\ \A a \in ClipFields \ {"track"} : y[a] = x[a]
          /\ IsFiniteSet(clips) => IsFiniteSet(cs)
      BY <2>1, WithoutTrackIs
    <2> HIDE DEF cs
    <2>3. \A y \in cs : Shaped(y) /\ y.asset \in DOMAIN assets \cup {None}
      BY <1>5, <2>2, LikeButTrack DEF ClipsIn
    <2> QED
      BY <1>5, <2>2, <2>3 DEF ClipsIn
  <1>7. /\ AreCues(ss)
        /\ \A y \in ss : \E x \in Here.subs :
             x.track # i /\ y.track = IF x.track > i THEN x.track - 1 ELSE x.track
    <2> DEFINE cue == {"id", "track", "start", "end"}
    <2>1. (\A x \in Here.subs : DOMAIN x = cue) /\ "track" \in cue
      BY <1>5 DEF AreCues
    <2> HIDE DEF cue
    <2>2. /\ \A y \in ss : DOMAIN y = cue
          /\ \A y \in ss : \E x \in Here.subs :
               x.track # i /\ y.track = IF x.track > i THEN x.track - 1 ELSE x.track
      BY <2>1, WithoutTrackIs
    <2> QED
      BY <2>2 DEF AreCues, cue
  <1>8. /\ tracks \in Seq(Range(tracks)) /\ DOMAIN tracks = 1..n /\ n \in Nat \ {0} /\ i \in 1..n
        /\ n - 1 \in Nat \ {0}
    <2>1. tracks \in Seq(Range(tracks)) /\ DOMAIN tracks = 1..n /\ n \in Nat \ {0}
      BY <1>1, TrackRange
    <2> QED
      BY <1>1, <2>1
  <1>9. /\ ts \in Seq(Range(tracks)) /\ Len(ts) = n - 1
        /\ \A j \in 1..n - 1 : ts[j] = IF j < i THEN tracks[j] ELSE tracks[j + 1]
    BY <1>8, RemoveAtProperties
  <1> HIDE DEF cs, ss, ts, n
  <1>10. DOMAIN ts = 1..n - 1
    BY <1>9
  <1>11. AreTracks(ts)
    <2>1. IsList(ts)
      BY <1>9, ListIn
    <2>2. ts # <<>>
      BY <1>8, <1>9
    <2>3. \A j \in DOMAIN ts : DOMAIN ts[j] = {"kind", "patched", "locked"}
      <3>1. \A j \in 1..n : DOMAIN tracks[j] = {"kind", "patched", "locked"}
        BY <1>5, <1>8 DEF AreTracks
      <3>2. \A j \in 1..n - 1 : j \in 1..n /\ j + 1 \in 1..n
        BY <1>8
      <3> QED
        BY <1>9, <1>10, <3>1, <3>2
    <2> QED
      BY <2>1, <2>2, <2>3 DEF AreTracks
  <1>12. Line(one, assets) /\ Line(two, assets) /\ Line(three, assets)
    BY <1>2, <1>3, <1>4, <1>5, <1>6, <1>7, <1>11 DEF Line
  <1>13. OnTracks(doc) => OnRows(three)
    <2>1. SUFFICES ASSUME OnTracks(doc) PROVE OnRows(three)
      OBVIOUS
    <2>2. OnRows(Here)
      BY <1>1, <2>1, HereIsLine
    <2>3. ASSUME NEW x \in 1..n, x # i, NEW y, y = IF x > i THEN x - 1 ELSE x
          PROVE  y \in 1..n - 1 /\ ts[y] = tracks[x]
      <3>1. CASE x > i
        <4>1. y \in 1..n - 1 /\ ~(y < i) /\ y + 1 = x
          BY <1>8, <2>3, <3>1
        <4> QED
          BY <1>9, <4>1
      <3>2. CASE ~(x > i)
        <4>1. y \in 1..n - 1 /\ y < i /\ y = x
          BY <1>8, <2>3, <3>2
        <4> QED
          BY <1>9, <4>1
      <3> QED
        BY <3>1, <3>2
    <2>4. \A c \in cs : c.track \in 1..n - 1
      <3> TAKE c \in cs
      <3>1. PICK x \in clips : x.track # i /\ c.track = IF x.track > i THEN x.track - 1 ELSE x.track
        BY <1>6
      <3>2. x.track \in 1..n
        BY <1>8, <2>2 DEF OnRows, clips, tracks
      <3> QED
        BY <2>3, <3>1, <3>2
    <2>5. \A s \in ss : s.track \in 1..n - 1 /\ ts[s.track].kind = "subtitle"
      <3> TAKE s \in ss
      <3>1. PICK x \in Here.subs : x.track # i /\ s.track = IF x.track > i THEN x.track - 1 ELSE x.track
        BY <1>7
      <3>2. x.track \in 1..n /\ tracks[x.track].kind = "subtitle"
        BY <1>8, <2>2 DEF OnRows, tracks
      <3>3. s.track \in 1..n - 1 /\ ts[s.track] = tracks[x.track]
        BY <2>3, <3>1, <3>2
      <3> QED
        BY <3>2, <3>3
    <2> QED
      BY <1>4, <1>10, <2>4, <2>5 DEF OnRows
  <1>14. /\ Version(With(one), Now) /\ Version(With(two), Now) /\ Version(With(three), Now)
         /\ OnTracks(doc) => OnTracks(With(three))
    BY <1>1, <1>12, <1>13, WithLine
  <1> DEFINE news == <<With(one), With(two), With(three)>>
  <1>15. Projects(news) /\ Last(news) = With(three)
    <2> DEFINE x == With(one)
               y == With(two)
               z == With(three)
    <2>1. Version(x, Now) /\ Version(y, Now) /\ Version(z, Now)
      BY <1>14
    <2> HIDE DEF x, y, z
    <2>2. Three(x, y, z)
      BY <2>1, ThreeVersions
    <2> QED
      BY <2>2 DEF Three, x, y, z
  <1>16. HeldClips' /\ Edit("untrack", news)
    BY <1>1, SessionKept DEF session, Edit
  <1> HIDE DEF news
  <1> QED
    BY <1>14, <1>15, <1>16, Edited

LEMMA LoweredIs ==
    ASSUME NEW things, NEW fields, "track" \in fields, \A x \in things : DOMAIN x = fields
    PROVE  /\ \A y \in Lowered(things) : DOMAIN y = fields
           /\ \A y \in Lowered(things) : \E x \in things :
                y.track = x.track + 1 /\ \A a \in fields \ {"track"} : y[a] = x[a]
           /\ IsFiniteSet(things) => IsFiniteSet(Lowered(things))
  <1> DEFINE f == [x \in things |-> [x EXCEPT !.track = @ + 1]]
  <1>1. Lowered(things) = {f[x] : x \in things}
    BY DEF Lowered
  <1>2. \A x \in things : /\ DOMAIN f[x] = fields /\ f[x].track = x.track + 1
                          /\ \A a \in fields \ {"track"} : f[x][a] = x[a]
    OBVIOUS
  <1> HIDE DEF f
  <1>3. IsFiniteSet(things) => IsFiniteSet({f[x] : x \in things})
    BY ImageFinite
  <1> QED
    BY <1>1, <1>2, <1>3

\* A subtitle track above the others, which everything goes down with.
LEMMA SubtitleTrackIs ==
    ASSUME IInv, Open
    PROVE  LET line == WithSubtitleTrack(Here)
           IN  /\ Line(line, assets) /\ (OnTracks(doc) => OnRows(line))
               /\ DOMAIN line = {"id", "tracks", "clips", "subs"}
               /\ 1 \in DOMAIN line.tracks /\ line.tracks[1].kind = "subtitle"
  <1> DEFINE t  == NewTrack("subtitle")
             ts == <<t>> \o tracks
             cs == Lowered(clips)
             ss == Lowered(Here.subs)
             n  == Len(tracks)
             line == WithSubtitleTrack(Here)
             S  == Range(tracks) \cup {t}
  <1>1. /\ DOMAIN line = {"id", "tracks", "clips", "subs"}
        /\ line.clips = cs /\ line.subs = ss /\ line.tracks = ts
    BY HereIsLine DEF WithSubtitleTrack, clips, tracks
  <1>2. ClipsIn(clips, assets) /\ AreCues(Here.subs) /\ AreTracks(tracks)
    BY HereIsLine
  <1> HIDE DEF line
  <1>3. ClipsIn(cs, assets) /\ \A y \in cs : \E x \in clips : y.track = x.track + 1
    <2>1. (\A x \in clips : DOMAIN x = ClipFields) /\ "track" \in ClipFields /\ "asset" \in ClipFields \ {"track"}
      BY <1>2 DEF ClipsIn, Shaped, IsClip, ClipFields
    <2>2. /\ \A y \in cs : DOMAIN y = ClipFields
          /\ \A y \in cs : \E x \in clips :
               y.track = x.track + 1 /\ \A a \in ClipFields \ {"track"} : y[a] = x[a]
          /\ IsFiniteSet(clips) => IsFiniteSet(cs)
      BY <2>1, LoweredIs
    <2> HIDE DEF cs
    <2>3. \A y \in cs : Shaped(y) /\ y.asset \in DOMAIN assets \cup {None}
      BY <1>2, <2>2, LikeButTrack DEF ClipsIn
    <2> QED
      BY <1>2, <2>2, <2>3 DEF ClipsIn
  <1>4. AreCues(ss) /\ \A y \in ss : \E x \in Here.subs : y.track = x.track + 1
    <2> DEFINE cue == {"id", "track", "start", "end"}
    <2>1. (\A x \in Here.subs : DOMAIN x = cue) /\ "track" \in cue
      BY <1>2 DEF AreCues
    <2> HIDE DEF cue
    <2>2. (\A y \in ss : DOMAIN y = cue) /\ \A y \in ss : \E x \in Here.subs : y.track = x.track + 1
      BY <2>1, LoweredIs
    <2> QED
      BY <2>2 DEF AreCues, cue
  <1>5. DOMAIN t = {"kind", "patched", "locked"} /\ t.kind = "subtitle"
    BY DEF NewTrack, Track
  <1>6. tracks \in Seq(S) /\ t \in S /\ n \in Nat /\ DOMAIN tracks = 1..n
    BY TrackRange
  <1> HIDE DEF cs, ss, t, S
  <1>7. /\ ts \in Seq(S) /\ Len(ts) = n + 1 /\ ts[1] = t
        /\ \A j \in 1..n : ts[j + 1] = tracks[j]
    BY <1>6
  <1> HIDE DEF ts, n
  <1>8. DOMAIN ts = 1..n + 1 /\ 1 \in DOMAIN ts
    BY <1>6, <1>7
  <1>9. AreTracks(ts)
    <2>1. IsList(ts) /\ ts # <<>>
      BY <1>7, <1>8, ListIn
    <2>2. ASSUME NEW j \in 1..n + 1 PROVE DOMAIN ts[j] = {"kind", "patched", "locked"}
      <3>1. CASE j = 1
        BY <1>5, <1>7, <3>1
      <3>2. CASE j # 1
        <4> DEFINE k == j - 1
        <4>1. k \in 1..n /\ j = k + 1
          BY <1>6, <3>2
        <4> HIDE DEF k
        <4>2. ts[j] = tracks[k]
          BY <1>7, <4>1
        <4> QED
          BY <1>2, <1>6, <4>1, <4>2 DEF AreTracks
      <3> QED
        BY <3>1, <3>2
    <2> QED
      BY <1>8, <2>1, <2>2 DEF AreTracks
  <1>10. Line(line, assets)
    BY <1>1, <1>3, <1>4, <1>9 DEF Line
  <1>11. OnTracks(doc) => OnRows(line)
    <2>1. SUFFICES ASSUME OnTracks(doc) PROVE OnRows(line)
      OBVIOUS
    <2>2. OnRows(Here)
      BY <2>1, HereIsLine
    <2>3. \A x \in 1..n : x + 1 \in DOMAIN ts /\ ts[x + 1] = tracks[x]
      BY <1>6, <1>7, <1>8
    <2>4. \A c \in cs : c.track \in DOMAIN ts
      BY <1>3, <1>6, <2>2, <2>3 DEF OnRows, clips, tracks
    <2>5. \A s \in ss : s.track \in DOMAIN ts /\ ts[s.track].kind = "subtitle"
      BY <1>4, <1>6, <2>2, <2>3 DEF OnRows, tracks
    <2> QED
      BY <1>1, <2>4, <2>5 DEF OnRows
  <1> QED
    BY <1>1, <1>5, <1>7, <1>8, <1>10, <1>11 DEF line

LEMMA SubtitleTrackAdded ==
    ASSUME IInv, AddSubtitleTrack
    PROVE  Handled
  <1> DEFINE line == WithSubtitleTrack(Here)
  <1>1. Open /\ Edit("subtitle", <<With(line)>>) /\ UNCHANGED session
    BY DEF AddSubtitleTrack
  <1>2. Line(line, assets) /\ (OnTracks(doc) => OnRows(line))
    BY <1>1, SubtitleTrackIs
  <1> HIDE DEF line
  <1> QED
    BY <1>1, <1>2, LineEdited

\* Other cues on the subtitle tracks of a timeline.
LEMMA CuesChanged ==
    ASSUME NEW line, Line(line, assets), NEW ss, AreCues(ss),
           \A s \in ss : \/ s \in line.subs
                         \/ s.track \in DOMAIN line.tracks /\ line.tracks[s.track].kind = "subtitle"
    PROVE  LET next == [line EXCEPT !.subs = ss]
           IN  Line(next, assets) /\ (OnRows(line) => OnRows(next))
  <1> DEFINE next == [line EXCEPT !.subs = ss]
  <1>1. /\ DOMAIN next = {"id", "tracks", "clips", "subs"}
        /\ next.clips = line.clips /\ next.tracks = line.tracks /\ next.subs = ss
    BY DEF Line
  <1> HIDE DEF next
  <1> QED
    BY <1>1 DEF Line, OnRows, next

LEMMA CueIs ==
    ASSUME NEW id, NEW track, NEW start, NEW end
    PROVE  LET s == Subtitle(id, track, start, end)
           IN  DOMAIN s = {"id", "track", "start", "end"} /\ s.track = track
  BY DEF Subtitle

LEMMA CuesImported ==
    ASSUME IInv, NEW cues, ImportSrtCues(cues)
    PROVE  Handled
  <1> DEFINE rows == {i \in DOMAIN tracks : tracks[i].kind = "subtitle"}
             line == IF rows = {} THEN WithSubtitleTrack(Here) ELSE Here
             row  == IF rows = {} THEN 1 ELSE Min(rows)
             new  == {Subtitle(<<Now, c[1]>>, row, c[1], c[2]) : c \in cues}
             ss   == {s \in line.subs : s.track # row} \cup new
             next == [line EXCEPT !.subs = ss]
  <1>1. Open /\ Edit("cues", <<With(next)>>) /\ UNCHANGED session
    BY DEF ImportSrtCues
  <1>2. /\ Line(line, assets) /\ (OnTracks(doc) => OnRows(line))
        /\ row \in DOMAIN line.tracks /\ line.tracks[row].kind = "subtitle"
    <2>1. CASE rows = {}
      <3>1. line = WithSubtitleTrack(Here) /\ row = 1
        BY <2>1
      <3> HIDE DEF rows, line, row
      <3> QED
        BY <1>1, <3>1, SubtitleTrackIs
    <2>2. CASE rows # {}
      <3>1. line = Here /\ row = Min(rows) /\ Here.tracks = tracks
        BY <2>2 DEF tracks
      <3>2. Min(rows) \in rows
        <4>1. rows \in SUBSET (1..Len(tracks)) /\ Len(tracks) \in Nat
          BY <1>1, TrackRange
        <4> HIDE DEF rows
        <4> QED
          BY <2>2, <4>1, MinIn
      <3>3. Min(rows) \in DOMAIN tracks /\ tracks[Min(rows)].kind = "subtitle"
        BY <3>2
      <3> HIDE DEF rows, line, row
      <3> QED
        BY <1>1, <3>1, <3>3, HereIsLine
    <2> QED
      BY <2>1, <2>2
  <1> HIDE DEF line, row
  <1>3. \A s \in new : DOMAIN s = {"id", "track", "start", "end"} /\ s.track = row
    <2> TAKE s \in new
    <2>1. PICK c \in cues : s = Subtitle(<<Now, c[1]>>, row, c[1], c[2])
      OBVIOUS
    <2> QED
      BY <2>1 DEF Subtitle
  <1> HIDE DEF new
  <1>4. AreCues(ss)
    BY <1>2, <1>3 DEF AreCues, Line
  <1>5. \A s \in ss : \/ s \in line.subs
                      \/ s.track \in DOMAIN line.tracks /\ line.tracks[s.track].kind = "subtitle"
    BY <1>2, <1>3
  <1> HIDE DEF ss
  <1>6. Line(next, assets) /\ (OnRows(line) => OnRows(next))
    BY <1>2, <1>4, <1>5, CuesChanged
  <1> HIDE DEF next
  <1> QED
    BY <1>1, <1>2, <1>6, LineEdited

LEMMA CueAdded ==
    ASSUME IInv, NEW track, NEW time, NEW dur, AddSubtitle(track, time, dur)
    PROVE  Handled
  <1> DEFINE cue  == Subtitle(<<Now>>, track, time, time + dur)
             ss   == Here.subs \cup {cue}
             next == [Here EXCEPT !.subs = ss]
  <1>1. /\ Open /\ track \in DOMAIN tracks /\ tracks[track].kind = "subtitle"
        /\ Edit("cue", <<With(next)>>) /\ UNCHANGED session
    BY DEF AddSubtitle
  <1>2. DOMAIN cue = {"id", "track", "start", "end"} /\ cue.track = track
    BY CueIs
  <1>3. Line(Here, assets) /\ AreCues(Here.subs) /\ (OnTracks(doc) => OnRows(Here))
    BY <1>1, HereIsLine
  <1> HIDE DEF cue
  <1>4. AreCues(ss)
    BY <1>2, <1>3 DEF AreCues
  <1>5. \A s \in ss : \/ s \in Here.subs
                      \/ s.track \in DOMAIN Here.tracks /\ Here.tracks[s.track].kind = "subtitle"
    BY <1>1, <1>2 DEF tracks
  <1> HIDE DEF ss
  <1>6. Line(next, assets) /\ (OnRows(Here) => OnRows(next))
    BY <1>3, <1>4, <1>5, CuesChanged
  <1> HIDE DEF next
  <1> QED
    BY <1>1, <1>3, <1>6, LineEdited

LEMMA CueDeleted ==
    ASSUME IInv, Open, NEW cue, DeleteSubtitle(cue)
    PROVE  Handled
  <1> DEFINE ss   == Here.subs \ {cue}
             next == [Here EXCEPT !.subs = ss]
  <1>1. Edit("uncue", <<With(next)>>) /\ UNCHANGED session
    BY DEF DeleteSubtitle
  <1>2. Line(Here, assets) /\ AreCues(Here.subs) /\ (OnTracks(doc) => OnRows(Here))
    BY HereIsLine
  <1>3. AreCues(ss) /\ \A s \in ss : s \in Here.subs
    BY <1>2 DEF AreCues
  <1> HIDE DEF ss
  <1>4. Line(next, assets) /\ (OnRows(Here) => OnRows(next))
    BY <1>2, <1>3, CuesChanged
  <1> HIDE DEF next
  <1> QED
    BY <1>1, <1>2, <1>4, LineEdited

\* A gap is between two numbers.
LEMMA GapInt ==
    ASSUME IInv, Open, NEW gap \in Gaps
    PROVE  gap.start \in Int /\ gap.end \in Int
  <1> DEFINE Before(c) == {d \in OnTrack(clips, c.track) : d.start < c.start}
             starts(c) == {d.start : d \in Before(c)}
             late(c) == {x \in Before(c) : x.start = Max(starts(c))}
             ends(c) == {End(d) : d \in late(c)}
             Previous(c) == IF Before(c) = {} THEN 0 ELSE Max(ends(c))
  <1>1. PICK c \in clips : gap = [track |-> c.track, start |-> Previous(c), end |-> c.start]
    BY DEF Gaps
  <1>2. IsFiniteSet(clips) /\ \A d \in clips : End(d) \in Int /\ d.start \in Int
    BY HereIsLine, EndIs DEF Fits
  <1>3. Before(c) \subseteq clips /\ IsFiniteSet(Before(c))
    BY <1>2, FS_Subset DEF OnTrack
  <1>4. CASE Before(c) = {}
    BY <1>1, <1>2, <1>4
  <1>5. CASE Before(c) # {}
    <2>1. Max(starts(c)) \in starts(c)
      <3> DEFINE g == [d \in Before(c) |-> d.start]
                 S == {g[d] : d \in Before(c)}
      <3>1. IsFiniteSet(S)
        BY <1>3, ImageFinite
      <3>2. S = starts(c) /\ S # {} /\ \A x \in S : x \in Int
        BY <1>2, <1>3, <1>5
      <3> HIDE DEF S, starts
      <3> QED
        BY <3>1, <3>2, ExtremesIn
    <2>2. late(c) # {} /\ late(c) \subseteq clips /\ IsFiniteSet(late(c))
      BY <1>3, <2>1, FS_Subset
    <2>3. Max(ends(c)) \in ends(c) /\ Max(ends(c)) \in Int
      <3> DEFINE l == late(c)
                 g == [d \in l |-> End(d)]
                 S == {g[d] : d \in l}
      <3> HIDE DEF l
      <3>1. IsFiniteSet(S)
        BY <2>2, ImageFinite DEF l
      <3>2. S # {} /\ \A x \in S : x \in Int
        BY <1>2, <2>2 DEF l
      <3>3. S = ends(c)
        BY DEF l
      <3> HIDE DEF S, ends
      <3> QED
        BY <3>1, <3>2, <3>3, ExtremesIn
    <2> HIDE DEF ends
    <2> QED
      BY <1>1, <1>2, <1>5, <2>3
  <1> QED
    BY <1>4, <1>5

LEMMA GapClosed ==
    ASSUME IInv, Open, NEW gap \in Gaps, CloseGap(gap)
    PROVE  Handled
  <1> DEFINE by == gap.end - gap.start
             f  == [c \in clips |-> IF c.start >= gap.end THEN Shift(c, -by) ELSE c]
             cs == {f[c] : c \in clips}
             g  == [s \in Here.subs |-> IF s.start >= gap.end
                                        THEN [s EXCEPT !.start = @ - by, !.end = @ - by] ELSE s]
             ss == {g[s] : s \in Here.subs}
             one == [Here EXCEPT !.clips = cs]
             two == [one EXCEPT !.subs = ss]
             fields == {"id", "tracks", "clips", "subs"}
  <1>1. Edit("gap", <<With(one), With(two)>>) /\ UNCHANGED session
    BY DEF CloseGap, Mapped
  <1>2. DOMAIN one = fields /\ one.clips = cs /\ one.subs = Here.subs /\ one.tracks = tracks
    BY HereIsLine DEF tracks
  <1> HIDE DEF one
  <1>3. DOMAIN two = fields /\ two.clips = cs /\ two.subs = ss /\ two.tracks = tracks
    BY <1>2
  <1> HIDE DEF two
  <1>4. ClipsIn(clips, assets) /\ AreCues(Here.subs) /\ AreTracks(tracks)
    BY HereIsLine
  <1>5. \A c \in clips : Same(f[c], c)
    <2>1. by \in Int /\ -by \in Int /\ minted \in Nat
      BY GapInt DEF IInv
    <2> HIDE DEF by
    <2> QED
      BY <2>1, HereIsLine, CopySame DEF Fits
  <1>6. \A s \in Here.subs : DOMAIN g[s] = {"id", "track", "start", "end"} /\ g[s].track = s.track
    BY <1>4 DEF AreCues
  <1> HIDE DEF f, g, by
  <1>7. Kin(cs, clips)
    BY <1>5, MappedKin
  <1>8. ClipsIn(cs, assets)
    BY <1>4, <1>7 DEF ClipsIn, Kin, Same, Shaped
  <1>9. AreCues(ss)
    BY <1>6 DEF AreCues
  <1>10. Line(one, assets) /\ Line(two, assets)
    BY <1>2, <1>3, <1>4, <1>8, <1>9 DEF Line
  <1>11. OnTracks(doc) => OnRows(two)
    <2>1. SUFFICES ASSUME OnTracks(doc) PROVE OnRows(two)
      OBVIOUS
    <2>2. OnRows(Here)
      BY <2>1, HereIsLine
    <2>3. \A c \in cs : c.track \in DOMAIN tracks
      BY <1>7, <2>2 DEF Kin, Same, OnRows, clips, tracks
    <2>4. \A s \in ss : s.track \in DOMAIN tracks /\ tracks[s.track].kind = "subtitle"
      BY <1>6, <2>2 DEF OnRows, tracks
    <2> HIDE DEF cs, ss
    <2> QED
      BY <1>3, <2>3, <2>4 DEF OnRows
  <1>12. /\ Version(With(one), Now) /\ Version(With(two), Now)
         /\ OnTracks(doc) => OnTracks(With(two))
    BY <1>10, <1>11, WithLine
  <1> DEFINE news == <<With(one), With(two)>>
  <1>13. Projects(news) /\ Last(news) = With(two)
    <2> DEFINE x == With(one)
               y == With(two)
    <2>1. Version(x, Now) /\ Version(y, Now)
      BY <1>12
    <2> HIDE DEF x, y
    <2>2. Two(x, y)
      BY <2>1, TwoVersions
    <2> QED
      BY <2>2 DEF Two, x, y
  <1>14. HeldClips' /\ Edit("gap", news)
    BY <1>1, SessionKept DEF session, Edit
  <1> HIDE DEF news
  <1> QED
    BY <1>12, <1>13, <1>14, Edited

-----------------------------------------------------------------------------
(* Assets, takes and timelines *)

\* Clips that are there stay with their assets when there are more of these.
LEMMA LineWithAssets ==
    ASSUME NEW line, NEW as, NEW more, Line(line, as), DOMAIN as \subseteq DOMAIN more
    PROVE  Line(line, more)
  <1>1. ClipsIn(line.clips, more)
    BY DEF Line, ClipsIn
  <1> QED
    BY <1>1 DEF Line

LEMMA MoreAssets ==
    ASSUME IInv, NEW as, DOMAIN assets \subseteq DOMAIN as, AssetsIn(as)
    PROVE  LET d == WithAssets(as)
           IN  /\ Version(d, Now) /\ (OnTracks(doc) => OnTracks(d))
               /\ DOMAIN d = {"assets", "lines"} /\ d.assets = as /\ d.lines = doc.lines
  <1> DEFINE d == WithAssets(as)
  <1>1. DOMAIN d = {"assets", "lines"} /\ d.assets = as /\ d.lines = doc.lines
    BY DocIsProject DEF WithAssets
  <1> HIDE DEF d
  <1>2. Version(d, Now)
    BY <1>1, DocIsProject, LineWithAssets, VersionIs
  <1>3. OnTracks(doc) => OnTracks(d)
    BY <1>1 DEF OnTracks
  <1> QED
    BY <1>1, <1>2, <1>3 DEF d

\* A timeline with other clips, on the tracks of those it had.
Retold(line, old, as) ==
    /\ DOMAIN line = DOMAIN old /\ line.tracks = old.tracks /\ line.subs = old.subs
    /\ ClipsIn(line.clips, as)
    /\ \A c \in line.clips : \E e \in old.clips : c.track = e.track

LEMMA RetoldIs ==
    ASSUME NEW old, NEW was, Line(old, was), NEW cs, NEW as, ClipsIn(cs, as),
           \A c \in cs : \E e \in old.clips : c.track = e.track
    PROVE  Retold([old EXCEPT !.clips = cs], old, as)
  BY DEF Line, Retold

LEMMA ListLike ==
    ASSUME NEW s, IsList(s), NEW t, NEW T, t \in [DOMAIN s -> T]
    PROVE  IsList(t)
  <1>1. s \in Seq(Range(s))
    BY DEF IsList
  <1>2. DOMAIN s = 1..Len(s) /\ Len(s) \in Nat
    BY <1>1
  <1>3. t \in Seq(T)
    BY <1>2
  <1> QED
    BY <1>3, ListIn

\* The assets and the clips of every timeline change.
LEMMA LinesChanged ==
    ASSUME IInv, NEW d, DOMAIN d = {"assets", "lines"}, AssetsIn(d.assets),
           IsList(d.lines), DOMAIN d.lines = DOMAIN doc.lines,
           \A i \in DOMAIN doc.lines : Retold(d.lines[i], doc.lines[i], d.assets)
    PROVE  Version(d, Now) /\ (OnTracks(doc) => OnTracks(d))
  <1> DEFINE lines == doc.lines
             new == d.lines
  <1>1. \A i \in DOMAIN lines : Line(lines[i], assets)
    BY DocIsProject
  <1>2. /\ DOMAIN d = {"assets", "lines"} /\ IsList(new) /\ DOMAIN new = DOMAIN lines
        /\ \A i \in DOMAIN lines : Retold(new[i], lines[i], d.assets)
    OBVIOUS
  <1>3. \A i \in DOMAIN lines : Line(new[i], d.assets)
    BY <1>1, <1>2 DEF Line, Retold
  <1>4. Version(d, Now)
    BY <1>2, <1>3, VersionIs
  <1>5. OnTracks(doc) => OnTracks(d)
    <2>1. SUFFICES ASSUME OnTracks(doc) PROVE OnTracks(d)
      OBVIOUS
    <2>2. \A i \in DOMAIN lines : OnRows(lines[i])
      BY <2>1, DocIsProject
    <2>3. \A i \in DOMAIN lines : OnRows(new[i])
      BY <1>2, <2>2 DEF OnRows, Retold
    <2> QED
      BY <1>2, <2>3 DEF OnTracks, OnRows
  <1> QED
    BY <1>4, <1>5

LEMMA AssetsEdited ==
    ASSUME IInv, NEW tool, NEW d, Edit(tool, <<d>>), UNCHANGED session,
           Version(d, Now) /\ (OnTracks(doc) => OnTracks(d))
    PROVE  Handled
  <1>1. HeldClips'
    BY SessionKept DEF session, Edit
  <1> QED
    BY <1>1, EditedTo

\* An asset of the library joins those there are.
LEMMA BroughtIn ==
    ASSUME IInv, NEW a, a \in DOMAIN Library
    PROVE  /\ DOMAIN Joined(Restrict(Library, {a}), assets) = {a} \cup DOMAIN assets
           /\ DOMAIN assets \subseteq DOMAIN Joined(Restrict(Library, {a}), assets)
           /\ AssetsIn(Joined(Restrict(Library, {a}), assets))
  <1> DEFINE more == Joined(Restrict(Library, {a}), assets)
  <1>1. DOMAIN more = {a} \cup DOMAIN assets
    BY DEF Joined, Restrict
  <1>2. \A x \in DOMAIN more : more[x] = IF x = a THEN Library[a] ELSE assets[x]
    BY DEF Joined, Restrict
  <1>3. IsAsset(Library[a]) /\ AssetsIn(assets)
    BY LibraryAssumption, DocIsProject
  <1> HIDE DEF more
  <1>4. AssetsIn(more)
    BY <1>1, <1>2, <1>3 DEF AssetsIn
  <1> QED
    BY <1>1, <1>4 DEF more

\* An asset with other takes, one of them active; a list of one take or two.
LEMMA Retaken ==
    ASSUME NEW lib, AssetsIn(lib), NEW a \in DOMAIN lib, NEW takes, IsList(takes),
           NEW n, n \in DOMAIN takes
    PROVE  /\ IsAsset([lib[a] EXCEPT !.takes = takes, !.active = n])
           /\ DOMAIN [lib EXCEPT ![a].takes = takes, ![a].active = n] = DOMAIN lib
           /\ AssetsIn([lib EXCEPT ![a].takes = takes, ![a].active = n])
  <1> DEFINE x == [lib[a] EXCEPT !.takes = takes, !.active = n]
             next == [lib EXCEPT ![a].takes = takes, ![a].active = n]
  <1>1. IsAsset(x)
    <2>1. IsAsset(lib[a])
      BY DEF AssetsIn
    <2>2. /\ DOMAIN x = {"kind", "dur", "takes", "active"} /\ x.dur = lib[a].dur
          /\ x.takes = takes /\ x.active = n
      BY <2>1 DEF IsAsset
    <2> HIDE DEF x
    <2> QED
      BY <2>1, <2>2 DEF IsAsset
  <1>2. DOMAIN next = DOMAIN lib /\ \A y \in DOMAIN lib : next[y] = IF y = a THEN x ELSE lib[y]
    OBVIOUS
  <1> HIDE DEF x, next
  <1>3. AssetsIn(next)
    BY <1>1, <1>2 DEF AssetsIn
  <1> QED
    BY <1>1, <1>2, <1>3 DEF x, next

LEMMA ShortLists ==
    \A x, y : /\ IsList(<<x>>) /\ 1 \in DOMAIN <<x>>
              /\ IsList(<<x, y>>) /\ 1 \in DOMAIN <<x, y>>
  <1> TAKE x, y
  <1>1. <<x>> \in Seq({x}) /\ <<x, y>> \in Seq({x, y}) /\ 1 \in DOMAIN <<x>> /\ 1 \in DOMAIN <<x, y>>
    OBVIOUS
  <1>2. IsList(<<x>>)
    BY <1>1, ListIn
  <1>3. IsList(<<x, y>>)
    BY <1>1, ListIn
  <1> QED
    BY <1>1, <1>2, <1>3

LEMMA AssetAdded ==
    ASSUME IInv, NEW a, AddAsset(a)
    PROVE  Handled
  <1> DEFINE as == Joined(Restrict(Library, {a}), assets)
  <1>1. Edit("asset", <<WithAssets(as)>>) /\ UNCHANGED session
    BY DEF AddAsset
  <1>2. DOMAIN assets \subseteq DOMAIN as /\ AssetsIn(as)
    BY BroughtIn DEF AddAsset
  <1> HIDE DEF as
  <1>3. Version(WithAssets(as), Now) /\ (OnTracks(doc) => OnTracks(WithAssets(as)))
    BY <1>2, MoreAssets
  <1> QED
    BY <1>1, <1>3, AssetsEdited

LEMMA ActiveTakeSet ==
    ASSUME IInv, NEW a \in DOMAIN assets, NEW take \in DOMAIN assets[a].takes,
           SetAssetActiveTake(a, take)
    PROVE  Handled
  <1> DEFINE as == [assets EXCEPT ![a].active = take]
  <1>1. Edit("active", <<WithAssets(as)>>) /\ UNCHANGED session
    BY DEF SetAssetActiveTake
  <1>2. DOMAIN assets \subseteq DOMAIN as /\ AssetsIn(as)
    <2> DEFINE x == [assets[a] EXCEPT !.active = take]
    <2>1. AssetsIn(assets) /\ IsAsset(assets[a])
      BY DocIsProject DEF AssetsIn
    <2>2. IsAsset(x)
      BY <2>1 DEF IsAsset
    <2>3. DOMAIN as = DOMAIN assets /\ \A y \in DOMAIN as : as[y] = IF y = a THEN x ELSE assets[y]
      OBVIOUS
    <2> HIDE DEF x, as
    <2> QED
      BY <2>1, <2>2, <2>3 DEF AssetsIn
  <1> HIDE DEF as
  <1>3. Version(WithAssets(as), Now) /\ (OnTracks(doc) => OnTracks(WithAssets(as)))
    BY <1>2, MoreAssets
  <1> QED
    BY <1>1, <1>3, AssetsEdited

\* The assets that go take their clips with them.
LEMMA WithoutAssetsIs ==
    ASSUME IInv, NEW d, NEW gone, DOMAIN d = {"assets", "lines"}, AssetsIn(d.assets),
           DOMAIN d.assets = DOMAIN assets, d.lines = doc.lines
    PROVE  LET e == WithoutAssets(d, gone)
           IN  Version(e, Now) /\ (OnTracks(doc) => OnTracks(e))
  <1> DEFINE e == WithoutAssets(d, gone)
             f == [i \in DOMAIN doc.lines |-> {c \in doc.lines[i].clips : c.asset \notin gone}]
             h == [i \in DOMAIN doc.lines |-> [doc.lines[i] EXCEPT !.clips = f[i]]]
  <1>1. /\ DOMAIN e = {"assets", "lines"} /\ DOMAIN e.assets = DOMAIN assets \ gone
        /\ \A x \in DOMAIN e.assets : e.assets[x] = d.assets[x]
        /\ e.lines = Everywhere(d, LAMBDA cs : {c \in cs : c.asset \notin gone}).lines
    BY DEF WithoutAssets, Restrict
  <1>2. e.lines = h
    <2>1. \A i \in DOMAIN doc.lines :
            [doc.lines[i] EXCEPT !.clips = {c \in @ : c.asset \notin gone}]
              = [doc.lines[i] EXCEPT !.clips = f[i]]
      OBVIOUS
    <2>2. Everywhere(d, LAMBDA cs : {c \in cs : c.asset \notin gone}).lines
            = [i \in DOMAIN doc.lines |-> [doc.lines[i] EXCEPT !.clips = {c \in @ : c.asset \notin gone}]]
      <3> DEFINE new == [i \in DOMAIN d.lines |-> [d.lines[i] EXCEPT !.clips = {c \in @ : c.asset \notin gone}]]
      <3>1. Everywhere(d, LAMBDA cs : {c \in cs : c.asset \notin gone}) = [d EXCEPT !.lines = new]
        BY DEF Everywhere
      <3>2. [d EXCEPT !.lines = new].lines = new
        <4> HIDE DEF new
        <4> QED
          OBVIOUS
      <3> QED
        BY <3>1, <3>2
    <2> QED
      BY <1>1, <2>1, <2>2
  <1>3. ASSUME NEW i \in DOMAIN doc.lines
        PROVE  /\ ClipsIn(f[i], e.assets)
               /\ \A c \in f[i] : \E x \in doc.lines[i].clips : c.track = x.track
    <2>1. ClipsIn(doc.lines[i].clips, assets)
      BY DocIsProject DEF Line
    <2>2. f[i] \subseteq doc.lines[i].clips /\ \A c \in f[i] : c.asset \notin gone
      OBVIOUS
    <2>3. IsFiniteSet(f[i])
      BY <2>1, <2>2, FS_Subset DEF ClipsIn
    <2> HIDE DEF f, e
    <2> QED
      BY <1>1, <2>1, <2>2, <2>3 DEF ClipsIn
  <1>4. h \in [DOMAIN doc.lines -> Range(h)] /\ DOMAIN h = DOMAIN doc.lines /\ \A i \in DOMAIN doc.lines : h[i] = [doc.lines[i] EXCEPT !.clips = f[i]]
    BY DEF Range
  <1> HIDE DEF e, f, h
  <1>5. Version(e, Now) /\ (OnTracks(doc) => OnTracks(e))
    <2>1. IsList(e.lines) /\ DOMAIN e.lines = DOMAIN doc.lines
      BY <1>2, <1>4, DocIsProject, ListLike
    <2>2. \A i \in DOMAIN doc.lines : Retold(e.lines[i], doc.lines[i], e.assets)
      BY <1>2, <1>3, <1>4, DocIsProject, RetoldIs
    <2>3. AssetsIn(e.assets)
      BY <1>1 DEF AssetsIn
    <2> QED
      BY <1>1, <2>1, <2>2, <2>3, LinesChanged
  <1> QED
    BY <1>5 DEF e

LEMMA AssetsDeleted ==
    ASSUME IInv, NEW gone, DeleteAssets(gone)
    PROVE  Handled
  <1>1. Edit("unasset", <<WithoutAssets(doc, gone)>>) /\ UNCHANGED session
    BY DEF DeleteAssets
  <1>2. /\ Version(WithoutAssets(doc, gone), Now)
        /\ OnTracks(doc) => OnTracks(WithoutAssets(doc, gone))
    BY DocIsProject, WithoutAssetsIs DEF assets
  <1> QED
    BY <1>1, <1>2, AssetsEdited

\* The takes that are left when one goes, and the one that is active.
LEMMA TakeGone ==
    ASSUME IInv, NEW a \in DOMAIN assets, NEW take \in DOMAIN assets[a].takes,
           Len(assets[a].takes) > 1
    PROVE  LET kept == IF Len(assets[a].takes) > 1 THEN RemoveAt(assets[a].takes, take)
                       ELSE assets[a].takes
               lib  == [assets EXCEPT ![a].takes = kept, ![a].active = Least(@, Len(kept))]
           IN  DOMAIN lib = DOMAIN assets /\ AssetsIn(lib)
  <1> DEFINE takes == assets[a].takes
             kept == IF Len(assets[a].takes) > 1 THEN RemoveAt(assets[a].takes, take)
                     ELSE assets[a].takes
             n == Least(assets[a].active, Len(kept))
             lib == [assets EXCEPT ![a].takes = kept, ![a].active = Least(@, Len(kept))]
  <1>1. /\ AssetsIn(assets) /\ takes \in Seq(Range(takes)) /\ take \in 1..Len(takes)
        /\ assets[a].active \in 1..Len(takes) /\ Len(takes) > 1 /\ Len(takes) \in Nat
    <2>1. AssetsIn(assets) /\ IsAsset(assets[a])
      BY DocIsProject DEF AssetsIn
    <2> DEFINE m == assets[a].active
    <2>2. takes \in Seq(Range(takes)) /\ take \in DOMAIN takes /\ m \in DOMAIN takes /\ Len(takes) > 1
      BY <2>1 DEF IsAsset, IsList
    <2> HIDE DEF takes, m
    <2>3. take \in 1..Len(takes) /\ m \in 1..Len(takes) /\ Len(takes) \in Nat
      BY <2>2
    <2> QED
      BY <2>1, <2>2, <2>3 DEF m
  <1>2. kept = RemoveAt(takes, take)
    BY <1>1
  <1> HIDE DEF kept
  <1>3. kept \in Seq(Range(takes)) /\ Len(kept) = Len(takes) - 1
    <2> HIDE DEF takes
    <2> QED
      BY <1>1, <1>2, RemoveAtProperties
  <1>4. IsList(kept) /\ n \in DOMAIN kept
    <2> DEFINE m == assets[a].active
    <2> HIDE DEF takes, m
    <2>1. IsList(kept)
      BY <1>3, ListIn
    <2>2. m \in 1..Len(takes)
      BY <1>1 DEF m
    <2>3. Least(m, Len(kept)) \in DOMAIN kept
      BY <1>1, <1>3, <2>2 DEF Least
    <2> QED
      BY <2>1, <2>3 DEF m
  <1>5. lib = [assets EXCEPT ![a].takes = kept, ![a].active = n]
    BY <1>1 DEF IsAsset, AssetsIn
  <1> HIDE DEF n, lib
  <1>6. DOMAIN lib = DOMAIN assets /\ AssetsIn(lib)
    BY <1>1, <1>4, <1>5, Retaken
  <1> QED
    BY <1>6 DEF lib, kept

LEMMA TakeDeleted ==
    ASSUME IInv, NEW a \in DOMAIN assets, NEW take \in DOMAIN assets[a].takes,
           DeleteAssetTake(a, take)
    PROVE  Handled
  <1> DEFINE kept == IF Len(assets[a].takes) > 1 THEN RemoveAt(assets[a].takes, take)
                     ELSE assets[a].takes
             as   == [assets EXCEPT ![a].takes = kept, ![a].active = Least(@, Len(kept))]
             d    == WithAssets(as)
             g    == [i \in DOMAIN doc.lines |->
                        [c \in doc.lines[i].clips |->
                           IF c.asset = a THEN [c EXCEPT !.take = RepointedTake(@, take)] ELSE c]]
             Repointed(cs) == {IF c.asset = a THEN [c EXCEPT !.take = RepointedTake(@, take)] ELSE c : c \in cs}
             e    == Everywhere(d, Repointed)
             f    == [i \in DOMAIN doc.lines |-> {g[i][c] : c \in doc.lines[i].clips}]
             m    == [i \in DOMAIN doc.lines |-> [doc.lines[i] EXCEPT !.clips = f[i]]]
  <1>1. Edit("untake", <<e>>) /\ UNCHANGED session
    BY DEF DeleteAssetTake
  <1>0. take \in Nat \ {0}
    <2>1. IsAsset(assets[a])
      BY DocIsProject DEF AssetsIn
    <2> DEFINE list == assets[a].takes
    <2>2. list \in Seq(Range(list)) /\ take \in DOMAIN list
      BY <2>1 DEF IsAsset, IsList
    <2> HIDE DEF list
    <2> QED
      BY <2>2
  <1>2. DOMAIN as = DOMAIN assets /\ AssetsIn(as)
    BY TakeGone DEF DeleteAssetTake
  <1> HIDE DEF as
  <1>3. DOMAIN d = {"assets", "lines"} /\ d.assets = as /\ d.lines = doc.lines
    BY <1>2, MoreAssets
  <1> HIDE DEF d
  <1>4. /\ DOMAIN e = {"assets", "lines"} /\ e.assets = as
        /\ e.lines = m
    <2> DEFINE new == [i \in DOMAIN d.lines |-> [d.lines[i] EXCEPT !.clips = Repointed(d.lines[i].clips)]]
    <2>1. e = [d EXCEPT !.lines = new]
      BY DEF Everywhere
    <2>2. new = m
      BY <1>3
    <2> HIDE DEF new, e, m
    <2> QED
      BY <1>3, <2>1, <2>2
  <1>5. ASSUME NEW i \in DOMAIN doc.lines
        PROVE  /\ ClipsIn(f[i], e.assets)
               /\ \A c \in f[i] : \E x \in doc.lines[i].clips : c.track = x.track
    <2> DEFINE cs == doc.lines[i].clips
               h == g[i]
    <2>1. ClipsIn(cs, assets)
      BY DocIsProject DEF Line
    <2>2. \A c \in cs : Same(h[c], c)
      <3> TAKE c \in cs
      <3> DEFINE k == RepointedTake(c.take, take)
                 e2 == [c EXCEPT !.take = RepointedTake(@, take)]
      <3>1. Shaped(c)
        BY <2>1 DEF ClipsIn
      <3>2. k \in {None} \cup (Nat \ {0})
        BY <1>0, <3>1 DEF RepointedTake, Largest, Shaped, IsClip
      <3>3. /\ DOMAIN e2 = ClipFields /\ e2.start = c.start /\ e2.dur = c.dur
            /\ e2.trimStart = c.trimStart /\ e2.trimEnd = c.trimEnd /\ e2.speed = c.speed
            /\ e2.take = k /\ e2.asset = c.asset /\ e2.track = c.track /\ e2.id = c.id
            /\ e2.reversed = c.reversed
        BY <3>1 DEF Shaped, IsClip, ClipFields
      <3>4. h[c] \in {c, e2}
        OBVIOUS
      <3> HIDE DEF e2, k
      <3>5. Same(e2, c) /\ Same(c, c)
        BY <3>1, <3>2, <3>3 DEF Same, Shaped, IsClip
      <3> QED
        BY <3>4, <3>5
    <2>3. f[i] = {h[c] : c \in cs}
      OBVIOUS
    <2> HIDE DEF h, f, cs, e
    <2>4. IsFiniteSet(f[i])
      BY <2>1, <2>3, ImageFinite DEF ClipsIn
    <2>5. ClipsIn(f[i], e.assets)
      BY <1>2, <1>4, <2>1, <2>2, <2>3, <2>4 DEF ClipsIn, Same, Shaped
    <2>6. \A c \in f[i] : \E x \in cs : c.track = x.track
      BY <2>2, <2>3 DEF Same
    <2> QED
      BY <2>5, <2>6 DEF cs
  <1>6. m \in [DOMAIN doc.lines -> Range(m)] /\ DOMAIN m = DOMAIN doc.lines /\ \A i \in DOMAIN doc.lines : m[i] = [doc.lines[i] EXCEPT !.clips = f[i]]
    <2> HIDE DEF f
    <2> QED
      BY DEF Range
  <1> HIDE DEF e, f, m
  <1>7. Version(e, Now) /\ (OnTracks(doc) => OnTracks(e))
    <2>1. IsList(e.lines) /\ DOMAIN e.lines = DOMAIN doc.lines
      BY <1>4, <1>6, DocIsProject, ListLike
    <2>2. \A i \in DOMAIN doc.lines : Retold(e.lines[i], doc.lines[i], e.assets)
      <3> TAKE i \in DOMAIN doc.lines
      <3> DEFINE old == doc.lines[i]
                 cs  == f[i]
      <3>1. Line(old, assets) /\ e.lines[i] = [old EXCEPT !.clips = cs]
        BY <1>4, <1>6, DocIsProject
      <3>2. ClipsIn(cs, e.assets) /\ \A c \in cs : \E x \in old.clips : c.track = x.track
        BY <1>5
      <3> HIDE DEF old, cs
      <3>3. Retold([old EXCEPT !.clips = cs], old, e.assets)
        BY <3>1, <3>2, RetoldIs
      <3> QED
        BY <3>1, <3>3 DEF old
    <2> QED
      BY <1>2, <1>4, <2>1, <2>2, LinesChanged
  <1> QED
    BY <1>1, <1>7, AssetsEdited

LEMMA TwoCommitted ==
    ASSUME IInv, NEW tool, NEW d, NEW e, Edit(tool, <<d, e>>), UNCHANGED session,
           Version(d, Now), Version(e, Now), OnTracks(doc) => OnTracks(e)
    PROVE  Handled
  <1> DEFINE news == <<d, e>>
  <1>1. Projects(news) /\ Last(news) = e
    <2>1. Two(d, e)
      BY TwoVersions
    <2> QED
      BY <2>1 DEF Two
  <1>2. HeldClips' /\ Edit(tool, news)
    BY SessionKept DEF session, Edit
  <1> HIDE DEF news
  <1> QED
    BY <1>1, <1>2, Edited

LEMMA TakesGrouped ==
    ASSUME IInv, NEW a \in DOMAIN assets, NEW b \in DOMAIN assets, GroupTakes(a, b)
    PROVE  Handled
  <1> DEFINE shown(x) == assets[x].takes[assets[x].active]
             as  == [assets EXCEPT ![a].takes = <<shown(a), shown(b)>>, ![a].active = 1]
             one == WithAssets(as)
             two == WithoutAssets(one, {b})
  <1>1. Edit("group", <<one, two>>) /\ UNCHANGED session
    BY DEF GroupTakes
  <1>2. DOMAIN as = DOMAIN assets /\ AssetsIn(as)
    <2> DEFINE takes == <<shown(a), shown(b)>>
    <2>1. AssetsIn(assets) /\ IsList(takes) /\ 1 \in DOMAIN takes
      BY DocIsProject, ShortLists
    <2> HIDE DEF takes
    <2>2. LET lib == [assets EXCEPT ![a].takes = takes, ![a].active = 1]
          IN  DOMAIN lib = DOMAIN assets /\ AssetsIn(lib)
      BY <2>1, Retaken
    <2> QED
      BY <2>2 DEF takes
  <1> HIDE DEF as
  <1>3. /\ Version(one, Now) /\ DOMAIN one = {"assets", "lines"}
        /\ one.assets = as /\ one.lines = doc.lines
    BY <1>2, MoreAssets
  <1> HIDE DEF one
  <1>4. Version(two, Now) /\ (OnTracks(doc) => OnTracks(two))
    BY <1>2, <1>3, WithoutAssetsIs
  <1> HIDE DEF two
  <1> QED
    BY <1>1, <1>3, <1>4, TwoCommitted

LEMMA TakesUngrouped ==
    ASSUME IInv, NEW a \in DOMAIN assets, UngroupTakes(a)
    PROVE  Handled
  <1> DEFINE takes == assets[a].takes
             new   == [x \in {<<Now, i>> : i \in 2..Len(takes)} |->
                         [assets[a] EXCEPT !.takes = <<takes[x[2]]>>, !.active = 1]]
             more  == Joined(new, assets)
             most  == [more EXCEPT ![a].takes = <<takes[1]>>, ![a].active = 1]
  <1>1. Edit("ungroup", <<WithAssets(more), WithAssets(most)>>) /\ UNCHANGED session
    BY DEF UngroupTakes
  <1>0. AssetsIn(assets)
    BY DocIsProject
  <1>2. DOMAIN assets \subseteq DOMAIN more /\ AssetsIn(more)
    <2>1. \A x \in DOMAIN new : IsAsset(new[x])
      BY <1>0, ShortLists, Retaken
    <2> HIDE DEF new
    <2>2. DOMAIN more = DOMAIN new \cup DOMAIN assets
      BY DEF Joined
    <2>3. \A x \in DOMAIN more : more[x] = IF x \in DOMAIN new THEN new[x] ELSE assets[x]
      BY DEF Joined
    <2> HIDE DEF more
    <2> QED
      BY <1>0, <2>1, <2>2, <2>3 DEF AssetsIn
  <1> HIDE DEF more
  <1>3. DOMAIN assets \subseteq DOMAIN most /\ AssetsIn(most)
    BY <1>2, ShortLists, Retaken
  <1> HIDE DEF most
  <1>4. Version(WithAssets(more), Now) /\ Version(WithAssets(most), Now)
    BY <1>2, <1>3, MoreAssets
  <1>5. OnTracks(doc) => OnTracks(WithAssets(most))
    BY <1>3, MoreAssets
  <1> QED
    BY <1>1, <1>4, <1>5, TwoCommitted

\* A timeline that is added: its clips show assets of the project.
LEMMA LineAdded ==
    ASSUME IInv, NEW tool, NEW line, NEW d, DOMAIN d = {"assets", "lines"},
           d.lines = doc.lines, DOMAIN assets \subseteq DOMAIN d.assets, AssetsIn(d.assets),
           OpenLine(tool, line, d), Line(line, d.assets), OnTracks(doc) => OnRows(line)
    PROVE  Handled
  <1> DEFINE as == d.assets
             e == [d EXCEPT !.lines = Append(@, line)]
             lines == doc.lines
             all == Append(lines, line)
  <1>1. Edit(tool, <<e>>) /\ HeldClips'
    BY SessionKept DEF OpenLine, Edit
  <1>2. DOMAIN assets \subseteq DOMAIN as /\ AssetsIn(as) /\ Line(line, as)
    OBVIOUS
  <1>3. DOMAIN e = {"assets", "lines"} /\ e.assets = as /\ e.lines = all
    OBVIOUS
  <1> HIDE DEF e, as
  <1> DEFINE S == Range(lines) \cup {line}
  <1>4. lines \in Seq(S) /\ line \in S /\ Len(lines) \in Nat
    <2>1. lines \in Seq(Range(lines))
      BY DocIsProject DEF IsList
    <2> HIDE DEF lines
    <2> QED
      BY <2>1
  <1> HIDE DEF S
  <1>5. /\ all \in Seq(S) /\ DOMAIN all = 1..Len(lines) + 1 /\ DOMAIN lines = 1..Len(lines)
        /\ \A i \in DOMAIN all : all[i] = IF i = Len(lines) + 1 THEN line ELSE lines[i]
    <2> HIDE DEF lines
    <2> QED
      BY <1>4
  <1>6. IsList(all)
    <2> HIDE DEF all
    <2> QED
      BY <1>5, ListIn
  <1>7. \A i \in DOMAIN all : all[i] = line \/ (i \in DOMAIN lines /\ all[i] = lines[i])
    <2> HIDE DEF all, lines
    <2> QED
      BY <1>4, <1>5
  <1> HIDE DEF all
  <1>8. Version(e, Now)
    <2>1. \A i \in DOMAIN lines : Line(lines[i], as)
      BY <1>2, DocIsProject, LineWithAssets
    <2> HIDE DEF lines
    <2> QED
      BY <1>2, <1>3, <1>6, <1>7, <2>1, VersionIs
  <1>9. OnTracks(doc) => OnTracks(e)
    <2>1. OnTracks(doc) => \A i \in DOMAIN lines : OnRows(lines[i])
      BY DocIsProject
    <2> HIDE DEF lines
    <2> QED
      BY <1>3, <1>7, <2>1 DEF OnTracks, OnRows
  <1> QED
    BY <1>1, <1>8, <1>9, EditedTo

LEMMA LineCreated ==
    ASSUME IInv, CreateTimeline
    PROVE  Handled
  <1> DEFINE line == [id |-> <<Now>>, clips |-> {}, subs |-> {}, tracks |-> DefaultTracks]
  <1>1. OpenLine("create", line, doc)
    BY DEF CreateTimeline
  <1>2. AreTracks(DefaultTracks)
    <2> DEFINE v == Track("video", TRUE)
               w == Track("video", FALSE)
               a == Track("audio", TRUE)
               b == Track("audio", FALSE)
               s == <<v, w, w, a, b>>
               names == {"kind", "patched", "locked"}
    <2>1. DOMAIN v = names /\ DOMAIN w = names /\ DOMAIN a = names /\ DOMAIN b = names
      BY DEF Track
    <2> HIDE DEF v, w, a, b
    <2>2. s \in Seq({v, w, a, b}) /\ s # <<>> /\ \A i \in DOMAIN s : s[i] \in {v, w, a, b}
      OBVIOUS
    <2> HIDE DEF s
    <2>3. IsList(s) /\ \A i \in DOMAIN s : DOMAIN s[i] = names
      BY <2>1, <2>2, ListIn
    <2>4. AreTracks(s)
      BY <2>2, <2>3 DEF AreTracks
    <2> QED
      BY <2>4 DEF DefaultTracks, s, v, w, a, b
  <1>3. Line(line, assets)
    BY <1>2, FewFinite DEF Line, ClipsIn, AreCues
  <1>4. OnRows(line)
    BY DEF OnRows
  <1> HIDE DEF line
  <1> QED
    BY <1>1, <1>3, <1>4, DocIsProject, LineAdded DEF assets

LEMMA LineDuplicated ==
    ASSUME IInv, NEW i \in DOMAIN doc.lines, DuplicateTimeline(i)
    PROVE  Handled
  <1> DEFINE source == doc.lines[i]
             f == [c \in source.clips |-> Copy(c, Now)]
             g == [s \in source.subs |-> [s EXCEPT !.id = Append(@, Now)]]
             cs == {f[c] : c \in source.clips}
             ss == {g[s] : s \in source.subs}
             line == [source EXCEPT !.id = <<Now>>, !.clips = cs, !.subs = ss]
  <1>1. OpenLine("copyline", line, doc)
    BY DEF DuplicateTimeline
  <1>2. Line(source, assets) /\ (OnTracks(doc) => OnRows(source))
    BY DocIsProject
  <1>3. /\ DOMAIN source = {"id", "tracks", "clips", "subs"}
        /\ AreTracks(source.tracks) /\ ClipsIn(source.clips, assets) /\ AreCues(source.subs)
    BY <1>2 DEF Line
  <1> HIDE DEF source
  <1>4. \A c \in source.clips : Same(f[c], c)
    BY <1>3, CopyIs DEF ClipsIn, IInv
  <1>5. \A s \in source.subs : DOMAIN g[s] = {"id", "track", "start", "end"} /\ g[s].track = s.track
    BY <1>3 DEF AreCues
  <1> HIDE DEF f, g
  <1>6. ClipsIn(cs, assets)
    <2>1. IsFiniteSet(cs)
      BY <1>3, ImageFinite DEF ClipsIn
    <2> QED
      BY <1>3, <1>4, <2>1 DEF ClipsIn, Same, Shaped
  <1>7. AreCues(ss)
    BY <1>5 DEF AreCues
  <1>8. /\ DOMAIN line = {"id", "tracks", "clips", "subs"} /\ line.clips = cs
        /\ line.subs = ss /\ line.tracks = source.tracks
    <2> HIDE DEF cs, ss
    <2> QED
      BY <1>3
  <1> HIDE DEF line
  <1>9. Line(line, assets)
    BY <1>3, <1>6, <1>7, <1>8 DEF Line
  <1>10. OnTracks(doc) => OnRows(line)
    BY <1>2, <1>4, <1>5, <1>8 DEF OnRows, Same
  <1> QED
    BY <1>1, <1>9, <1>10, DocIsProject, LineAdded DEF assets

LEMMA LineImported ==
    ASSUME IInv, NEW a, NEW dur, dur \in Int, ImportTimeline(a, dur)
    PROVE  Handled
  <1> DEFINE seen  == NewClip(<<Now>>, "video", a, 1, 0, dur, {<<Now, 0>>})
             heard == NewClip(<<Now, 0>>, "audio", a, 2, 0, dur, {<<Now>>})
             video == NewTrack("video")
             audio == NewTrack("audio")
             ts    == <<video, audio>>
             line  == [id |-> <<Now>>, clips |-> {seen, heard}, subs |-> {}, tracks |-> ts]
             as    == Joined(Restrict(Library, {a}), assets)
             names == {"kind", "patched", "locked"}
  <1>1. OpenLine("import", line, WithAssets(as))
    BY DEF ImportTimeline
  <1>2. DOMAIN as = {a} \cup DOMAIN assets /\ DOMAIN assets \subseteq DOMAIN as /\ AssetsIn(as)
    BY BroughtIn DEF ImportTimeline
  <1> HIDE DEF as
  <1>3. AreTracks(ts) /\ DOMAIN ts = {1, 2}
    <2>1. DOMAIN video = names /\ DOMAIN audio = names
      BY DEF NewTrack, Track
    <2> HIDE DEF video, audio
    <2>2. /\ ts \in Seq({video, audio}) /\ ts # <<>> /\ DOMAIN ts = {1, 2}
          /\ ts[1] = video /\ ts[2] = audio
      OBVIOUS
    <2> HIDE DEF ts
    <2>3. IsList(ts)
      BY <2>2, ListIn
    <2> QED
      BY <2>1, <2>2, <2>3 DEF AreTracks
  <1>4. /\ Shaped(seen) /\ seen.asset = a /\ seen.track = 1
        /\ Shaped(heard) /\ heard.asset = a /\ heard.track = 2
    <2>1. <<Now>> \in Made(Now) /\ <<Now, 0>> \in Made(Now)
      BY MadeLater DEF IInv
    <2> QED
      BY <2>1, NewClipFits
  <1> HIDE DEF seen, heard, ts
  <1>5. ClipsIn({seen, heard}, as)
    BY <1>2, <1>4, FewFinite DEF ClipsIn, Shaped
  <1>6. Line(line, as) /\ OnRows(line)
    <2>1. /\ DOMAIN line = {"id", "tracks", "clips", "subs"} /\ line.clips = {seen, heard}
          /\ line.subs = {} /\ line.tracks = ts
      OBVIOUS
    <2> HIDE DEF line
    <2>2. Line(line, as)
      BY <1>3, <1>5, <2>1 DEF Line, AreCues
    <2>3. OnRows(line)
      BY <1>3, <1>4, <2>1 DEF OnRows
    <2> QED
      BY <2>2, <2>3
  <1> HIDE DEF line
  <1> DEFINE d == WithAssets(as)
  <1>7. DOMAIN d = {"assets", "lines"} /\ d.assets = as /\ d.lines = doc.lines
    BY <1>2, MoreAssets
  <1>8. OpenLine("import", line, d)
    BY <1>1
  <1> HIDE DEF d
  <1> QED
    BY <1>2, <1>6, <1>7, <1>8, LineAdded

LEMMA LineDeleted ==
    ASSUME IInv, NEW i \in DOMAIN doc.lines, DeleteTimeline(i)
    PROVE  Handled
  <1> DEFINE lines == doc.lines
             left == RemoveAt(lines, i)
             d == [doc EXCEPT !.lines = left]
  <1>1. Edit("unline", <<d>>) /\ HeldClips'
    BY SessionKept DEF DeleteTimeline, Edit
  <1>2. DOMAIN d = {"assets", "lines"} /\ d.assets = assets /\ d.lines = left
    <2> HIDE DEF left
    <2> QED
      BY DocIsProject DEF assets
  <1>3. lines \in Seq(Range(lines)) /\ i \in DOMAIN lines /\ DOMAIN lines = 1..Len(lines) /\ Len(lines) \in Nat
    <2>1. lines \in Seq(Range(lines)) /\ i \in DOMAIN lines
      BY DocIsProject DEF IsList
    <2> HIDE DEF lines
    <2> QED
      BY <2>1
  <1> HIDE DEF d
  <1>4. \A j \in DOMAIN lines : Line(lines[j], assets) /\ (OnTracks(doc) => OnRows(lines[j]))
    BY DocIsProject
  <1> HIDE DEF lines
  <1>5. /\ left \in Seq(Range(lines)) /\ Len(left) = Len(lines) - 1
        /\ \A j \in 1..Len(lines) - 1 : left[j] = IF j < i THEN lines[j] ELSE lines[j + 1]
    BY <1>3, RemoveAtProperties
  <1> HIDE DEF left
  <1>6. IsList(left) /\ \A j \in DOMAIN left : \E k \in DOMAIN lines : left[j] = lines[k]
    <2>1. DOMAIN left = 1..Len(lines) - 1
      BY <1>5
    <2>2. \A j \in 1..Len(lines) - 1 : j \in DOMAIN lines /\ j + 1 \in DOMAIN lines
      BY <1>3
    <2>3. IsList(left)
      BY <1>5, ListIn
    <2> QED
      BY <1>5, <2>1, <2>2, <2>3
  <1>7. Version(d, Now)
    BY <1>2, <1>4, <1>6, DocIsProject, VersionIs
  <1>8. OnTracks(doc) => OnTracks(d)
    BY <1>2, <1>4, <1>6 DEF OnTracks, OnRows
  <1> QED
    BY <1>1, <1>7, <1>8, EditedTo

-----------------------------------------------------------------------------
(* The clipboard *)

\* A step that changes what is held or open, and no document.
Still ==
    UNCHANGED <<doc, undoStack, redoStack, minted, did>> /\ HeldClips'

\* The clips there are have ids that were made before.
LEMMA MadeBefore ==
    ASSUME IInv, Open, NEW c \in clips
    PROVE  c.id \in Made(minted)
  <1>1. Version(doc, minted)
    BY DEF IInv, Versions
  <1>2. Current \in DOMAIN doc.lines
    BY HereIsLine
  <1> QED
    BY <1>1, <1>2 DEF Version, MadeBy, clips, Here

LEMMA Copied ==
    ASSUME IInv, NEW selected, CopySelection(selected)
    PROVE  Still
  <1> DEFINE few == {c \in clips : c.id \in selected}
  <1>1. /\ Open /\ clipboard' = few
        /\ UNCHANGED <<doc, undoStack, redoStack, minted, did, gesture>>
    BY DEF CopySelection, history, counts
  <1>2. IsFiniteSet(few) /\ \A c \in few : IsClip(c) /\ c.id \in Made(minted)
    BY <1>1, HereIsLine, MadeBefore, FS_Subset DEF Fits, Shaped
  <1> HIDE DEF few
  <1>3. HeldClips'
    BY <1>1, <1>2 DEF IInv, HeldClips
  <1> QED
    BY <1>1, <1>3 DEF Still

LEMMA WasCut ==
    ASSUME IInv, NEW selected, CutSelection(selected)
    PROVE  Handled
  <1> DEFINE few == {c \in clips : c.id \in selected}
             cs  == Without(clips, selected)
  <1>1. Open /\ clipboard' = few /\ Edit("cut", <<WithClips(cs)>>) /\ UNCHANGED gesture
    BY DEF CutSelection
  <1>2. IsFiniteSet(few) /\ \A c \in few : IsClip(c) /\ c.id \in Made(minted)
    BY <1>1, HereIsLine, MadeBefore, FS_Subset DEF Fits, Shaped
  <1> HIDE DEF few
  <1>3. HeldClips'
    <2>1. Made(minted) \subseteq Made(minted') /\ HeldClips
      BY <1>1, MadeLater DEF IInv, Edit
    <2> QED
      BY <1>1, <1>2, <2>1 DEF HeldClips
  <1>4. Kin(cs, clips)
    BY <1>1, WithoutKin
  <1> HIDE DEF cs
  <1>5. (\A c \in clips : Fits(c)) /\ (OnTracks(doc) => \A c \in clips : Lies(c))
    BY <1>1, HereIsLine
  <1> QED
    BY <1>1, <1>3, <1>4, <1>5, ClipsEdited

LEMMA WasPasted ==
    ASSUME IInv, NEW time, time \in Int, PasteSelection(time)
    PROVE  Handled
  <1> DEFINE earliest == Min({c.start : c \in clipboard})
             f == [c \in Pasted |-> [Copy(c, Now) EXCEPT !.start = time + (c.start - earliest), !.linked = {}]]
             new == {f[c] : c \in Pasted}
  <1>1. EditClips("paste", clips \cup new) /\ Open
    BY DEF PasteSelection, EditClips
  <1>2. did' = "paste"
    BY <1>1 DEF EditClips, Edit
  <1>3. IsFiniteSet(Pasted) /\ \A c \in Pasted : Fits(c)
    <2>1. IsFiniteSet(clipboard) /\ \A c \in clipboard : Shaped(c)
      BY MadeLater DEF IInv, HeldClips, Shaped
    <2>2. Pasted \subseteq clipboard /\ \A c \in Pasted : c.asset = None \/ c.asset \in DOMAIN assets
      BY DEF Pasted
    <2> QED
      BY <2>1, <2>2, FS_Subset DEF Fits
  <1>0. earliest \in Int
    <2>1. IsFiniteSet(clipboard) /\ clipboard # {} /\ \A c \in clipboard : IsClip(c)
      BY DEF IInv, HeldClips, PasteSelection, Pasted
    <2> QED
      BY <2>1, EarliestInt
  <1> HIDE DEF earliest
  <1>4. \A c \in Pasted : Shaped(f[c]) /\ f[c].asset = c.asset
    <2> TAKE c \in Pasted
    <2> DEFINE d == Copy(c, Now)
               s == time + (c.start - earliest)
               e == f[c]
    <2>1. Shaped(d) /\ d.asset = c.asset
      BY <1>3, CopyIs DEF Fits, Same, IInv
    <2>2. s \in Int
      BY <1>0, <1>3 DEF Fits, Shaped, IsClip
    <2>3. e = [d EXCEPT !.start = s, !.linked = {}]
      OBVIOUS
    <2> HIDE DEF d, e, s
    <2>4. Shaped(e) /\ e.asset = d.asset
      BY <2>1, <2>2, <2>3 DEF Shaped, IsClip, ClipFields
    <2> QED
      BY <2>1, <2>4 DEF e
  <1> HIDE DEF f
  <1>5. IsFiniteSet(new) /\ \A c \in new : Fits(c)
    BY <1>3, <1>4, ImageFinite DEF Fits
  <1> HIDE DEF new
  <1>6. Kin(clips \cup new, clips \cup new)
    BY <1>1, <1>5, SelfKin, AddedKin
  <1>7. \A c \in clips \cup new : Fits(c)
    BY <1>1, <1>5, HereIsLine
  <1> QED
    BY <1>1, <1>2, <1>6, <1>7, ClipsEdit DEF Exempt

-----------------------------------------------------------------------------
(* The mouse *)

\* A preview is of the clips that are held, at times that are numbers.
PreviewOf(to, holds) ==
    /\ IsFiniteSet(DOMAIN to) /\ DOMAIN to = Ids(holds)
    /\ \A id \in DOMAIN to : to[id].start \in Int

LEMMA PreviewIs ==
    ASSUME NEW holds, IsFiniteSet(holds), \A c \in holds : IsClip(c), NEW by, by \in Int, NEW rows
    PROVE  PreviewOf(Preview(holds, by, rows), holds)
  <1> DEFINE f == [c \in holds |-> c.id]
             first == Min({c.start : c \in holds})
             shift == Largest(by, -first)
             to == Preview(holds, by, rows)
  <1>1. Ids(holds) = {f[c] : c \in holds}
    BY DEF Ids
  <1>2. /\ DOMAIN to = Ids(holds)
        /\ \A id \in Ids(holds) : to[id].start = ClipOf(holds, id).start + shift
    BY DEF Preview
  <1> HIDE DEF f, to
  <1>3. IsFiniteSet(Ids(holds))
    BY <1>1, ImageFinite
  <1>4. ASSUME NEW id \in Ids(holds) PROVE to[id].start \in Int
    <2>1. holds # {} /\ ClipOf(holds, id) \in holds
      BY DEF Ids, ClipOf
    <2>2. first \in Int
      BY <2>1, EarliestInt
    <2> HIDE DEF first
    <2>3. shift \in Int
      BY <2>2 DEF Largest
    <2> HIDE DEF shift
    <2> QED
      BY <1>2, <2>1, <2>3 DEF IsClip
  <1> QED
    BY <1>2, <1>3, <1>4 DEF PreviewOf, to

LEMMA Grabbed ==
    ASSUME IInv, Open, NEW c, NEW held, NEW by, by \in Int, NEW rows, Grab(c, held, by, rows)
    PROVE  Still
  <1> DEFINE holds == {d \in clips : d.id \in held}
             to == Preview(holds, by, rows)
  <1>1. /\ gesture' = [tool |-> "drag", to |-> to]
        /\ UNCHANGED <<doc, undoStack, redoStack, minted, did, clipboard>>
    BY DEF Grab, history, counts
  <1>2. IsFiniteSet(holds) /\ \A d \in holds : IsClip(d) /\ d.id \in Made(minted)
    BY HereIsLine, MadeBefore, FS_Subset DEF Fits, Shaped
  <1> HIDE DEF holds
  <1>3. PreviewOf(to, holds)
    BY <1>2, PreviewIs
  <1> HIDE DEF to
  <1>4. HeldClips'
    <2>1. \A id \in DOMAIN to : id \in Made(minted)
      BY <1>2, <1>3 DEF PreviewOf, Ids
    <2> QED
      BY <1>1, <1>3, <2>1 DEF IInv, HeldClips, PreviewOf, Trims
  <1> QED
    BY <1>1, <1>4 DEF Still

LEMMA CopiesGrabbed ==
    ASSUME IInv, Open, NEW c, NEW held, NEW by, by \in Int, NEW rows,
           GrabCopies(c, held, by, rows)
    PROVE  Handled
  <1> DEFINE few == {d \in clips : d.id \in held}
             f == [d \in few |-> Copy(d, Now)]
             copies == {f[d] : d \in few}
             to == Preview(copies, by, rows)
  <1>1. /\ Edit("copies", <<WithClips(clips \cup copies)>>) /\ UNCHANGED clipboard
        /\ gesture' = [tool |-> "drag", to |-> to]
    BY DEF GrabCopies
  <1>2. IsFiniteSet(few) /\ \A d \in few : Same(f[d], d)
    BY HereIsLine, FS_Subset, CopyIs DEF Fits, IInv
  <1> HIDE DEF f
  <1>3. IsFiniteSet(copies) /\ Kin(copies, clips)
    <2>1. IsFiniteSet(copies)
      BY <1>2, ImageFinite
    <2> QED
      BY <1>2, <2>1 DEF Kin
  <1> HIDE DEF copies
  <1>8. \A d \in copies : IsClip(d) /\ d.id \in Made(Now)
    BY <1>3 DEF Kin, Same, Shaped
  <1>4. PreviewOf(to, copies)
    BY <1>3, <1>8, PreviewIs
  <1> HIDE DEF to
  <1>5. HeldClips'
    <2>1. \A id \in DOMAIN to : id \in Made(minted')
      BY <1>1, <1>4, <1>8 DEF PreviewOf, Ids, Edit
    <2>2. HeldClips /\ Made(minted) \subseteq Made(minted')
      BY <1>1, MadeLater DEF IInv, Edit
    <2> QED
      BY <1>1, <1>4, <2>1, <2>2 DEF HeldClips, PreviewOf, Trims
  <1>6. Kin(clips \cup copies, clips)
    <2>1. Kin(clips \cup copies, clips \cup clips)
      BY <1>3, SelfKin, UnionKin
    <2> QED
      BY <2>1 DEF Kin
  <1>7. (\A d \in clips : Fits(d)) /\ (OnTracks(doc) => \A d \in clips : Lies(d))
    BY HereIsLine
  <1> QED
    BY <1>1, <1>5, <1>6, <1>7, ClipsEdited

LEMMA WasDropped ==
    ASSUME IInv, Drop
    PROVE  Handled
  <1>1. PICK order \in SetToSeqs(DOMAIN gesture.to) :
          CommitMove("drag", ResolveOverlaps(Mapped(Placed), order, Now))
    BY DEF Drop
  <1> DEFINE f == [c \in clips |-> Placed(c)]
             mid == {f[c] : c \in clips}
             cs == ResolveOverlaps(mid, order, Now)
  <1>2. /\ gesture # None /\ gesture.tool = "drag" /\ Open /\ gesture' = None
        /\ Edit("drag", <<WithClips(cs)>>) /\ UNCHANGED clipboard
    BY <1>1 DEF Drop, CommitMove, Mapped
  <1>3. HeldClips' /\ did' = "drag"
    <2>1. HeldClips /\ Made(minted) \subseteq Made(minted') /\ did' = "drag"
      BY <1>2, MadeLater DEF IInv, Edit
    <2> QED
      BY <1>2, <2>1 DEF HeldClips
  <1>4. Indices(DOMAIN order)
    <2>1. IsFiniteSet(DOMAIN gesture.to)
      BY <1>2 DEF IInv, HeldClips
    <2> QED
      BY <2>1, OrderIndices
  <1>5. \A c \in clips : /\ Fits(f[c])
                         /\ f[c].track = c.track
                            \/ (c.id \in DOMAIN gesture.to /\ f[c].track = gesture.to[c.id].track)
    <2>1. \A id \in DOMAIN gesture.to : gesture.to[id].start \in Int
      BY <1>2 DEF IInv, HeldClips
    <2> QED
      BY <1>2, <2>1, HereIsLine DEF Placed, Fits, Shaped, IsClip, ClipFields
  <1> HIDE DEF f
  <1>6. IsFiniteSet(mid) /\ \A c \in mid : Fits(c)
    BY <1>2, <1>5, HereIsLine, ImageFinite
  <1>7. Kin(mid, mid)
    BY <1>6 DEF Kin, Same, Fits
  <1>8. Exempt \/ (OnTracks(doc) => \A c \in mid : Lies(c))
    <2>1. SUFFICES ASSUME \A id \in DOMAIN gesture.to : gesture.to[id].track \in DOMAIN tracks,
                          OnTracks(doc)
                   PROVE  \A c \in mid : Lies(c)
      BY <1>3 DEF Exempt
    <2>2. \A c \in clips : Lies(c)
      BY <1>2, <2>1, HereIsLine
    <2> QED
      BY <1>5, <2>1, <2>2 DEF Lies
  <1> HIDE DEF mid
  <1>9. Kin(cs, mid)
    BY <1>4, <1>7, OverlapsKin DEF IInv
  <1> HIDE DEF cs
  <1> QED
    BY <1>2, <1>3, <1>6, <1>8, <1>9, ClipsEdited

\* A gesture begins or ends and sets nothing.
LEMMA GestureOnly ==
    ASSUME IInv, UNCHANGED <<doc, active, history, clipboard, counts>>,
           gesture' # None => /\ gesture'.tool # "drag"
                              /\ gesture'.tool \in Trims =>
                                   /\ IsClip(gesture'.base)
                                   /\ gesture'.other # None => IsClip(gesture'.other)
                              /\ gesture'.tool \in {"slip", "slide"} =>
                                   /\ IsClip(gesture'.base)
                                   /\ gesture'.previous # None => IsClip(gesture'.previous)
                                   /\ gesture'.next # None => IsClip(gesture'.next)
    PROVE  Still
  <1>1. UNCHANGED <<doc, undoStack, redoStack, minted, did, clipboard>>
    BY DEF history, counts
  <1>2. HeldClips'
    BY <1>1 DEF IInv, HeldClips
  <1> QED
    BY <1>1, <1>2 DEF Still

LEMMA TrimStarted ==
    ASSUME IInv, Open, NEW c \in clips, NEW edge, NEW tool \in Trims, StartTrim(c, edge, tool)
    PROVE  Still
  <1>1. PICK other \in clips \cup {None} :
          gesture' = [tool |-> tool, edge |-> edge, base |-> c, other |-> other]
    BY DEF StartTrim, Adjacent, OnTrack
  <1>2. \A d \in clips : IsClip(d)
    BY HereIsLine DEF Fits, Shaped
  <1>3. /\ gesture'.tool = tool /\ tool \notin {"drag", "slip", "slide"}
        /\ gesture'.base = c /\ gesture'.other = other
    BY <1>1 DEF Trims
  <1>4. UNCHANGED <<doc, active, history, clipboard, counts>>
    BY DEF StartTrim
  <1> QED
    BY <1>1, <1>2, <1>3, <1>4, GestureOnly

LEMMA NeighboursIn ==
    ASSUME NEW c, NEW before
    PROVE  Neighbours(c, before) \subseteq clips \cup {None}
  <1> DEFINE near == {d \in OnTrack(clips, c.track) :
                        d.id # c.id /\ IF before THEN End(d) <= c.start ELSE d.start >= End(c)}
             Closer(d, e) == IF before THEN d.start >= e.start ELSE d.start <= e.start
  <1>1. Neighbours(c, before) =
          IF near = {} THEN {None} ELSE {d \in near : \A e \in near : Closer(d, e)}
    BY DEF Neighbours
  <1>2. near \subseteq clips
    BY DEF OnTrack
  <1> HIDE DEF near, Closer
  <1> QED
    BY <1>1, <1>2

LEMMA SlipStarted ==
    ASSUME IInv, Open, NEW c \in clips, NEW tool \in {"slip", "slide"}, StartSlip(c, tool)
    PROVE  Still
  <1>1. PICK p \in clips \cup {None}, n \in clips \cup {None} :
          gesture' = [tool |-> tool, base |-> c, previous |-> p, next |-> n]
    BY NeighboursIn DEF StartSlip
  <1>2. \A d \in clips : IsClip(d)
    BY HereIsLine DEF Fits, Shaped
  <1>3. /\ gesture'.tool = tool /\ tool # "drag" /\ tool \notin Trims
        /\ gesture'.base = c /\ gesture'.previous = p /\ gesture'.next = n
    BY <1>1 DEF Trims
  <1>4. UNCHANGED <<doc, active, history, clipboard, counts>>
    BY DEF StartSlip
  <1> QED
    BY <1>1, <1>2, <1>3, <1>4, GestureOnly

LEMMA SlipEnded ==
    ASSUME IInv, EndSlip
    PROVE  Still
  BY GestureOnly DEF EndSlip

LEMMA TrimEnded ==
    ASSUME IInv, EndTrim
    PROVE  Handled
  <1> DEFINE moved == <<gesture.base.id>>
             cs == ResolveOverlaps(clips, moved, Now)
  <1>1. Open /\ Edit("trimmed", <<WithClips(cs)>>) /\ UNCHANGED clipboard /\ gesture' = None
    BY DEF EndTrim, CommitMove
  <1>2. HeldClips'
    <2>1. HeldClips /\ Made(minted) \subseteq Made(minted')
      BY <1>1, MadeLater DEF IInv, Edit
    <2> QED
      BY <1>1, <2>1 DEF HeldClips
  <1>3. Indices(DOMAIN moved)
    BY ShortIndices
  <1> HIDE DEF moved
  <1>4. Kin(cs, clips)
    BY <1>1, <1>3, SelfKin, OverlapsKin DEF IInv
  <1> HIDE DEF cs
  <1>5. (\A d \in clips : Fits(d)) /\ (OnTracks(doc) => \A d \in clips : Lies(d))
    BY <1>1, HereIsLine
  <1> QED
    BY <1>1, <1>2, <1>4, <1>5, ClipsEdited

\* A move of the mouse that trims, slips or slides: clips in place of clips.
LEMMA MovedAlike ==
    ASSUME IInv, Open, NEW tool, NEW cs, CommitMove(tool, cs), UNCHANGED gesture, Kin(cs, clips)
    PROVE  Handled
  <1>1. Edit(tool, <<WithClips(cs)>>) /\ HeldClips'
    BY SessionKept DEF CommitMove, Edit
  <1>2. (\A d \in clips : Fits(d)) /\ (OnTracks(doc) => \A d \in clips : Lies(d))
    BY HereIsLine
  <1> QED
    BY <1>1, <1>2, ClipsEdited

\* A clip at another time, for another length, or with other seconds of its media.
LEMMA Retimed ==
    ASSUME NEW d, Shaped(d), NEW s, s \in Int, NEW n, n \in Int, NEW m, m \in Int,
           NEW e, e \in Int
    PROVE  /\ Same([d EXCEPT !.start = s], d) /\ Same([d EXCEPT !.dur = n], d)
           /\ Same([d EXCEPT !.start = s, !.dur = n, !.trimStart = m], d)
           /\ Same([d EXCEPT !.trimStart = m, !.trimEnd = e], d)
  BY DEF Shaped, Same, IsClip, ClipFields

LEMMA Extremes ==
    \A m, n \in Int : Least(m, n) \in Int /\ Largest(m, n) \in Int
  BY DEF Least, Largest

LEMMA ClipNumbers ==
    ASSUME NEW c, IsClip(c)
    PROVE  /\ c.start \in Int /\ c.dur \in Int /\ c.trimStart \in Int /\ c.trimEnd \in Int
           /\ c.speed \in Int /\ End(c) \in Int /\ \A k \in Int : k * c.speed \in Int
  BY DEF IsClip, End

LEMMA TrimLeftKin ==
    ASSUME IInv, Open, NEW c \in clips, NEW b, IsClip(b), NEW by, by \in Int
    PROVE  Kin(TrimLeft(c, b, by), clips)
  <1> DEFINE s == LeftEdge(b, by)
             grown == TrimmedLeft(c, b, s)
             Rest(d) == IF gesture.tool = "ripple" /\ d.track = c.track /\ d.start < b.start
                        THEN [d EXCEPT !.start = Largest(0, @ + (s - b.start))] ELSE d
             f == [d \in clips |-> IF d.id = c.id THEN grown
                                   ELSE IF d.id \in c.linked THEN LinkedLeft(d, grown, s - b.start)
                                   ELSE Rest(d)]
  <1>1. TrimLeft(c, b, by) = {f[d] : d \in clips}
    BY DEF TrimLeft, Trimmed, Mapped
  <1>0. /\ b.start \in Int /\ b.trimStart \in Int /\ End(b) \in Int
        /\ \A d \in clips : Shaped(d) /\ Same(d, d) /\ IsClip(d) /\ d.start \in Int /\ d.trimStart \in Int
    BY ClipNumbers, HereIsLine DEF Fits, Shaped
  <1>s. s \in Int
    BY <1>0 DEF LeftEdge, Least, Largest
  <1> HIDE DEF s
  <1>2. Same(grown, c)
    <2> DEFINE trim == Largest(0, b.trimStart + (s - b.start))
               x == [c EXCEPT !.trimStart = trim]
               dur == Least(End(b) - s, MaxDur(assets, x))
    <2>1. trim \in Int
      BY <1>0, <1>s DEF Largest
    <2>2. grown = [c EXCEPT !.start = s, !.dur = Largest(1, dur), !.trimStart = trim]
      BY DEF TrimmedLeft
    <2> HIDE DEF trim, grown
    <2>3. IsClip(x)
      BY <1>0, <2>1 DEF IsClip, ClipFields
    <2> HIDE DEF x
    <2>4. MaxDur(assets, x) \in Int
      BY <2>3, MaxDurInt
    <2>5. Largest(1, dur) \in Int
      BY <1>0, <1>s, <2>4 DEF Least, Largest
    <2> HIDE DEF dur
    <2> QED
      BY <1>0, <1>s, <2>1, <2>2, <2>5, Retimed
  <1> HIDE DEF grown
  <1>3. ASSUME NEW d \in clips
        PROVE  Same(LinkedLeft(d, grown, s - b.start), d) /\ Same(Rest(d), d)
    <2>1. grown.start \in Int /\ grown.dur \in Int
      BY <1>2 DEF Same, Shaped, IsClip
    <2> DEFINE m == Largest(0, d.trimStart + (s - b.start))
               n == Largest(0, d.start + (s - b.start))
               one == [d EXCEPT !.start = grown.start, !.dur = grown.dur, !.trimStart = m]
               two == [d EXCEPT !.start = n]
    <2>2. m \in Int /\ n \in Int
      BY <1>0, <1>s DEF Largest
    <2>3. LinkedLeft(d, grown, s - b.start) = one /\ Rest(d) \in {two, d}
      BY DEF LinkedLeft
    <2> HIDE DEF m, n, Rest
    <2>4. Same(one, d) /\ Same(two, d)
      BY <1>0, <2>1, <2>2, Retimed
    <2> HIDE DEF one, two
    <2> QED
      BY <1>0, <2>3, <2>4
  <1> HIDE DEF Rest
  <1>4. \A d \in clips : \E e \in clips : Same(f[d], e)
    BY <1>2, <1>3
  <1> HIDE DEF f
  <1> QED
    BY <1>1, <1>4, MappedKin

LEMMA TrimRightKin ==
    ASSUME IInv, Open, NEW c \in clips, NEW b, IsClip(b), NEW by, by \in Int
    PROVE  Kin(TrimRight(c, b, by), clips)
  <1> DEFINE dur == Largest(1, Least(Largest(1, b.dur + by), MaxDur(assets, c)))
             Along(d) == [d EXCEPT !.dur = dur]
             Rest(d) == IF gesture.tool = "ripple" /\ d.track = c.track /\ d.start >= End(b)
                        THEN [d EXCEPT !.start = Largest(0, @ + (dur - b.dur))] ELSE d
             f == [d \in clips |-> IF d.id = c.id THEN Along(c)
                                   ELSE IF d.id \in c.linked THEN Along(d) ELSE Rest(d)]
  <1>1. TrimRight(c, b, by) = {f[d] : d \in clips}
    BY DEF TrimRight, Trimmed, Mapped
  <1>0. b.dur \in Int /\ \A d \in clips : Shaped(d) /\ Same(d, d) /\ IsClip(d) /\ d.start \in Int
    BY ClipNumbers, HereIsLine DEF Fits, Shaped
  <1>n. dur \in Int
    <2>1. MaxDur(assets, c) \in Int
      BY <1>0, MaxDurInt
    <2> QED
      BY <1>0, <2>1 DEF Least, Largest
  <1> HIDE DEF dur
  <1>2. ASSUME NEW d \in clips PROVE Same(Along(d), d) /\ Same(Rest(d), d)
    <2> DEFINE n == Largest(0, d.start + (dur - b.dur))
               two == [d EXCEPT !.start = n]
    <2>1. n \in Int
      BY <1>0, <1>n DEF Largest
    <2>2. Rest(d) \in {two, d}
      OBVIOUS
    <2> HIDE DEF n, Rest
    <2>3. Same(Along(d), d) /\ Same(two, d)
      BY <1>0, <1>n, <2>1, Retimed
    <2> HIDE DEF two, Along
    <2> QED
      BY <1>0, <2>2, <2>3
  <1> HIDE DEF Along, Rest
  <1>3. \A d \in clips : \E e \in clips : Same(f[d], e)
    BY <1>2
  <1> HIDE DEF f
  <1> QED
    BY <1>1, <1>3, MappedKin

LEMMA RollRightKin ==
    ASSUME IInv, Open, NEW c \in clips, NEW b, IsClip(b), NEW o, IsClip(o), NEW by, by \in Int
    PROVE  Kin(RollRight(c, b, o, by), clips)
  <1> DEFINE most == Least(MaxDur(assets, c) - b.dur, o.dur - 1)
             dt   == Largest(1 - b.dur, Least(most, by))
             Longer(d) == [d EXCEPT !.dur = Largest(1, b.dur + dt)]
             Later(d, trim) == [d EXCEPT !.start = o.start + dt, !.dur = Largest(1, o.dur - dt),
                                         !.trimStart = Largest(0, trim + dt * d.speed)]
             Rest(d) == IF d.id = o.id THEN Later(d, o.trimStart)
                        ELSE IF \E x \in WithId(clips, o.id) : d.id \in x.linked
                        THEN Later(d, d.trimStart) ELSE d
             f == [d \in clips |-> IF d.id = c.id THEN Longer(c)
                                   ELSE IF d.id \in c.linked THEN Longer(d) ELSE Rest(d)]
  <1>1. RollRight(c, b, o, by) = {f[d] : d \in clips}
    BY DEF RollRight, Trimmed, Mapped
  <1>0. /\ b.dur \in Int /\ o.start \in Int /\ o.dur \in Int /\ o.trimStart \in Int
        /\ \A d \in clips : Shaped(d) /\ Same(d, d) /\ IsClip(d)
    BY ClipNumbers, HereIsLine DEF Fits, Shaped
  <1>d. dt \in Int
    <2>1. MaxDur(assets, c) \in Int
      BY <1>0, MaxDurInt
    <2> QED
      BY <1>0, <2>1 DEF Least, Largest
  <1> HIDE DEF dt
  <1>2. ASSUME NEW d \in clips
        PROVE  Same(Longer(d), d) /\ Same(d, d) /\ Same(Later(d, o.trimStart), d) /\ Same(Later(d, d.trimStart), d)
    <2>1. Shaped(d) /\ Same(d, d) /\ dt * d.speed \in Int /\ d.trimStart \in Int
      BY <1>0, <1>d, ClipNumbers
    <2> DEFINE k == dt * d.speed
               n == Largest(1, b.dur + dt)
               m == Largest(1, o.dur - dt)
               s == o.start + dt
               u == Largest(0, o.trimStart + k)
               v == Largest(0, d.trimStart + k)
               one == [d EXCEPT !.dur = n]
               two == [d EXCEPT !.start = s, !.dur = m, !.trimStart = u]
               three == [d EXCEPT !.start = s, !.dur = m, !.trimStart = v]
    <2> HIDE DEF k
    <2>2. n \in Int /\ m \in Int /\ s \in Int /\ u \in Int /\ v \in Int
      BY <1>0, <1>d, <2>1 DEF Largest, k
    <2>3. Longer(d) = one /\ Later(d, o.trimStart) = two /\ Later(d, d.trimStart) = three
      BY DEF k
    <2> HIDE DEF n, m, s, u, v, Longer, Later
    <2>4. Same(one, d)
      BY <2>1, <2>2, Retimed
    <2>5. Same(two, d)
      BY <2>1, <2>2, Retimed
    <2>6. Same(three, d)
      BY <2>1, <2>2, Retimed
    <2> HIDE DEF one, two, three
    <2> QED
      BY <2>1, <2>3, <2>4, <2>5, <2>6
  <1> HIDE DEF Longer, Later
  <1>3. \A d \in clips : \E e \in clips : Same(f[d], e)
    BY <1>2
  <1> HIDE DEF f
  <1> QED
    BY <1>1, <1>3, MappedKin

LEMMA RollLeftKin ==
    ASSUME IInv, Open, NEW c \in clips, NEW b, IsClip(b), NEW o, IsClip(o), NEW by, by \in Int
    PROVE  Kin(RollLeft(c, b, o, by), clips)
  <1> DEFINE most == Least(MaxDur(assets, c) - b.dur, o.dur - 1)
             dt   == Largest(-most, Least(b.dur - 1, by))
             Later(d, trim) == [d EXCEPT !.start = b.start + dt, !.dur = Largest(1, b.dur - dt),
                                         !.trimStart = Largest(0, trim)]
             Rest(d) == IF d.id = o.id \/ \E x \in WithId(clips, o.id) : d.id \in x.linked
                        THEN [d EXCEPT !.dur = Largest(1, o.dur + dt)] ELSE d
             f == [d \in clips |-> IF d.id = c.id THEN Later(c, b.trimStart + dt * c.speed)
                                   ELSE IF d.id \in c.linked THEN Later(d, d.trimStart + dt * d.speed)
                                   ELSE Rest(d)]
  <1>1. RollLeft(c, b, o, by) = {f[d] : d \in clips}
    BY DEF RollLeft, Trimmed, Mapped
  <1>0. /\ b.dur \in Int /\ b.start \in Int /\ b.trimStart \in Int /\ o.dur \in Int
        /\ \A d \in clips : Shaped(d) /\ Same(d, d) /\ IsClip(d)
    BY ClipNumbers, HereIsLine DEF Fits, Shaped
  <1>d. dt \in Int
    <2>1. MaxDur(assets, c) \in Int
      BY <1>0, MaxDurInt
    <2> QED
      BY <1>0, <2>1 DEF Least, Largest
  <1> HIDE DEF dt
  <1>2. ASSUME NEW d \in clips
        PROVE  /\ Same(Rest(d), d) /\ Same(Later(d, b.trimStart + dt * d.speed), d)
               /\ Same(Later(d, d.trimStart + dt * d.speed), d)
    <2>1. Shaped(d) /\ Same(d, d) /\ dt * d.speed \in Int /\ d.trimStart \in Int
      BY <1>0, <1>d, ClipNumbers
    <2> DEFINE k == dt * d.speed
               n == Largest(1, o.dur + dt)
               m == Largest(1, b.dur - dt)
               s == b.start + dt
               u == Largest(0, b.trimStart + k)
               v == Largest(0, d.trimStart + k)
               two == [d EXCEPT !.dur = n]
               one == [d EXCEPT !.start = s, !.dur = m, !.trimStart = u]
               three == [d EXCEPT !.start = s, !.dur = m, !.trimStart = v]
    <2> HIDE DEF k
    <2>2. n \in Int /\ m \in Int /\ s \in Int /\ u \in Int /\ v \in Int
      BY <1>0, <1>d, <2>1 DEF Largest, k
    <2>3. /\ Rest(d) \in {two, d}
          /\ Later(d, b.trimStart + dt * d.speed) = one
          /\ Later(d, d.trimStart + dt * d.speed) = three
      BY DEF k
    <2> HIDE DEF n, m, s, u, v, Rest, Later
    <2>4. Same(two, d)
      BY <2>1, <2>2, Retimed
    <2>5. Same(one, d)
      BY <2>1, <2>2, Retimed
    <2>6. Same(three, d)
      BY <2>1, <2>2, Retimed
    <2> HIDE DEF one, two, three
    <2> QED
      BY <2>1, <2>3, <2>4, <2>5, <2>6
  <1> HIDE DEF Rest, Later
  <1>3. \A d \in clips : \E e \in clips : Same(f[d], e)
    BY <1>2
  <1> HIDE DEF f
  <1> QED
    BY <1>1, <1>3, MappedKin

LEMMA TrimMoved ==
    ASSUME IInv, NEW by, by \in Int, MoveTrim(by)
    PROVE  Handled
  <1> DEFINE b == gesture.base
             o == gesture.other
             left == gesture.edge = "left"
  <1>1. PICK c \in WithId(clips, b.id) :
          CommitMove("trim", CASE o # None /\ left  -> RollLeft(c, b, o, by)
                               [] o # None /\ ~left -> RollRight(c, b, o, by)
                               [] o = None /\ left  -> TrimLeft(c, b, by)
                               [] o = None /\ ~left -> TrimRight(c, b, by))
    BY DEF MoveTrim
  <1>2. c \in clips /\ Open /\ UNCHANGED gesture
    BY <1>1 DEF MoveTrim, WithId
  <1>0. IsClip(b) /\ (o # None => IsClip(o))
    BY DEF IInv, HeldClips, MoveTrim
  <1> HIDE DEF left, o, b
  <1>3. /\ o # None => Kin(RollLeft(c, b, o, by), clips) /\ Kin(RollRight(c, b, o, by), clips)
        /\ Kin(TrimLeft(c, b, by), clips) /\ Kin(TrimRight(c, b, by), clips)
    BY <1>0, <1>2, RollLeftKin, RollRightKin, TrimLeftKin, TrimRightKin
  <1>4. CASE o # None /\ left
    <2>1. CommitMove("trim", RollLeft(c, b, o, by))
      BY <1>1, <1>4
    <2> QED
      BY <1>2, <1>3, <1>4, <2>1, MovedAlike
  <1>5. CASE o # None /\ ~left
    <2>1. CommitMove("trim", RollRight(c, b, o, by))
      BY <1>1, <1>5
    <2> QED
      BY <1>2, <1>3, <1>5, <2>1, MovedAlike
  <1>6. CASE o = None /\ left
    <2>1. CommitMove("trim", TrimLeft(c, b, by))
      BY <1>1, <1>6
    <2> QED
      BY <1>2, <1>3, <2>1, MovedAlike
  <1>7. CASE o = None /\ ~left
    <2>1. CommitMove("trim", TrimRight(c, b, by))
      BY <1>1, <1>7
    <2> QED
      BY <1>2, <1>3, <2>1, MovedAlike
  <1> QED
    BY <1>4, <1>5, <1>6, <1>7

LEMMA Slipped ==
    ASSUME IInv, NEW by, by \in Int, MoveSlip(by)
    PROVE  Handled
  <1> DEFINE b     == gesture.base
             most  == b.trimStart + b.trimEnd
             first == Largest(0, Least(most, b.trimStart + by * b.speed))
             f(c)  == [d \in clips |-> IF d.id = c.id THEN [d EXCEPT !.trimStart = first, !.trimEnd = most - first]
                                       ELSE d]
  <1>1. PICK c \in WithId(clips, b.id) : CommitMove("slip",
          {IF d.id = c.id THEN [d EXCEPT !.trimStart = first, !.trimEnd = most - first] ELSE d : d \in clips})
    BY DEF MoveSlip, Mapped
  <1>2. Open /\ UNCHANGED gesture
    BY DEF MoveSlip
  <1> DEFINE g == f(c)
  <1>3. \A d \in clips : Same(g[d], d)
    <2>1. IsClip(b)
      BY DEF IInv, HeldClips, MoveSlip
    <2> HIDE DEF b
    <2>2. by * b.speed \in Int /\ most \in Int /\ b.trimStart \in Int
      BY <2>1, ClipNumbers
    <2> HIDE DEF most
    <2>3. first \in Int
      <3> DEFINE k == by * b.speed
      <3> HIDE DEF k
      <3>1. k \in Int
        BY <2>2 DEF k
      <3>2. Largest(0, Least(most, b.trimStart + k)) \in Int
        BY <2>2, <3>1 DEF Least, Largest
      <3> QED
        BY <3>2 DEF k
    <2> HIDE DEF first
    <2> TAKE d \in clips
    <2> DEFINE one == [d EXCEPT !.trimStart = first, !.trimEnd = most - first]
    <2>4. Shaped(d) /\ Same(d, d) /\ most - first \in Int
      BY <1>2, <2>2, <2>3, HereIsLine DEF Fits
    <2>5. g[d] \in {one, d}
      OBVIOUS
    <2>6. Same(one, d)
      BY <2>3, <2>4, Retimed
    <2> HIDE DEF one, g
    <2> QED
      BY <2>4, <2>5, <2>6
  <1>4. CommitMove("slip", {g[d] : d \in clips})
    BY <1>1
  <1> HIDE DEF f, g
  <1>5. Kin({g[d] : d \in clips}, clips)
    BY <1>2, <1>3, MappedKin
  <1> QED
    BY <1>2, <1>4, <1>5, MovedAlike

LEMMA Slid ==
    ASSUME IInv, NEW by, by \in Int, MoveSlide(by)
    PROVE  Handled
  <1> DEFINE b == gesture.base
             p == gesture.previous
             n == gesture.next
             least == IF p = None \/ WithId(clips, p.id) = {} THEN 0 ELSE ClipOf(clips, p.id).start
             most(c) == IF n = None THEN Forever ELSE End(n) - c.dur
             dt(c)   == Largest(least, Least(most(c), b.start + by)) - b.start
             SlidTo(d, c, t) ==
               CASE d.id = c.id -> [d EXCEPT !.start = b.start + t]
                 [] p # None /\ d.id = p.id -> [d EXCEPT !.dur = Largest(1, p.dur + t)]
                 [] n # None /\ d.id = n.id ->
                      [d EXCEPT !.start = n.start + t, !.dur = Largest(1, n.dur - t),
                                !.trimStart = Largest(0, n.trimStart + t * d.speed)]
                 [] OTHER -> d
             f(c) == [d \in clips |-> SlidTo(d, c, dt(c))]
  <1>1. PICK c \in WithId(clips, b.id) : CommitMove("slide", {SlidTo(d, c, dt(c)) : d \in clips})
    BY DEF MoveSlide, Mapped
  <1>2. Open /\ UNCHANGED gesture
    BY DEF MoveSlide
  <1> DEFINE g == f(c)
             t == dt(c)
  <1>5. CommitMove("slide", {g[d] : d \in clips})
    <2> HIDE DEF dt, SlidTo
    <2> QED
      BY <1>1
  <1>0. c \in clips /\ \A d \in clips : Shaped(d) /\ Same(d, d) /\ IsClip(d)
    BY <1>2, HereIsLine DEF WithId, Fits, Shaped
  <1>8. IsClip(b) /\ (p # None => IsClip(p)) /\ (n # None => IsClip(n))
    BY DEF IInv, HeldClips, MoveSlide
  <1>9. t \in Int
    <2>1. least \in Int
      <3>1. WithId(clips, p.id) # {} => ClipOf(clips, p.id) \in clips
        BY DEF WithId, ClipOf
      <3> HIDE DEF p
      <3> QED
        BY <1>0, <3>1, ClipNumbers
    <2>2. most(c) \in Int
      BY <1>0, <1>8, ClipNumbers DEF Forever
    <2>3. b.start \in Int
      BY <1>8, ClipNumbers
    <2> HIDE DEF least, most, b
    <2> QED
      BY <2>1, <2>2, <2>3 DEF Least, Largest
  <1> HIDE DEF dt, t
  <1>3. \A d \in clips : g[d] = SlidTo(d, c, t)
    BY DEF t
  <1> HIDE DEF b, p, n
  <1>4. \A d \in clips : Same(SlidTo(d, c, t), d)
    <2> TAKE d \in clips
    <2>1. Shaped(d) /\ Same(d, d) /\ t * d.speed \in Int
      BY <1>0, <1>9, ClipNumbers
    <2> DEFINE one   == [d EXCEPT !.start = b.start + t]
               two   == [d EXCEPT !.dur = Largest(1, p.dur + t)]
               three == [d EXCEPT !.start = n.start + t, !.dur = Largest(1, n.dur - t),
                                  !.trimStart = Largest(0, n.trimStart + t * d.speed)]
    <2>2. SlidTo(d, c, t) = CASE d.id = c.id -> one
                              [] p # None /\ d.id = p.id -> two
                              [] n # None /\ d.id = n.id -> three
                              [] OTHER -> d
      OBVIOUS
    <2>3. Same(one, d)
      <3>1. b.start + t \in Int
        BY <1>8, <1>9, ClipNumbers
      <3> QED
        BY <2>1, <3>1, Retimed
    <2>4. p # None => Same(two, d)
      <3> SUFFICES ASSUME p # None PROVE Same(two, d)
        OBVIOUS
      <3>1. Largest(1, p.dur + t) \in Int
        BY <1>8, <1>9, ClipNumbers DEF Largest
      <3> QED
        BY <2>1, <3>1, Retimed
    <2>5. n # None => Same(three, d)
      <3> SUFFICES ASSUME n # None PROVE Same(three, d)
        OBVIOUS
      <3> DEFINE k == t * d.speed
                 x == n.start + t
                 y == Largest(1, n.dur - t)
                 z == Largest(0, n.trimStart + k)
      <3> HIDE DEF k
      <3>1. n.start \in Int /\ n.dur \in Int /\ n.trimStart \in Int /\ k \in Int
        BY <1>8, <2>1, ClipNumbers DEF k
      <3>2. x \in Int /\ y \in Int /\ z \in Int
        BY <1>9, <3>1 DEF Largest
      <3>3. three = [d EXCEPT !.start = x, !.dur = y, !.trimStart = z]
        BY DEF k
      <3> HIDE DEF x, y, z, three
      <3> QED
        BY <2>1, <3>2, <3>3, Retimed
    <2> HIDE DEF one, two, three, SlidTo
    <2> QED
      BY <2>1, <2>2, <2>3, <2>4, <2>5
  <1> HIDE DEF f, g, SlidTo
  <1>6. Kin({g[d] : d \in clips}, clips)
    BY <1>2, <1>3, <1>4, MappedKin
  <1> QED
    BY <1>2, <1>5, <1>6, MovedAlike

-----------------------------------------------------------------------------
(* The whole editor: a step is one of a handler, of undo or redo, or sets no *)
(* document.                                                                 *)

LEMMA Switched ==
    ASSUME IInv, NEW i, SwitchActiveTimeline(i)
    PROVE  Still
  <1>1. UNCHANGED <<doc, undoStack, redoStack, minted, did, clipboard, gesture>>
    BY DEF SwitchActiveTimeline, history, counts
  <1> QED
    BY <1>1, SessionKept DEF Still

LEMMA Numbers ==
    /\ \A time \in Times : time \in Int
    /\ \A by \in Moves \cup {0} : by \in Int
    /\ TextDur \in Int
  BY TimesAssumption, MouseAssumption

LEMMA PlaceAssetHandled ==
    ASSUME IInv, PlaceAsset
    PROVE  Handled
  <1>0. /\ \A time \in Times : time \in Int
        /\ TextDur \in Int /\ \A in \in {0, 1} : in \in Int
        /\ \A a \in DOMAIN assets : assets[a].dur \in Int
    BY Numbers, AssetDur
  <1>1. CASE \E a \in DOMAIN assets, time \in Times, track \in DOMAIN tracks : DropAsset(a, track, time)
    BY <1>0, <1>1, Dropped
  <1>2. CASE \E a \in DOMAIN assets, time \in Times, in \in {0, 1} :
               InsertSource(a, in, assets[a].dur, time)
    BY <1>0, <1>2, Inserted
  <1>3. CASE \E a \in DOMAIN assets, time \in Times, in \in {0, 1} :
               OverwriteSource(a, in, assets[a].dur, time)
    BY <1>0, <1>3, Overwritten
  <1>4. CASE \E time \in Times : AddText(time, TextDur)
    BY <1>0, <1>4, Written
  <1>5. CASE \E i \in DOMAIN doc.lines, track \in DOMAIN tracks, time \in Times :
               FlattenTimeline(i, track, time)
    BY <1>0, <1>5, Flattened
  <1> QED
    BY <1>1, <1>2, <1>3, <1>4, <1>5 DEF PlaceAsset

LEMMA EditSomeHandled ==
    ASSUME IInv, EditSome
    PROVE  Handled
  <1>1. PICK c \in clips : \/ DuplicateClip(c) \/ UnlinkClipGroup(c) \/ RemoveClip(c)
                           \/ \E speed \in {1, 2} : SetSpeed(c, speed)
                           \/ \E delta \in {-1, 1} : StepTake(c, delta)
                           \/ \E selected \in Selections : ReverseClips(selected)
    BY DEF EditSome
  <1> QED
    BY <1>1, Duplicated, Unlinked, Removed, Sped, Stepped, ClipsReversed

LEMMA SplitHandled ==
    ASSUME IInv, Split
    PROVE  Handled
  <1>1. PICK time \in Times :
          LET met == {c \in clips : Splits(c, time) /\ ~Locked(c)}
          IN  \E batch \in {{c} : c \in met} \cup {met} : SplitClips(batch, time)
    BY DEF Split
  <1>2. PICK batch \in SUBSET clips : SplitClips(batch, time)
    BY <1>1
  <1>3. time \in Int
    BY Numbers
  <1> QED
    BY <1>2, <1>3, Cleft

LEMMA EditTracksHandled ==
    ASSUME IInv, Open, EditTracks
    PROVE  Handled
  <1>1. CASE \E kind \in {"video", "audio"} : AddTrack(kind)
    BY <1>1, TrackAdded
  <1>2. CASE \E i \in DOMAIN tracks : \/ ToggleTrackLock(i) \/ DeleteTrack(i)
                                      \/ \E time \in Times : AddSubtitle(i, time, TextDur)
    BY <1>2, LockToggled, TrackDeleted, CueAdded
  <1>3. CASE AddSubtitleTrack
    BY <1>3, SubtitleTrackAdded
  <1>4. CASE ImportSrtCues({<<0, 1>>})
    BY <1>4, CuesImported
  <1>5. CASE \E s \in Here.subs : DeleteSubtitle(s)
    BY <1>5, CueDeleted
  <1>6. CASE \E gap \in Gaps : CloseGap(gap)
    BY <1>6, GapClosed
  <1> QED
    BY <1>1, <1>2, <1>3, <1>4, <1>5, <1>6 DEF EditTracks

LEMMA EditAssetsHandled ==
    ASSUME IInv, EditAssets
    PROVE  Handled
  <1>1. CASE \E a \in DOMAIN Library : AddAsset(a)
    BY <1>1, AssetAdded
  <1>2. CASE \E a \in DOMAIN assets :
               \/ DeleteAssets({a}) \/ UngroupTakes(a)
               \/ \E take \in DOMAIN assets[a].takes : \/ DeleteAssetTake(a, take)
                                                       \/ SetAssetActiveTake(a, take)
               \/ \E b \in DOMAIN assets : GroupTakes(a, b)
    BY <1>2, AssetsDeleted, TakesUngrouped, TakeDeleted, ActiveTakeSet, TakesGrouped
  <1> QED
    BY <1>1, <1>2 DEF EditAssets

LEMMA EditTimelinesHandled ==
    ASSUME IInv, EditTimelines
    PROVE  Handled \/ Still
  <1>1. CASE CreateTimeline
    BY <1>1, LineCreated
  <1>2. CASE \E a \in DOMAIN Library : ImportTimeline(a, TextDur)
    BY <1>2, Numbers, LineImported
  <1>3. CASE \E i \in DOMAIN doc.lines : \/ DuplicateTimeline(i) \/ DeleteTimeline(i)
                                         \/ SwitchActiveTimeline(i)
    BY <1>3, LineDuplicated, LineDeleted, Switched
  <1> QED
    BY <1>1, <1>2, <1>3 DEF EditTimelines

LEMMA UseClipboardHandled ==
    ASSUME IInv, UseClipboard
    PROVE  Handled \/ Still
  BY Numbers, Copied, WasCut, WasPasted DEF UseClipboard

LEMMA GestureHandled ==
    ASSUME IInv, Open, Gesture
    PROVE  Handled \/ Still
  <1>1. CASE \E c \in clips, by \in Moves \cup {0} : \E held, rows :
               Grab(c, held, by, rows) \/ GrabCopies(c, held, by, rows)
    BY <1>1, Numbers, Grabbed, CopiesGrabbed
  <1>2. CASE \E c \in clips, tool \in Trims : \E edge : StartTrim(c, edge, tool)
    BY <1>2, TrimStarted
  <1>3. CASE \E c \in clips, tool \in {"slip", "slide"} : StartSlip(c, tool)
    BY <1>3, SlipStarted
  <1>4. CASE Drop \/ EndTrim \/ EndSlip
    BY <1>4, WasDropped, TrimEnded, SlipEnded
  <1>5. CASE \E by \in Moves : MoveTrim(by) \/ MoveSlip(by) \/ MoveSlide(by)
    BY <1>5, Numbers, TrimMoved, Slipped, Slid
  <1> QED
    BY <1>1, <1>2, <1>3, <1>4, <1>5 DEF Gesture

LEMMA NextHandled ==
    ASSUME IInv, Next
    PROVE  Handled \/ Still \/ Undo \/ Redo
  <1>1. CASE Keyboard
    BY <1>1, UseClipboardHandled, Deleted DEF Keyboard
  <1>2. CASE Mouse
    BY <1>2, PlaceAssetHandled, EditSomeHandled, SplitHandled, EditTracksHandled,
       EditAssetsHandled, EditTimelinesHandled DEF Mouse
  <1>3. CASE Open /\ Gesture
    BY <1>3, GestureHandled
  <1> QED
    BY <1>1, <1>2, <1>3 DEF Next

LEMMA InitIInv ==
    ASSUME Init
    PROVE  IInv
  <1>1. /\ doc = Opening /\ undoStack = <<>> /\ redoStack = <<>>
        /\ clipboard = {} /\ gesture = None /\ minted = 0
    BY DEF Init
  <1>2. IsList(<<>>)
    <2>1. <<>> \in Seq({})
      OBVIOUS
    <2> QED
      BY <2>1, ListIn
  <1>3. Versions = {Opening}
    BY <1>1 DEF Versions, ToSet
  <1>4. \A d \in Versions : Version(d, minted)
    BY <1>1, <1>3, OpeningAssumption DEF Version
  <1>5. HeldClips
    BY <1>1, FewFinite DEF HeldClips
  <1> QED
    BY <1>1, <1>2, <1>4, <1>5 DEF IInv, Histories

LEMMA InitLine ==
    ASSUME Init
    PROVE  V!Init
  <1>1. undoStack = <<>> /\ redoStack = <<>>
    BY DEF Init
  <1>2. Reverse(<<>>) = <<>>
    BY DEF Reverse
  <1>3. Len(<<>> \o <<doc>> \o <<>>) = 1 /\ Len(<<>>) + 1 = 1
    <2>1. <<>> \in Seq({doc}) /\ <<doc>> \in Seq({doc}) /\ Len(<<>>) = 0 /\ Len(<<doc>>) = 1
      OBVIOUS
    <2>2. Len(<<>> \o <<doc>>) = 1 /\ <<>> \o <<doc>> \in Seq({doc})
      BY <2>1, ConcatProperties
    <2>3. Len((<<>> \o <<doc>>) \o <<>>) = 1
      BY <2>1, <2>2, ConcatProperties
    <2> QED
      BY <2>1, <2>3
  <1> QED
    BY <1>1, <1>2, <1>3 DEF V!Init

\* What every step keeps and does to the line of versions.
LEMMA StepKeeps ==
    ASSUME IInv, [Next]_vars
    PROVE  IInv' /\ [V!Next]_(V!line)
  <1>1. CASE Handled
    <2>1. minted' \in Nat
      BY <1>1 DEF Handled, IInv, Now
    <2> QED
      BY <1>1, <2>1 DEF Handled, Kept, IInv
  <1>2. CASE Still
    <2>1. Versions' = Versions
      BY <1>2 DEF Still, Versions
    <2>2. UNCHANGED V!line
      BY <1>2 DEF Still, V!line
    <2>3. Histories'
      BY <1>2 DEF Still, IInv, Histories
    <2> QED
      BY <1>2, <2>1, <2>2, <2>3 DEF Still, IInv
  <1>3. CASE Undo
    <2>1. Kept(minted)
      BY <1>3, UndoKeeps
    <2>2. UNCHANGED <<clipboard, gesture, minted>>
      BY <1>3 DEF Undo, session
    <2>3. HeldClips'
      BY <2>2, SessionKept
    <2> QED
      BY <2>1, <2>2, <2>3 DEF Kept, IInv
  <1>4. CASE Redo
    <2>1. Kept(minted)
      BY <1>4, RedoKeeps
    <2>2. UNCHANGED <<clipboard, gesture, minted>>
      BY <1>4 DEF Redo, session
    <2>3. HeldClips'
      BY <2>2, SessionKept
    <2> QED
      BY <2>1, <2>2, <2>3 DEF Kept, IInv
  <1>5. CASE UNCHANGED vars
    <2>1. UNCHANGED <<doc, undoStack, redoStack, minted, did, clipboard, gesture>>
      BY <1>5 DEF vars, history, counts
    <2>2. Still
      BY <2>1, SessionKept DEF Still
    <2> QED
      BY <1>2, <2>2
  <1> QED
    BY <1>1, <1>2, <1>3, <1>4, <1>5, NextHandled

-----------------------------------------------------------------------------
(* Assets, the undo history and tracks: the invariant and what follows. *)

LEMMA AlwaysIInv == Spec => []IInv
  <1>1. Init => IInv
    BY InitIInv
  <1>2. IInv /\ [Next]_vars => IInv'
    BY StepKeeps
  <1> QED
    BY <1>1, <1>2, PTL DEF Spec

(***************************************************************************)
(* No clip of any timeline is without its asset, in the document and in    *)
(* every version undo and redo can bring back, whatever the handlers do to *)
(* the lists of assets and of timelines, and with whatever was copied      *)
(* before its asset was deleted (editor-actions.ts).                       *)
(***************************************************************************)
THEOREM ClipsShowAssets == Spec => []ClipAssetLive
  <1>1. IInv => ClipAssetLive
    BY DEF IInv, ClipAssetLive, Version, IsProject, IsLine, AreClips
  <1> QED
    BY <1>1, AlwaysIInv, PTL

(***************************************************************************)
(* The undo history implements a line of versions: every step of the       *)
(* editor drops the versions after the document and appends its own,       *)
(* walks the line by one, or leaves it alone, and only the oldest versions *)
(* are ever forgotten (recordHistoryStep, undo, redo of editor-store.tsx). *)
(***************************************************************************)
THEOREM UndoIsALine == Spec => HistoryIsALine
  <1>1. Init => V!Init
    BY InitLine
  <1>2. IInv /\ [Next]_vars => [V!Next]_(V!line)
    BY StepKeeps
  <1> QED
    BY <1>1, <1>2, AlwaysIInv, PTL DEF Spec, HistoryIsALine, V!Spec

(***************************************************************************)
(* No edit leaves a clip on a track that is not there, or a cue on one     *)
(* that is not for subtitles, though handlers add, delete and renumber     *)
(* tracks in several versions (deleteTrack, addSubtitleTrack, drops).      *)
(***************************************************************************)
THEOREM EditsKeepTracks == Spec => EditsStayOnTracks
  <1> DEFINE Stays ==
        did' \notin {"undo", "redo", "paste"} /\ OnTracks(doc)
        /\ (Just("drag") =>
              \A id \in DOMAIN gesture.to : gesture.to[id].track \in DOMAIN tracks)
        => OnTracks(doc')
  <1>1. ASSUME IInv, [Next]_vars PROVE Stays
    <2>1. CASE Handled
      <3>1. minted' # minted
        BY <1>1, <2>1 DEF Handled, IInv, Now
      <3> QED
        BY <2>1, <3>1 DEF Handled, Exempt, Just
    <2>2. CASE UNCHANGED doc
      <3>1. OnTracks(doc') <=> OnTracks(doc)
        BY <2>2
      <3> QED
        BY <3>1
    <2>3. CASE Undo \/ Redo
      BY <2>3 DEF Undo, Redo
    <2>4. UNCHANGED vars => UNCHANGED doc
      BY DEF vars
    <2> QED
      BY <1>1, <2>1, <2>2, <2>3, <2>4, NextHandled DEF Still
  <1>2. IInv /\ [Next]_vars => Stays
    BY <1>1
  <1>3. EditsStayOnTracks <=> [][Stays]_vars
    BY DEF EditsStayOnTracks
  <1> HIDE DEF Stays
  <1> QED
    BY <1>2, <1>3, AlwaysIInv, PTL DEF Spec

-----------------------------------------------------------------------------
(* What overwriting shows, of any clips at any time.                          *)

\* A clip whose id is a list of numbers, whatever made it.
Timed(c) == IsClip(c) /\ c.id \in Seq(Int) \ {<<>>}

Covers(c, track, t) == c.track = track /\ c.start <= t /\ t < End(c)

Frame(lib, c, t) == <<c.kind, PathOf(lib, c), Second(lib, c, t)>>

\* Media from its end back.
Back(lib, c, t) ==
    (IF c.asset \in DOMAIN lib THEN lib[c.asset].dur ELSE 0) - c.trimEnd - (t - c.start) * c.speed
Ahead(c, t) == c.trimStart + (t - c.start) * c.speed

LEMMA SecondIs ==
    ASSUME NEW lib, NEW c, NEW t
    PROVE  /\ c.reversed => Second(lib, c, t) = Back(lib, c, t)
           /\ ~c.reversed => Second(lib, c, t) = Ahead(c, t)
  BY DEF Second, Back, Ahead

LEMMA ShownIs ==
    ASSUME NEW lib, NEW cs, NEW track, NEW t
    PROVE  Shown(lib, cs, track, t) = {Frame(lib, c, t) : c \in {d \in cs : Covers(d, track, t)}}
  BY DEF Shown, Frame, Covers, At, OnTrack

LEMMA SamePath ==
    ASSUME NEW lib, NEW c, NEW d, c.asset = d.asset, c.take = d.take
    PROVE  PathOf(lib, c) = PathOf(lib, d)
  BY DEF PathOf, TakeShown

\* What is left of a clip before and after a time.
HeadOf(x, c, s) ==
    /\ Timed(x) /\ x.id = c.id /\ x.track = c.track /\ x.start = c.start /\ End(x) = s
    /\ x.reversed = c.reversed
TailOf(x, c, s, now) ==
    /\ Timed(x) /\ x.track = c.track /\ x.start = s /\ End(x) = End(c)
    /\ x.id \in {c.id, Append(c.id, now)} /\ x.reversed = c.reversed

\* The fields that times are read from, of a clip that is changed in them.
LEMMA PartTimed ==
    ASSUME NEW c, Timed(c), NEW s, s \in Int, NEW n, n \in Int, NEW u, u \in Int
    PROVE  /\ Timed([c EXCEPT !.dur = n])
           /\ Timed([c EXCEPT !.start = s, !.dur = n, !.trimStart = u])
  <1> DEFINE x == [c EXCEPT !.dur = n]
             y == [c EXCEPT !.start = s, !.dur = n, !.trimStart = u]
  <1>1. /\ DOMAIN x = ClipFields /\ x.start = c.start /\ x.dur = n /\ x.trimStart = c.trimStart
        /\ x.trimEnd = c.trimEnd /\ x.speed = c.speed /\ x.take = c.take /\ x.reversed = c.reversed /\ x.id = c.id
    BY DEF Timed, IsClip, ClipFields
  <1>2. /\ DOMAIN y = ClipFields /\ y.start = s /\ y.dur = n /\ y.trimStart = u
        /\ y.trimEnd = c.trimEnd /\ y.speed = c.speed /\ y.take = c.take /\ y.reversed = c.reversed /\ y.id = c.id
    BY DEF Timed, IsClip, ClipFields
  <1> HIDE DEF x, y
  <1> QED
    BY <1>1, <1>2 DEF Timed, IsClip, x, y

LEMMA CopyTimed ==
    ASSUME NEW c, Timed(c), NEW now, now \in Int
    PROVE  /\ Timed(Copy(c, now)) /\ Copy(c, now).id = Append(c.id, now)
           /\ \A f \in ClipFields \ {"id"} : Copy(c, now)[f] = c[f]
  <1> DEFINE x == Copy(c, now)
  <1>1. DOMAIN x = ClipFields /\ x.id = Append(c.id, now) /\ \A f \in ClipFields \ {"id"} : x[f] = c[f]
    BY DEF Timed, IsClip, ClipFields, Copy
  <1>2. Append(c.id, now) \in Seq(Int) \ {<<>>}
    BY DEF Timed
  <1> HIDE DEF x
  <1> QED
    BY <1>1, <1>2 DEF Timed, IsClip, ClipFields, x

LEMMA PartsTimed ==
    ASSUME NEW c, Timed(c), NEW now, now \in Int, NEW s, s \in Int
    PROVE  /\ HeadOf(UpTo(c, s), c, s)
           /\ TailOf(From(c, s), c, s, now) /\ TailOf(From(Copy(c, now), s), c, s, now)
  <1>1. HeadOf(UpTo(c, s), c, s)
    <2> DEFINE n == s - c.start
               x == [c EXCEPT !.dur = n]
    <2>1. n \in Int /\ UpTo(c, s) = x
      BY DEF Timed, IsClip, UpTo
    <2>2. /\ x.id = c.id /\ x.track = c.track /\ x.start = c.start /\ End(x) = s
          /\ x.reversed = c.reversed
      BY DEF Timed, IsClip, ClipFields, End
    <2> HIDE DEF n
    <2>3. Timed(x)
      BY <2>1, PartTimed
    <2> HIDE DEF x
    <2> QED
      BY <2>1, <2>2, <2>3 DEF HeadOf
  <1>2. ASSUME NEW b, Timed(b), b.dur = c.dur, b.start = c.start, b.track = c.track,
               b.reversed = c.reversed, b.id \in {c.id, Append(c.id, now)}
        PROVE  TailOf(From(b, s), c, s, now)
    <2> DEFINE n == End(b) - s
               u == b.trimStart + (s - b.start) * b.speed
               x == [b EXCEPT !.start = s, !.dur = n, !.trimStart = u]
    <2>1. u \in Int
      <3>1. (s - b.start) \in Int /\ b.speed \in Int /\ b.trimStart \in Int
        BY <1>2 DEF Timed, IsClip
      <3> QED
        BY <3>1
    <2>2. n \in Int /\ End(b) = End(c) /\ End(b) \in Int
      <3>1. b.start \in Int /\ b.dur \in Int
        BY <1>2 DEF Timed, IsClip
      <3> QED
        BY <1>2, <3>1 DEF End
    <2>3. From(b, s) = x
      BY DEF From
    <2> HIDE DEF u
    <2>4. x.id = b.id /\ x.track = b.track /\ x.start = s /\ x.dur = n /\ x.reversed = b.reversed
      BY <1>2 DEF Timed, IsClip, ClipFields
    <2>5. s + n = End(b)
      BY <2>2
    <2> HIDE DEF n
    <2>6. Timed(x)
      BY <1>2, <2>1, <2>2, PartTimed
    <2> HIDE DEF x
    <2>7. End(x) = End(c)
      BY <2>2, <2>4, <2>5 DEF End
    <2> QED
      BY <1>2, <2>3, <2>4, <2>6, <2>7 DEF TailOf
  <1>3. TailOf(From(c, s), c, s, now)
    BY <1>2
  <1>4. TailOf(From(Copy(c, now), s), c, s, now)
    <2> DEFINE b == Copy(c, now)
    <2>1. Timed(b) /\ b.id = Append(c.id, now) /\ \A f \in ClipFields \ {"id"} : b[f] = c[f]
      BY CopyTimed
    <2> HIDE DEF b
    <2>2. b.dur = c.dur /\ b.start = c.start /\ b.track = c.track /\ b.reversed = c.reversed
      BY <2>1 DEF ClipFields
    <2> QED
      BY <1>2, <2>1, <2>2 DEF b
  <1> QED
    BY <1>1, <1>3, <1>4

\* They show what the clip shows, but for the tail of a clip that is reversed.
LEMMA PartsShow ==
    ASSUME NEW c, Timed(c), NEW now, now \in Int, NEW s, s \in Int, NEW lib, NEW t, t \in Int
    PROVE  /\ Frame(lib, UpTo(c, s), t) = Frame(lib, c, t)
           /\ ~c.reversed => /\ Frame(lib, From(c, s), t) = Frame(lib, c, t)
                             /\ Frame(lib, From(Copy(c, now), s), t) = Frame(lib, c, t)
  <1>1. Frame(lib, UpTo(c, s), t) = Frame(lib, c, t)
    <2> DEFINE x == UpTo(c, s)
    <2>1. /\ x.start = c.start /\ x.speed = c.speed /\ x.trimStart = c.trimStart
          /\ x.kind = c.kind /\ x.asset = c.asset /\ x.take = c.take
          /\ x.reversed = c.reversed /\ x.trimEnd = c.trimEnd
      BY DEF Timed, IsClip, ClipFields, UpTo
    <2> HIDE DEF x
    <2>2. PathOf(lib, x) = PathOf(lib, c)
      BY <2>1, SamePath
    <2>3. Second(lib, x, t) = Second(lib, c, t)
      BY <2>1 DEF Second
    <2> QED
      BY <2>1, <2>2, <2>3 DEF Frame, x
  <1>2. ASSUME ~c.reversed, NEW b, b.start = c.start, b.speed = c.speed, b.trimStart = c.trimStart, b.kind = c.kind,
               b.asset = c.asset, b.take = c.take, b.reversed = c.reversed, IsClip(b)
        PROVE  Frame(lib, From(b, s), t) = Frame(lib, c, t)
    <2> DEFINE x == From(b, s)
               at == b.trimStart + (s - b.start) * b.speed
    <2>1. x = [b EXCEPT !.start = s, !.dur = End(b) - s, !.trimStart = at]
      BY DEF From
    <2>2. at + (t - s) * c.speed = c.trimStart + (t - c.start) * c.speed
      <3>1. c.speed \in Int /\ c.trimStart \in Int /\ c.start \in Int
        BY DEF Timed, IsClip
      <3>2. (s - c.start) * c.speed + (t - s) * c.speed = (t - c.start) * c.speed
        BY <3>1
      <3> DEFINE p == (s - c.start) * c.speed
                 q == (t - s) * c.speed
      <3>3. p \in Int /\ q \in Int
        BY <3>1
      <3>4. at = c.trimStart + p
        BY <1>2
      <3> QED
        BY <3>1, <3>2, <3>3, <3>4
    <2> HIDE DEF at
    <2>3. /\ x.start = s /\ x.speed = b.speed /\ x.trimStart = at
          /\ x.kind = b.kind /\ x.asset = b.asset /\ x.take = b.take /\ x.reversed = b.reversed
      BY <1>2, <2>1 DEF IsClip, ClipFields
    <2> HIDE DEF x
    <2>4. PathOf(lib, x) = PathOf(lib, c)
      BY <1>2, <2>3, SamePath
    <2>5. Ahead(x, t) = Ahead(c, t)
      BY <1>2, <2>2, <2>3 DEF Ahead
    <2>6. Second(lib, x, t) = Second(lib, c, t)
      BY <1>2, <2>3, <2>5, SecondIs
    <2> QED
      BY <1>2, <2>3, <2>4, <2>6 DEF Frame, x
  <1>3. LET b == Copy(c, now) IN
          /\ IsClip(b) /\ b.start = c.start /\ b.speed = c.speed /\ b.trimStart = c.trimStart
          /\ b.kind = c.kind /\ b.asset = c.asset /\ b.take = c.take /\ b.reversed = c.reversed
    BY CopyTimed DEF Timed, ClipFields
  <1>4. IsClip(c)
    BY DEF Timed, IsClip
  <1> QED
    BY <1>1, <1>2, <1>3, <1>4

\* After a clip that was put on a reversed one, other seconds of that are shown.
Tears(c, m, t) == c.reversed /\ Overlap(c, m) /\ End(m) <= t

Alike(x, c, m, lib, t) == Tears(c, m, t) \/ Frame(lib, x, t) = Frame(lib, c, t)

CutSpares(c, m, now, lib, track, t) ==
    /\ \A x \in Cut(c, m, now) : Covers(x, track, t) =>
         ~Covers(m, track, t) /\ Covers(c, track, t) /\ Alike(x, c, m, lib, t)
    /\ Covers(c, track, t) /\ ~Covers(m, track, t) =>
         \E x \in Cut(c, m, now) : Covers(x, track, t) /\ Alike(x, c, m, lib, t)

\* A part of a clip.
Within(x, c) ==
    /\ x.track = c.track /\ x.reversed = c.reversed
    /\ c.start <= x.start /\ End(x) <= End(c)

\* Under a clip that covers the time nothing is left, elsewhere everything is.
LEMMA CutShows ==
    ASSUME NEW c, Timed(c), NEW m, Timed(m), NEW now, now \in Int, NEW lib, NEW track, NEW t, t \in Int
    PROVE  /\ \A x \in Cut(c, m, now) : Timed(x) /\ x.id \in {c.id, Append(c.id, now)} /\ Within(x, c)
           /\ CutSpares(c, m, now, lib, track, t)
  <1> DEFINE tail == IF c.start < m.start THEN Copy(c, now) ELSE c
             x1 == UpTo(c, m.start)
             x2 == From(tail, End(m))
  <1>1. m.start \in Int /\ End(m) \in Int /\ c.start \in Int /\ End(c) \in Int
    <2>1. m.start \in Int /\ m.dur \in Int /\ c.start \in Int /\ c.dur \in Int
      BY DEF Timed, IsClip
    <2> QED
      BY <2>1 DEF End
  <1>2. /\ Timed(x1) /\ x1.id = c.id /\ x1.track = c.track /\ x1.start = c.start /\ End(x1) = m.start
        /\ x1.reversed = c.reversed
    BY <1>1, PartsTimed DEF HeadOf
  <1>3. /\ Timed(x2) /\ x2.track = c.track /\ x2.start = End(m) /\ End(x2) = End(c)
        /\ x2.id \in {c.id, Append(c.id, now)} /\ x2.reversed = c.reversed
    <2>1. TailOf(From(c, End(m)), c, End(m), now) /\ TailOf(From(Copy(c, now), End(m)), c, End(m), now)
      BY <1>1, PartsTimed
    <2> QED
      BY <2>1 DEF TailOf
  <1>4. /\ Frame(lib, x1, t) = Frame(lib, c, t)
        /\ ~c.reversed => Frame(lib, x2, t) = Frame(lib, c, t)
    <2>1. Frame(lib, UpTo(c, m.start), t) = Frame(lib, c, t)
      BY <1>1, PartsShow
    <2>2. ~c.reversed => /\ Frame(lib, From(c, End(m)), t) = Frame(lib, c, t)
                         /\ Frame(lib, From(Copy(c, now), End(m)), t) = Frame(lib, c, t)
      BY <1>1, PartsShow
    <2> QED
      BY <2>1, <2>2
  <1>5. Cut(c, m, now) = IF ~Overlap(c, m) THEN {c}
                         ELSE (IF c.start < m.start THEN {x1} ELSE {}) \cup (IF End(m) < End(c) THEN {x2} ELSE {})
    BY DEF Cut
  <1> HIDE DEF tail, x1, x2
  <1>6. CASE ~Overlap(c, m)
    <2>1. Cut(c, m, now) = {c} /\ Within(c, c)
      BY <1>1, <1>5, <1>6 DEF Within
    <2>2. Covers(c, track, t) => ~Covers(m, track, t)
      BY <1>1, <1>6 DEF Overlap, Covers
    <2> QED
      BY <2>1, <2>2 DEF CutSpares, Alike
  <1>7. CASE Overlap(c, m)
    <2>1. c.track = m.track /\ c.start < End(m) /\ m.start < End(c)
      BY <1>7 DEF Overlap
    <2>2. \A x \in Cut(c, m, now) : (x = x1 /\ c.start < m.start) \/ (x = x2 /\ End(m) < End(c))
      BY <1>5, <1>7
    <2>3. ASSUME NEW x \in Cut(c, m, now)
          PROVE  Timed(x) /\ x.id \in {c.id, Append(c.id, now)} /\ Within(x, c)
      <3>1. CASE x = x1 /\ c.start < m.start
        BY <1>1, <1>2, <2>1, <3>1 DEF Within
      <3>2. CASE x = x2 /\ End(m) < End(c)
        BY <1>1, <1>3, <2>1, <3>2 DEF Within
      <3> QED
        BY <2>2, <3>1, <3>2
    <2>4. ASSUME NEW x \in Cut(c, m, now), Covers(x, track, t)
          PROVE  ~Covers(m, track, t) /\ Covers(c, track, t) /\ Alike(x, c, m, lib, t)
      <3>1. CASE x = x1 /\ c.start < m.start
        <4>1. ~Covers(m, track, t) /\ Covers(c, track, t)
          BY <1>1, <1>2, <2>1, <2>4, <3>1 DEF Covers
        <4> QED
          BY <1>4, <3>1, <4>1 DEF Alike
      <3>2. CASE x = x2 /\ End(m) < End(c)
        <4>1. ~Covers(m, track, t) /\ Covers(c, track, t) /\ End(m) <= t
          BY <1>1, <1>3, <2>1, <2>4, <3>2 DEF Covers
        <4> QED
          BY <1>4, <1>7, <3>2, <4>1 DEF Alike, Tears
      <3> QED
        BY <2>2, <3>1, <3>2
    <2>5. ASSUME Covers(c, track, t), ~Covers(m, track, t)
          PROVE  \E x \in Cut(c, m, now) : Covers(x, track, t) /\ Alike(x, c, m, lib, t)
      <3>1. CASE t < m.start
        <4>1. x1 \in Cut(c, m, now) /\ c.start < m.start
          BY <1>1, <1>5, <1>7, <2>5, <3>1 DEF Covers
        <4>2. Covers(x1, track, t)
          BY <1>1, <1>2, <2>5, <3>1, <4>1 DEF Covers
        <4> QED
          BY <2>4, <4>1, <4>2
      <3>2. CASE ~(t < m.start)
        <4>1. End(m) <= t
          BY <1>1, <2>1, <2>5, <3>2 DEF Covers
        <4>2. x2 \in Cut(c, m, now) /\ End(m) < End(c)
          BY <1>1, <1>5, <1>7, <2>5, <4>1 DEF Covers
        <4>3. Covers(x2, track, t)
          BY <1>1, <1>3, <2>5, <4>1, <4>2 DEF Covers
        <4> QED
          BY <2>4, <4>2, <4>3
      <3> QED
        BY <3>1, <3>2
    <2> QED
      BY <2>3, <2>4, <2>5 DEF CutSpares
  <1> QED
    BY <1>6, <1>7

\* An id that a copy, a half or a tail made at this now has.
Derived(id, now) == Len(id) > 1 /\ id[Len(id)] = now

LEMMA AppendDerived ==
    ASSUME NEW id, id \in Seq(Int) \ {<<>>}, NEW now, now \in Int
    PROVE  Append(id, now) \in Seq(Int) \ {<<>>} /\ Derived(Append(id, now), now)
  BY DEF Derived

\* Clips of which those that were moved are put; the others have the ids of old
\* ones or ids of their own, and show what old ones showed but under those of over.
Whole(new, put, moved) == (\A c \in new : Timed(c)) /\ put = {c \in new : c.id \in ToSet(moved)}
Traced(new, old, put, now) ==
    \A c \in new \ put : /\ c.id \in Ids(old \ put) \/ Derived(c.id, now)
                         /\ \E d \in old \ put : Within(c, d)
Hides(over, track, t) == \E m \in over : Covers(m, track, t)
Spared(new, old, put, over) ==
    \A lib, track, t : t \in Int /\ ~Torn(old \ put, over, track, t) =>
      Shown(lib, new \ put, track, t) =
        IF Hides(over, track, t) THEN {} ELSE Shown(lib, old \ put, track, t)

\* Clips that show those that were put, and elsewhere what the kept ones showed.
Overlaid(new, put, kept) ==
    \A lib, track, t : t \in Int /\ ~Torn(kept, put, track, t) =>
      Shown(lib, new, track, t) =
        IF Shown(lib, put, track, t) # {} THEN Shown(lib, put, track, t)
        ELSE Shown(lib, kept, track, t)

LEMMA TornIs ==
    ASSUME NEW kept, NEW over, NEW track, NEW t
    PROVE  Torn(kept, over, track, t) <=>
             \E c \in kept, m \in over : Covers(c, track, t) /\ Tears(c, m, t)
  BY DEF Torn, At, OnTrack, Covers, Tears

LEMMA TimesInt ==
    ASSUME NEW c, Timed(c)
    PROVE  c.start \in Int /\ End(c) \in Int
  <1>1. c.start \in Int /\ c.dur \in Int
    BY DEF Timed, IsClip
  <1> QED
    BY <1>1 DEF End

LEMMA WithinSelf ==
    ASSUME NEW c, Timed(c)
    PROVE  Within(c, c)
  <1>1. c.start \in Int /\ End(c) \in Int
    BY DEF Timed, IsClip, End
  <1> QED
    BY <1>1 DEF Within

LEMMA WithinWithin ==
    ASSUME NEW x, Timed(x), NEW c, Timed(c), NEW d, Timed(d), Within(x, c), Within(c, d)
    PROVE  Within(x, d)
  <1>1. /\ x.start \in Int /\ c.start \in Int /\ d.start \in Int
        /\ End(x) \in Int /\ End(c) \in Int /\ End(d) \in Int
    BY TimesInt
  <1>2. x.track = d.track /\ x.reversed = d.reversed
    BY Zenon DEF Within
  <1>3. c.start <= x.start /\ d.start <= c.start /\ End(x) <= End(c) /\ End(c) <= End(d)
    BY DEF Within
  <1>4. d.start <= x.start /\ End(x) <= End(d)
    BY <1>1, <1>3
  <1> QED
    BY <1>2, <1>4 DEF Within

\* What tears a part of a clip at a time tears the clip.
LEMMA TearsWithin ==
    ASSUME NEW c, Timed(c), NEW d, Timed(d), NEW m, Timed(m), Within(c, d),
           NEW track, NEW t, t \in Int, Covers(c, track, t), Tears(c, m, t)
    PROVE  Covers(d, track, t) /\ Tears(d, m, t)
  <1>1. /\ c.start \in Int /\ d.start \in Int /\ m.start \in Int
        /\ End(c) \in Int /\ End(d) \in Int /\ End(m) \in Int
    BY TimesInt
  <1>2. c.track = d.track /\ d.start <= c.start /\ End(c) <= End(d)
    BY DEF Within
  <1>3. d.reversed /\ Overlap(c, m) /\ End(m) <= t
    BY Zenon DEF Within, Tears
  <1>4. d.start <= t /\ t < End(d) /\ d.track = track
    BY <1>1, <1>2 DEF Covers
  <1>5. Overlap(d, m)
    BY <1>1, <1>2, <1>3 DEF Overlap
  <1> QED
    BY <1>3, <1>4, <1>5 DEF Covers, Tears

\* The clips left by one that is put on them.
LEMMA CutUnderShows ==
    ASSUME NEW left, NEW put, NEW moved, NEW now, now \in Int, NEW id, id \in ToSet(moved),
           Whole(left, put, moved), Unique(put),
           \A x \in ToSet(moved) : ~Derived(x, now)
    PROVE  /\ Whole(CutUnder(left, id, moved, now), put, moved)
           /\ Traced(CutUnder(left, id, moved, now), left, put, now)
           /\ Spared(CutUnder(left, id, moved, now), left, put, {d \in put : d.id = id})
  <1> DEFINE new == CutUnder(left, id, moved, now)
             m == ClipOf(left, id)
             f == [c \in left |-> IF c.id \in ToSet(moved) THEN {c} ELSE Cut(c, m, now)]
             over == {d \in put : d.id = id}
  <1>3. /\ put \subseteq left
        /\ \A c \in left : Timed(c) /\ (c \in put <=> c.id \in ToSet(moved))
    BY DEF Whole
  <1>1. CASE id \notin Ids(left)
    <2>1. new = left
      BY <1>1 DEF CutUnder
    <2>2. over = {}
      BY <1>1, <1>3 DEF Ids
    <2>3. Spared(left, left, put, {})
      BY DEF Spared, Hides
    <2>4. Traced(left, left, put, now)
      BY <1>3, WithinSelf DEF Traced, Ids
    <2> HIDE DEF new, over
    <2> QED
      BY <2>1, <2>2, <2>3, <2>4 DEF new, over
  <1>2. CASE id \in Ids(left)
    <2>1. m \in left /\ m.id = id
      BY <1>2 DEF ClipOf, Ids
    <2>2. m \in put /\ Timed(m) /\ over = {m}
      <3>1. m \in put /\ Timed(m)
        BY <1>3, <2>1
      <3>2. \A d \in put : d.id = id <=> d = m
        BY <2>1, <3>1 DEF Unique
      <3> HIDE DEF m
      <3> QED
        BY <3>1, <3>2
    <2>3. \A x : x \in new <=> \E c \in left : x \in f[c]
      BY <1>2 DEF CutUnder
    <2> HIDE DEF new, m, over
    <2>4. \A c \in put : f[c] = {c}
      BY <1>3
    <2>5. ASSUME NEW c \in left \ put
          PROVE  /\ f[c] = Cut(c, m, now)
                 /\ \A x \in f[c] : /\ Timed(x) /\ x.id \in {c.id, Append(c.id, now)} /\ Within(x, c)
                                    /\ x.id \notin ToSet(moved)
    (* the parts of a clip that is not moved are not moved *)
      <3>1. f[c] = Cut(c, m, now) /\ Timed(c)
        BY <1>3
      <3>2. \A x \in Cut(c, m, now) : Timed(x) /\ x.id \in {c.id, Append(c.id, now)} /\ Within(x, c)
        BY <2>2, <3>1, CutShows, 0 \in Int
      <3>3. c.id \notin ToSet(moved) /\ Append(c.id, now) \notin ToSet(moved)
        <4>1. Derived(Append(c.id, now), now)
          BY <3>1, AppendDerived DEF Timed
        <4> QED
          BY <1>3, <4>1
      <3> HIDE DEF f
      <3> QED
        BY <3>1, <3>2, <3>3
    <2> HIDE DEF f
    <2>7. \A c \in new : Timed(c)
      <3> TAKE x \in new
      <3>1. PICK c \in left : x \in f[c]
        BY <2>3
      <3>2. CASE c \in put
        BY <2>4, <1>3, <3>1, <3>2
      <3>3. CASE c \notin put
        BY <2>5, <3>1, <3>3
      <3> QED
        BY <3>2, <3>3
    <2>8. \A x : x \in new \ put <=> \E c \in left \ put : x \in f[c]
      <3> TAKE x
      <3>1. ASSUME x \in new \ put PROVE \E c \in left \ put : x \in f[c]
        <4>1. PICK c \in left : x \in f[c]
          BY <2>3, <3>1
        <4> QED
          BY <2>4, <3>1, <4>1
      <3>2. ASSUME NEW c \in left \ put, x \in f[c] PROVE x \in new \ put
        <4>1. x.id \notin ToSet(moved)
          BY <2>5, <3>2
        <4> QED
          BY <2>3, <1>3, <3>2, <4>1
      <3> QED
        BY <3>1, <3>2
    <2>9. put = {c \in new : c.id \in ToSet(moved)}
      <3>1. \A c \in put : c \in new /\ c.id \in ToSet(moved)
        BY <2>3, <2>4, <1>3
      <3>2. \A x \in new \ put : x.id \notin ToSet(moved)
        BY <2>5, <2>8
      <3> QED
        BY <3>1, <3>2
    <2>10. ASSUME NEW x \in new \ put
           PROVE  /\ x.id \in Ids(left \ put) \/ Derived(x.id, now)
                  /\ \E d \in left \ put : Within(x, d)
      <3>1. PICK c \in left \ put : x \in f[c]
        BY <2>8
      <3>2. x.id \in {c.id, Append(c.id, now)} /\ Within(x, c)
        BY <2>5, <3>1
      <3>3. Derived(Append(c.id, now), now)
        BY <1>3, AppendDerived DEF Timed
      <3> QED
        BY <3>1, <3>2, <3>3 DEF Ids
    <2>11. ASSUME NEW lib, NEW track, NEW t, t \in Int, ~Torn(left \ put, over, track, t)
           PROVE  Shown(lib, new \ put, track, t) =
                    IF Hides(over, track, t) THEN {} ELSE Shown(lib, left \ put, track, t)
      <3>6. ASSUME NEW c \in left \ put
            PROVE  CutSpares(c, m, now, lib, track, t)
        <4>1. Timed(c) /\ Timed(m) /\ now \in Int /\ t \in Int
          BY <1>3, <2>2, <2>11
        <4> QED
          BY <4>1, CutShows
      <3>7. \A c \in left \ put : Covers(c, track, t) => ~Tears(c, m, t)
        BY <2>2, <2>11, TornIs
      <3>1. ASSUME NEW x \in new \ put, Covers(x, track, t)
            PROVE  ~Covers(m, track, t) /\ \E c \in left \ put : Covers(c, track, t) /\ Frame(lib, x, t) = Frame(lib, c, t)
        <4>1. PICK c \in left \ put : x \in f[c]
          BY <2>8
        <4>2. Timed(c) /\ x \in Cut(c, m, now)
          BY <2>5, <1>3, <4>1
        <4>3. ~Covers(m, track, t) /\ Covers(c, track, t) /\ Alike(x, c, m, lib, t)
          BY <3>1, <3>6, <4>1, <4>2 DEF CutSpares
        <4> QED
          BY <3>7, <4>3 DEF Alike
      <3>2. ASSUME NEW c \in left \ put, Covers(c, track, t), ~Covers(m, track, t)
            PROVE  \E x \in new \ put : Covers(x, track, t) /\ Frame(lib, x, t) = Frame(lib, c, t)
        <4>1. Timed(c) /\ f[c] = Cut(c, m, now)
          BY <2>5, <1>3
        <4>2. PICK x \in Cut(c, m, now) : Covers(x, track, t) /\ Alike(x, c, m, lib, t)
          BY <3>2, <3>6 DEF CutSpares
        <4> QED
          BY <2>8, <3>2, <3>7, <4>1, <4>2 DEF Alike
      <3>3. Hides(over, track, t) <=> Covers(m, track, t)
        BY <2>2 DEF Hides
      <3>4. CASE Covers(m, track, t)
        <4>1. {x \in new \ put : Covers(x, track, t)} = {}
          BY <3>1, <3>4
        <4>2. Shown(lib, new \ put, track, t) = {}
          BY <4>1, ShownIs
        <4> QED
          BY <3>3, <3>4, <4>2
      <3>5. CASE ~Covers(m, track, t)
        <4> DEFINE X == {Frame(lib, x, t) : x \in {d \in new \ put : Covers(d, track, t)}}
                   Y == {Frame(lib, x, t) : x \in {d \in left \ put : Covers(d, track, t)}}
        <4>1. X = Y
          BY <3>1, <3>2, <3>5
        <4>2. Shown(lib, new \ put, track, t) = X /\ Shown(lib, left \ put, track, t) = Y
          BY ShownIs
        <4> HIDE DEF X, Y
        <4> QED
          BY <3>3, <3>5, <4>1, <4>2
      <3> QED
        BY <3>4, <3>5
    <2> QED
      BY <2>7, <2>9, <2>10, <2>11 DEF Whole, Traced, Spared, new, over
  <1> QED
    BY <1>1, <1>2

(***************************************************************************)
(* Whatever clips are put on a timeline, at every time of every track what *)
(* was put there is shown, or else what the other clips showed before, to  *)
(* the second of the media and at any speed, but for a reversed clip after *)
(* what was put on it; what was put stays whole, the others are parts of   *)
(* those there were, and none gets an id of what was put                   *)
(* (resolveOverlaps).                                                      *)
(***************************************************************************)
THEOREM OverlapsShow ==
    ASSUME NEW cs, NEW put, NEW moved, NEW now, now \in Int, Indices(DOMAIN moved),
           Whole(cs, put, moved), Unique(put),
           \A x \in ToSet(moved) : ~Derived(x, now)
    PROVE  /\ Whole(ResolveOverlaps(cs, moved, now), put, moved)
           /\ Traced(ResolveOverlaps(cs, moved, now), cs, put, now)
           /\ Overlaid(ResolveOverlaps(cs, moved, now), put, cs \ put)
  <1> DEFINE D == DOMAIN moved
             over(U) == {m \in put : \E i \in U : m.id = moved[i]}
             Good(x, U) == Whole(x, put, moved) /\ Traced(x, cs, put, now) /\ Spared(x, cs, put, over(U))
  <1>1. PICK g : /\ Folds(g, D, TRUE, cs, moved, moved, now)
                 /\ ResolveOverlaps(cs, moved, now) = g[D]
    BY OverlapsFold
  <1>2. ToSet(moved) = {moved[i] : i \in D}
    BY DEF ToSet
  <1>3. IsFiniteSet(D) /\ \A U \in SUBSET D : U # {} => Max(U) \in U
    BY DEF Indices
  <1> HIDE DEF D
  <1> DEFINE B == {U \in SUBSET D : ~Good(g[U], U)}
  <1>4. Good(g[D], D)
    <2>1. SUFFICES ASSUME B # {} PROVE FALSE
      <3> HIDE DEF Good
      <3> QED
        OBVIOUS
    <2>2. PICK U \in B : \A W \in B : W \subseteq U => W = U
      <3>1. B \in SUBSET (SUBSET D)
        OBVIOUS
      <3> HIDE DEF B
      <3> QED
        BY <1>3, <2>1, <3>1, LeastSet
    <2>3. U # {}
      <3>1. g[{}] = cs
        BY <1>1 DEF Folds
      <3>2. Good(cs, {})
        <4>1. \A c \in cs : Within(c, c)
          BY WithinSelf DEF Whole
        <4>2. Traced(cs, cs, put, now)
          BY <4>1 DEF Ids, Traced
        <4>3. over({}) = {}
          OBVIOUS
        <4> HIDE DEF over
        <4> QED
          BY <4>2, <4>3 DEF Spared, Hides
      <3> HIDE DEF Good
      <3> QED
        BY <2>2, <3>1, <3>2
    <2> DEFINE m == Max(U)
               x == g[U \ {m}]
               id == moved[m]
               one == {d \in put : d.id = id}
               new == CutUnder(x, id, moved, now)
    <2>4. m \in U /\ U \in SUBSET D
      BY <1>3, <2>2, <2>3
    <2>5. g[U] = new
      BY <1>1, <2>3, <2>4 DEF Folds, StepOf
    <2> HIDE DEF m
    <2>6. Good(x, U \ {m})
      <3> HIDE DEF Good
      <3> QED
        BY <2>2, <2>4
    <2>7. id \in ToSet(moved)
      BY <1>2, <2>4
    <2>8. over(U) = over(U \ {m}) \cup one
      BY <2>4
    <2>9. Whole(x, put, moved) /\ Traced(x, cs, put, now) /\ Spared(x, cs, put, over(U \ {m}))
      BY <2>6
    <2> HIDE DEF x, id
    <2>10. Whole(new, put, moved) /\ Traced(new, x, put, now) /\ Spared(new, x, put, one)
      BY <2>7, <2>9, CutUnderShows
    <2> HIDE DEF new
    <2>11. Traced(new, cs, put, now)
      <3> SUFFICES ASSUME NEW c \in new \ put
                   PROVE  /\ c.id \in Ids(cs \ put) \/ Derived(c.id, now)
                          /\ \E d \in cs \ put : Within(c, d)
        BY DEF Traced
      <3>1. c.id \in Ids(cs \ put) \/ Derived(c.id, now)
        BY <2>9, <2>10 DEF Ids, Traced
      <3>2. PICK d \in x \ put : Within(c, d)
        BY <2>10 DEF Traced
      <3>3. PICK e \in cs \ put : Within(d, e)
        BY <2>9 DEF Traced
      <3>4. Timed(c) /\ Timed(d) /\ Timed(e)
        BY <2>9, <2>10 DEF Whole
      <3> QED
        BY <3>1, <3>2, <3>3, <3>4, WithinWithin
    <2> HIDE DEF one, over
    <2>12. Spared(new, cs, put, over(U))
      <3>1. \A track, t : Hides(over(U), track, t) <=> Hides(over(U \ {m}), track, t) \/ Hides(one, track, t)
        BY <2>8 DEF Hides
      <3>2. ASSUME NEW lib, NEW track, NEW t, t \in Int, ~Torn(cs \ put, over(U), track, t)
            PROVE  Shown(lib, new \ put, track, t) =
                     IF Hides(over(U), track, t) THEN {} ELSE Shown(lib, cs \ put, track, t)
        <4>3. ~Torn(cs \ put, over(U \ {m}), track, t)
          BY <2>8, <3>2, TornIs
        <4>4. ~Torn(x \ put, one, track, t)
          <5> SUFFICES ASSUME NEW c \in x \ put, NEW k \in one, Covers(c, track, t), Tears(c, k, t)
                       PROVE  FALSE
            BY TornIs
          <5>1. PICK d \in cs \ put : Within(c, d)
            BY <2>9 DEF Traced
          <5>2. Timed(c) /\ Timed(d) /\ Timed(k)
            <6>1. k \in put
              BY DEF one
            <6> QED
              BY <2>9, <6>1 DEF Whole
          <5>3. Covers(d, track, t) /\ Tears(d, k, t)
            BY <3>2, <5>1, <5>2, TearsWithin
          <5> QED
            BY <2>8, <3>2, <5>1, <5>3, TornIs
        <4>1. Shown(lib, new \ put, track, t) =
                IF Hides(one, track, t) THEN {} ELSE Shown(lib, x \ put, track, t)
          BY <2>10, <3>2, <4>4 DEF Spared
        <4>2. Shown(lib, x \ put, track, t) =
                IF Hides(over(U \ {m}), track, t) THEN {} ELSE Shown(lib, cs \ put, track, t)
          BY <2>9, <3>2, <4>3 DEF Spared
        <4> QED
          BY <3>1, <4>1, <4>2
      <3> QED
        BY <3>2 DEF Spared
    <2>13. Good(new, U)
      BY <2>10, <2>11, <2>12
    <2> HIDE DEF Good
    <2> QED
      BY <2>2, <2>5, <2>13
  <1> DEFINE new == g[D]
  <1>5. ASSUME NEW lib, NEW track, NEW t, t \in Int, ~Torn(cs \ put, put, track, t)
        PROVE  Shown(lib, new, track, t) =
                  IF Shown(lib, put, track, t) # {} THEN Shown(lib, put, track, t)
                  ELSE Shown(lib, cs \ put, track, t)
    <2>1. Shown(lib, new, track, t) = Shown(lib, put, track, t) \cup Shown(lib, new \ put, track, t)
      <3>1. put \subseteq new
        BY <1>4 DEF Whole
      <3> HIDE DEF new
      <3>2. {d \in new : Covers(d, track, t)} =
              {d \in put : Covers(d, track, t)} \cup {d \in new \ put : Covers(d, track, t)}
        BY <3>1
      <3> QED
        BY <3>2, ShownIs
    <2>4. over(D) = put
      <3>1. \A m \in put : \E i \in D : m.id = moved[i]
        BY <1>2 DEF Whole
      <3> QED
        BY <3>1
    <2>2. Hides(over(D), track, t) <=> Shown(lib, put, track, t) # {}
      BY <2>4, ShownIs DEF Hides
    <2>3. Shown(lib, new \ put, track, t) =
            IF Hides(over(D), track, t) THEN {} ELSE Shown(lib, cs \ put, track, t)
      <3>1. Spared(new, cs, put, put)
        BY <1>4, <2>4
      <3> HIDE DEF over, new
      <3> QED
        BY <1>5, <2>4, <3>1 DEF Spared
    <2> HIDE DEF over, new
    <2> QED
      BY <2>1, <2>2, <2>3
  <1> QED
    BY <1>1, <1>4, <1>5 DEF Overlaid

-----------------------------------------------------------------------------
(* What a split shows, and what it links.                                     *)

\* A half of a clip, from one time to another.
HalfOf(x, c, from, to) ==
    /\ Timed(x) /\ x.speed = c.speed /\ x.reversed = c.reversed
    /\ x.track = c.track /\ x.start = from /\ End(x) = to

TwoHalves(c, time, now, linked) ==
    /\ HalfOf(FirstHalf(c, time, linked), c, c.start, time)
    /\ HalfOf(SecondHalf(c, time, now, linked), c, time, End(c))
    /\ FirstHalf(c, time, linked).id = c.id /\ FirstHalf(c, time, linked).linked = linked
    /\ SecondHalf(c, time, now, linked).id = Append(c.id, now)
    /\ SecondHalf(c, time, now, linked).linked = linked

LEMMA HalvesTimed ==
    ASSUME NEW c, Timed(c), NEW time, time \in Int, NEW now, now \in Int, NEW linked
    PROVE  TwoHalves(c, time, now, linked)
  <1>1. c.start \in Int /\ c.dur \in Int /\ c.trimStart \in Int /\ c.trimEnd \in Int /\ End(c) \in Int
        /\ DOMAIN c = ClipFields
    BY DEF Timed, IsClip, End
  <1>2. /\ HalfOf(FirstHalf(c, time, linked), c, c.start, time)
        /\ FirstHalf(c, time, linked).id = c.id /\ FirstHalf(c, time, linked).linked = linked
    <2> DEFINE x == FirstHalf(c, time, linked)
               n == time - c.start
               u == c.trimEnd + (End(c) - time)
    <2>1. n \in Int /\ u \in Int /\ c.start + n = time
      BY <1>1
    <2>2. /\ DOMAIN x = ClipFields /\ x.dur = n /\ x.trimEnd = u /\ x.linked = linked
          /\ x.start = c.start /\ x.trimStart = c.trimStart /\ x.speed = c.speed /\ x.id = c.id
          /\ x.track = c.track /\ x.take = c.take /\ x.reversed = c.reversed
      BY <1>1 DEF ClipFields, FirstHalf
    <2> HIDE DEF x, n, u
    <2>3. Timed(x)
      BY <2>1, <2>2 DEF Timed, IsClip
    <2> QED
      BY <2>1, <2>2, <2>3 DEF HalfOf, End, x
  <1>3. /\ HalfOf(SecondHalf(c, time, now, linked), c, time, End(c))
        /\ SecondHalf(c, time, now, linked).id = Append(c.id, now)
        /\ SecondHalf(c, time, now, linked).linked = linked
    <2> DEFINE d == Copy(c, now)
               x == SecondHalf(c, time, now, linked)
               n == End(c) - time
               u == c.trimStart + (time - c.start)
    <2>1. n \in Int /\ u \in Int /\ time + n = End(c)
      BY <1>1
    <2>2. /\ d.id = Append(c.id, now) /\ d.id \in Seq(Int) \ {<<>>} /\ DOMAIN d = ClipFields
          /\ \A f \in ClipFields \ {"id"} : d[f] = c[f]
      BY CopyTimed DEF Timed, IsClip
    <2>3. x = [d EXCEPT !.start = time, !.dur = n, !.trimStart = u, !.linked = linked]
      <3>1. x = [d EXCEPT !.start = time, !.dur = n, !.trimStart = d.trimStart + (time - c.start),
                          !.linked = linked]
        BY DEF SecondHalf
      <3>2. d.trimStart = c.trimStart
        BY <2>2 DEF ClipFields
      <3> QED
        BY <3>1, <3>2
    <2> HIDE DEF x, n, u, d
    <2>4. /\ DOMAIN x = ClipFields /\ x.start = time /\ x.dur = n /\ x.trimStart = u /\ x.linked = linked
          /\ x.id = d.id /\ x.speed = d.speed /\ x.track = d.track /\ x.take = d.take /\ x.reversed = d.reversed
          /\ x.trimEnd = d.trimEnd
      BY <2>2, <2>3 DEF ClipFields
    <2>5. d.speed = c.speed /\ d.track = c.track /\ d.take = c.take /\ d.reversed = c.reversed /\ d.trimEnd = c.trimEnd
      BY <2>2 DEF ClipFields
    <2>6. Timed(x)
      BY <2>1, <2>2, <2>4, <2>5 DEF Timed, IsClip
    <2> QED
      BY <2>1, <2>2, <2>4, <2>5, <2>6 DEF HalfOf, End, x, d
  <1> QED
    BY <1>2, <1>3 DEF TwoHalves

\* A clip that plays forwards at normal speed.
Forward(c) == c.speed = 1 /\ ~c.reversed

LEMMA HalvesShow ==
    ASSUME NEW c, Timed(c), Forward(c), NEW time, time \in Int, NEW now, NEW linked,
           NEW lib, NEW t, t \in Int
    PROVE  /\ Frame(lib, FirstHalf(c, time, linked), t) = Frame(lib, c, t)
           /\ Frame(lib, SecondHalf(c, time, now, linked), t) = Frame(lib, c, t)
  <1>0. c.speed = 1 /\ ~c.reversed
    BY DEF Forward
  <1>1. Frame(lib, FirstHalf(c, time, linked), t) = Frame(lib, c, t)
    <2> DEFINE x == FirstHalf(c, time, linked)
    <2>1. /\ x.start = c.start /\ x.speed = c.speed /\ x.trimStart = c.trimStart
          /\ x.kind = c.kind /\ x.asset = c.asset /\ x.take = c.take /\ x.reversed = c.reversed
      BY DEF Timed, IsClip, ClipFields, FirstHalf
    <2> HIDE DEF x
    <2>2. PathOf(lib, x) = PathOf(lib, c)
      BY <2>1, SamePath
    <2>3. Ahead(x, t) = Ahead(c, t)
      BY <2>1 DEF Ahead
    <2>4. Second(lib, x, t) = Second(lib, c, t)
      BY <1>0, <2>1, <2>3, SecondIs
    <2> QED
      BY <2>1, <2>2, <2>4 DEF Frame, x
  <1>2. Frame(lib, SecondHalf(c, time, now, linked), t) = Frame(lib, c, t)
    <2> DEFINE x == SecondHalf(c, time, now, linked)
    <2>1. /\ x.start = time /\ x.speed = 1 /\ x.trimStart = c.trimStart + (time - c.start)
          /\ x.kind = c.kind /\ x.asset = c.asset /\ x.take = c.take /\ x.reversed = c.reversed
      BY <1>0 DEF Timed, IsClip, ClipFields, SecondHalf, Copy
    <2> HIDE DEF x
    <2>2. x.trimStart + (t - x.start) * x.speed = c.trimStart + (t - c.start) * c.speed
      <3>1. c.trimStart \in Int /\ c.start \in Int
        BY DEF Timed, IsClip
      <3>2. (t - time) * 1 = t - time /\ (t - c.start) * 1 = t - c.start
        BY <3>1
      <3> QED
        BY <1>0, <2>1, <3>1, <3>2
    <2>3. PathOf(lib, x) = PathOf(lib, c)
      BY <2>1, SamePath
    <2>4. Second(lib, x, t) = Second(lib, c, t)
      BY <1>0, <2>1, <2>2, SecondIs DEF Ahead
    <2> QED
      BY <2>1, <2>3, <2>4 DEF Frame, x
  <1> QED
    BY <1>1, <1>2

\* The clips of cs that are split with c.
Both(cs, c, time) == {d \in cs : d.id \in c.linked /\ Splits(d, time)}

\* Clips in place of others: each of cs is there or is in two halves.
Halved(new, cs, gone, time, now) ==
    /\ \A x \in new : \/ x \in cs \ gone
                      \/ \E d \in gone : \E linked :
                           x = FirstHalf(d, time, linked) \/ x = SecondHalf(d, time, now, linked)
    /\ \A d \in cs \ gone : d \in new
    /\ \A d \in gone : \E one, two :
         FirstHalf(d, time, one) \in new /\ SecondHalf(d, time, now, two) \in new

LEMMA GroupHalved ==
    ASSUME NEW cs, NEW c, c \in cs, NEW time, NEW now
    PROVE  Halved(SplitGroup(cs, c, time, now), cs, {c} \cup Both(cs, c, time), time, now)
  <1> DEFINE group == {d \in cs : d.id \in c.linked}
             both  == {d \in group : Splits(d, time)}
             news  == {Append(d.id, now) : d \in both}
             gone  == {c} \cup both
             new   == SplitGroup(cs, c, time, now)
  <1>1. both = Both(cs, c, time)
    BY DEF Both
  <1>2. new = (cs \ gone) \cup {FirstHalf(c, time, Ids(group)), SecondHalf(c, time, now, news)}
              \cup {FirstHalf(d, time, {c.id}) : d \in both}
              \cup {SecondHalf(d, time, now, {Append(c.id, now)}) : d \in both}
    BY DEF SplitGroup
  <1> HIDE DEF new, news, both, group
  <1>3. ASSUME NEW x \in new
        PROVE  \/ x \in cs \ gone
               \/ \E d \in gone : \E linked :
                    x = FirstHalf(d, time, linked) \/ x = SecondHalf(d, time, now, linked)
    BY <1>2
  <1>4. \A d \in cs \ gone : d \in new
    BY <1>2
  <1>5. \A d \in gone : \E one, two :
          FirstHalf(d, time, one) \in new /\ SecondHalf(d, time, now, two) \in new
    BY <1>2
  <1> QED
    BY <1>1, <1>3, <1>4, <1>5 DEF Halved, new

\* What is said of the clips of cs once some have been split.
Numbered(cs) == \A c \in cs : Timed(c)
ShowAlike(new, cs) ==
    \A lib, track, t : t \in Int /\ Plain(cs, track, t) =>
      Plain(new, track, t) /\ Shown(lib, new, track, t) = Shown(lib, cs, track, t)

LEMMA PlainIs ==
    ASSUME NEW cs, NEW track, NEW t
    PROVE  Plain(cs, track, t) <=> \A c \in cs : Covers(c, track, t) => Forward(c)
  BY DEF Plain, At, OnTrack, Covers, Forward

HalvedKeep(new, cs, gone, now) ==
    /\ Numbered(new)
    /\ \A x \in new : x \in cs \ gone \/ x.id \in Ids(gone) \/ Derived(x.id, now)
    /\ \A x \in new : x \in cs \ gone \/ \E d \in gone : x.id \in {d.id, Append(d.id, now)}
    /\ Ids(cs) \subseteq Ids(new)
    /\ ShowAlike(new, cs)

LEMMA HalvedShows ==
    ASSUME NEW new, NEW cs, NEW gone, gone \subseteq cs, NEW time, time \in Int, NEW now, now \in Int,
           Halved(new, cs, gone, time, now), Numbered(cs), \A d \in gone : Splits(d, time)
    PROVE  HalvedKeep(new, cs, gone, now)
  <1>1. \A d \in gone : Timed(d) /\ Splits(d, time)
    BY DEF Numbered
  <1>2. ASSUME NEW x \in new, x \notin cs \ gone
        PROVE  \E d \in gone : /\ Timed(x) /\ x.speed = d.speed /\ x.reversed = d.reversed
                               /\ x.id \in {d.id, Append(d.id, now)}
                               /\ Derived(Append(d.id, now), now)
                               /\ \/ HalfOf(x, d, d.start, time) \/ HalfOf(x, d, time, End(d))
                               /\ Forward(d) =>
                                    \A lib, t : t \in Int => Frame(lib, x, t) = Frame(lib, d, t)
    <2>1. PICK d \in gone : \E linked :
             x = FirstHalf(d, time, linked) \/ x = SecondHalf(d, time, now, linked)
      BY <1>2 DEF Halved
    <2>2. PICK linked : x = FirstHalf(d, time, linked) \/ x = SecondHalf(d, time, now, linked)
      BY <2>1
    <2>3. \/ HalfOf(x, d, d.start, time) /\ x.id = d.id
          \/ HalfOf(x, d, time, End(d)) /\ x.id = Append(d.id, now)
      <3>1. /\ HalfOf(FirstHalf(d, time, linked), d, d.start, time)
            /\ HalfOf(SecondHalf(d, time, now, linked), d, time, End(d))
            /\ FirstHalf(d, time, linked).id = d.id
            /\ SecondHalf(d, time, now, linked).id = Append(d.id, now)
        <4>1. TwoHalves(d, time, now, linked)
          BY <1>1, <2>1, HalvesTimed
        <4> QED
          BY <4>1 DEF TwoHalves
      <3> QED
        BY <2>2, <3>1
    <2>4. ASSUME Forward(d), NEW lib, NEW t, t \in Int
          PROVE  Frame(lib, x, t) = Frame(lib, d, t)
      <3>1. /\ Frame(lib, FirstHalf(d, time, linked), t) = Frame(lib, d, t)
            /\ Frame(lib, SecondHalf(d, time, now, linked), t) = Frame(lib, d, t)
        BY <1>1, <2>1, <2>4, HalvesShow
      <3> QED
        BY <2>2, <3>1
    <2>5. Derived(Append(d.id, now), now)
      BY <1>1, <2>1, AppendDerived DEF Timed
    <2> QED
      BY <2>3, <2>4, <2>5 DEF HalfOf
  <1>3. Numbered(new)
    BY <1>2 DEF Numbered
  <1>4. \A x \in new : x \in cs \ gone \/ x.id \in Ids(gone) \/ Derived(x.id, now)
    <2> TAKE x \in new
    <2>1. CASE x \in cs \ gone
      BY <2>1
    <2>2. CASE x \notin cs \ gone
      <3>1. PICK d \in gone : x.id \in {d.id, Append(d.id, now)} /\ Derived(Append(d.id, now), now)
        BY <1>2, <2>2
      <3> QED
        BY <3>1 DEF Ids
    <2> QED
      BY <2>1, <2>2
  <1>5. Ids(cs) \subseteq Ids(new)
    <2> SUFFICES ASSUME NEW d \in cs PROVE \E x \in new : x.id = d.id
      BY DEF Ids
    <2>1. CASE d \in gone
      <3>1. PICK one : FirstHalf(d, time, one) \in new
        BY <2>1 DEF Halved
      <3>2. FirstHalf(d, time, one).id = d.id
        BY <1>1, <2>1, HalvesTimed DEF TwoHalves
      <3> QED
        BY <3>1, <3>2
    <2>2. CASE d \notin gone
      BY <2>2 DEF Halved
    <2> QED
      BY <2>1, <2>2
  <1>6. ShowAlike(new, cs)
    <2>3. ASSUME NEW lib, NEW track, NEW t, t \in Int, Plain(cs, track, t)
          PROVE  Plain(new, track, t) /\ Shown(lib, new, track, t) = Shown(lib, cs, track, t)
      <3>0. \A d \in cs : Covers(d, track, t) => Forward(d)
        BY <2>3, PlainIs
      <3>1. ASSUME NEW x \in new, Covers(x, track, t)
            PROVE  \E d \in cs : /\ Covers(d, track, t) /\ Frame(lib, x, t) = Frame(lib, d, t)
                                 /\ x.speed = d.speed /\ x.reversed = d.reversed
        <4>1. CASE x \in cs \ gone
          BY <3>1, <4>1
        <4>2. CASE x \notin cs \ gone
          <5>1. PICK d \in gone :
                   /\ HalfOf(x, d, d.start, time) \/ HalfOf(x, d, time, End(d))
                   /\ x.speed = d.speed /\ x.reversed = d.reversed
                   /\ Forward(d) => Frame(lib, x, t) = Frame(lib, d, t)
            BY <1>2, <2>3, <4>2
          <5>2. d.start < time /\ time < End(d) /\ d.start \in Int /\ End(d) \in Int
            BY <1>1 DEF Splits, Timed, IsClip, End
          <5>3. Covers(d, track, t)
            BY <2>3, <3>1, <5>1, <5>2 DEF Covers, HalfOf
          <5> QED
            BY <3>0, <5>1, <5>3
        <4> QED
          BY <4>1, <4>2
      <3>2. ASSUME NEW d \in cs, Covers(d, track, t)
            PROVE  \E x \in new : Covers(x, track, t) /\ Frame(lib, x, t) = Frame(lib, d, t)
        <4>1. CASE d \notin gone
          BY <3>2, <4>1 DEF Halved
        <4>2. CASE d \in gone
          <5>1. PICK one, two : FirstHalf(d, time, one) \in new /\ SecondHalf(d, time, now, two) \in new
            BY <4>2 DEF Halved
          <5> DEFINE x == FirstHalf(d, time, one)
                     y == SecondHalf(d, time, now, two)
          <5>2. HalfOf(x, d, d.start, time) /\ HalfOf(y, d, time, End(d))
            BY <1>1, <4>2, HalvesTimed DEF TwoHalves
          <5>3. Frame(lib, x, t) = Frame(lib, d, t) /\ Frame(lib, y, t) = Frame(lib, d, t)
            <6>1. Timed(d) /\ Forward(d)
              BY <1>1, <3>0, <3>2, <4>2
            <6> QED
              BY <2>3, <6>1, HalvesShow
          <5> HIDE DEF x, y
          <5>4. d.start \in Int /\ End(d) \in Int
            BY <1>1, <4>2 DEF Timed, IsClip, End
          <5>5. Covers(x, track, t) \/ Covers(y, track, t)
            BY <2>3, <3>2, <5>2, <5>4 DEF Covers, HalfOf
          <5> QED
            BY <5>1, <5>3, <5>5 DEF x, y
        <4> QED
          BY <4>1, <4>2
      <3> DEFINE X == {Frame(lib, x, t) : x \in {d \in new : Covers(d, track, t)}}
                 Y == {Frame(lib, x, t) : x \in {d \in cs : Covers(d, track, t)}}
      <3>3. X = Y
        BY <3>1, <3>2
      <3>4. Shown(lib, new, track, t) = X /\ Shown(lib, cs, track, t) = Y
        BY ShownIs
      <3>5. Plain(new, track, t)
        BY <3>0, <3>1, PlainIs DEF Forward
      <3> HIDE DEF X, Y
      <3> QED
        BY <3>3, <3>4, <3>5
    <2> QED
      BY <2>3 DEF ShowAlike
  <1>7. \A x \in new : x \in cs \ gone \/ \E d \in gone : x.id \in {d.id, Append(d.id, now)}
    BY <1>2
  <1> QED
    BY <1>3, <1>4, <1>5, <1>6, <1>7 DEF HalvedKeep

\* A batch of a timeline's clips, by their ids.
Batched(batch, cs, time, now) ==
    /\ Indices(DOMAIN batch)
    /\ \A i \in DOMAIN batch : /\ ~Derived(batch[i], now)
                              /\ \E b \in cs : b.id = batch[i] /\ Splits(b, time)

(***************************************************************************)
(* Splitting a batch of clips, each with the clips linked to it, changes   *)
(* nothing that is shown wherever there are only clips that play forwards  *)
(* at normal speed, whatever the speed of others (splitClipsAtTime).       *)
(***************************************************************************)
THEOREM SplitsShow ==
    ASSUME NEW cs, NEW batch, NEW time, time \in Int, NEW now, now \in Int,
           Numbered(cs), Unique(cs), Batched(batch, cs, time, now)
    PROVE  ShowAlike(SplitEach(cs, batch, time, now), cs)
  <1> DEFINE D == DOMAIN batch
             base == [cs |-> cs, done |-> {}]
             Good(s) == /\ Numbered(s.cs) /\ ShowAlike(s.cs, cs)
                        /\ Ids(cs) \subseteq Ids(s.cs)
                        /\ \A x \in s.cs : x \in cs \/ x.id \in s.done \/ Derived(x.id, now)
  <1>1. PICK g : /\ Folds(g, D, FALSE, base, batch, time, now)
                 /\ SplitEach(cs, batch, time, now) = g[D].cs
    <2>1. Indices(DOMAIN batch)
      BY DEF Batched
    <2> QED
      BY <2>1, SplitsFold
  <1>2. IsFiniteSet(D) /\ \A U \in SUBSET D : U # {} => Max(U) \in U
    BY DEF Indices, Batched
  <1>3. \A i \in D : ~Derived(batch[i], now) /\ \E b \in cs : b.id = batch[i] /\ Splits(b, time)
    BY DEF Batched
  <1> HIDE DEF D
  <1> DEFINE B == {U \in SUBSET D : ~Good(g[U])}
  <1>4. SUFFICES ASSUME B # {} PROVE FALSE
    BY <1>1
  <1>5. PICK U \in B : \A W \in B : W \subseteq U => W = U
    <2>1. B \in SUBSET (SUBSET D)
      OBVIOUS
    <2> HIDE DEF B
    <2> QED
      BY <1>2, <1>4, <2>1, LeastSet
  <1>6. U # {}
    <2>1. g[{}] = base
      BY <1>1 DEF Folds
    <2>2. Good(base)
      BY DEF ShowAlike
    <2> HIDE DEF Good
    <2> QED
      BY <1>5, <2>1, <2>2
  <1> DEFINE m == Max(U)
             s == g[U \ {m}]
             id == batch[m]
             c == ClipOf(s.cs, id)
             t == SplitOne(s, id, time, now)
  <1>7. m \in U /\ m \in D /\ g[U] = t
    BY <1>1, <1>2, <1>5, <1>6 DEF Folds, StepOf
  <1> HIDE DEF m
  <1>8. Good(s)
    <2> HIDE DEF Good
    <2> QED
      BY <1>5, <1>7
  <1>9. PICK b \in cs : b.id = id /\ Splits(b, time) /\ ~Derived(id, now)
    BY <1>3, <1>7
  <1> HIDE DEF s, id
  <1>10. Good(t)
    <2>1. CASE id \in s.done
      <3>1. t = s
        BY <2>1 DEF SplitOne
      <3> HIDE DEF Good, t
      <3> QED
        BY <1>8, <3>1
    <2>2. CASE id \notin s.done
      <3> DEFINE gone == {c} \cup Both(s.cs, c, time)
                 new == SplitGroup(s.cs, c, time, now)
      <3>1. t.cs = new /\ t.done = s.done \cup {id} \cup c.linked
        BY <2>2 DEF SplitOne
      <3>2. c \in s.cs /\ c.id = id
        <4>1. id \in Ids(cs) /\ Ids(cs) \subseteq Ids(s.cs)
          BY <1>8, <1>9 DEF Ids
        <4> HIDE DEF Good
        <4>2. \E x \in s.cs : x.id = id
          BY <4>1 DEF Ids
        <4> QED
          BY <4>2 DEF ClipOf
      <3> HIDE DEF c, t
      <3>3. c = b
        BY <1>8, <1>9, <2>2, <3>2 DEF Unique
      <3>4. gone \subseteq s.cs /\ \A d \in gone : Splits(d, time)
        BY <1>9, <3>2, <3>3 DEF Both
      <3>5. Halved(new, s.cs, gone, time, now)
        BY <3>2, GroupHalved
      <3>6. Ids(gone) \subseteq {id} \cup c.linked
        BY <3>2 DEF Ids, Both
      <3> HIDE DEF new, gone
      <3>7. /\ Numbered(new)
            /\ \A x \in new : x \in s.cs \ gone \/ x.id \in Ids(gone) \/ Derived(x.id, now)
            /\ Ids(s.cs) \subseteq Ids(new)
            /\ ShowAlike(new, s.cs)
        <4>1. Numbered(s.cs)
          BY <1>8
        <4>2. HalvedKeep(new, s.cs, gone, now)
          BY <3>4, <3>5, <4>1, HalvedShows
        <4> QED
          BY <1>8, <4>2 DEF HalvedKeep
      <3>8. ShowAlike(new, cs)
        BY <1>8, <3>7 DEF ShowAlike
      <3>9. \A x \in new : x \in cs \/ x.id \in t.done \/ Derived(x.id, now)
        BY <1>8, <3>1, <3>6, <3>7
      <3> QED
        BY <1>8, <3>1, <3>7, <3>8, <3>9
    <2> QED
      BY <2>1, <2>2
  <1> HIDE DEF Good, t
  <1> QED
    BY <1>5, <1>7, <1>10

-----------------------------------------------------------------------------
(* The steps that put clips on a track.                                       *)

\* A clip that was made has an id that is a list, and no id of this handler's.
LEMMA MadeIds ==
    ASSUME IInv
    PROVE  /\ \A id \in Made(Now) : id \in Seq(Int) \ {<<>>}
           /\ \A id \in Made(minted) : id \notin New /\ ~Derived(id, Now)
           /\ \A id \in New : id \in Seq(Int) \ {<<>>} /\ ~Derived(id, Now)
           /\ <<Now>> # <<Now, 0>> /\ Now \in Int
  <1>1. minted \in Nat /\ Now = minted + 1
    BY DEF IInv, Now
  <1> DEFINE n == Now
             S == {k \in Int : k <= minted}
             T == {k \in Int : k <= n}
  <1>2. n \in Int /\ n \notin S /\ n # 0 /\ S \subseteq Int /\ T \subseteq Int
    BY <1>1
  <1>3. Made(minted) = Seq(S) \ {<<>>} /\ Made(Now) = Seq(T) \ {<<>>}
    BY DEF Made
  <1>4. Seq(S) \subseteq Seq(Int) /\ Seq(T) \subseteq Seq(Int)
    BY <1>2
  <1>5. <<n>> \in Seq(Int) \ {<<>>} /\ <<n, 0>> \in Seq(Int) \ {<<>>} /\ <<n>> # <<n, 0>>
    BY <1>2
  <1>6. ~Derived(<<n>>, n) /\ ~Derived(<<n, 0>>, n)
    BY <1>2 DEF Derived
  <1>7. ASSUME NEW id, id \in Seq(S) \ {<<>>} PROVE id # <<n>> /\ id # <<n, 0>> /\ ~Derived(id, n)
    <2>1. id[1] \in S /\ id[Len(id)] \in S
      BY <1>7
    <2>2. <<n>>[1] = n /\ <<n, 0>>[1] = n
      OBVIOUS
    <2> HIDE DEF S, n
    <2> QED
      BY <1>2, <2>1, <2>2 DEF Derived
  <1>8. New = {<<n>>, <<n, 0>>}
    BY DEF New
  <1> HIDE DEF S, T
  <1>9. \A id \in Made(Now) : id \in Seq(Int) \ {<<>>}
    BY <1>3, <1>4
  <1>10. \A id \in Made(minted) : id # <<n>> /\ id # <<n, 0>> /\ ~Derived(id, n)
    BY <1>3, <1>7
  <1> QED
    BY <1>2, <1>5, <1>6, <1>8, <1>9, <1>10

LEMMA ClipsTimed ==
    ASSUME IInv, Open
    PROVE  \A c \in clips : Timed(c) /\ c.id \in Made(minted)
  BY HereIsLine, MadeBefore, MadeIds DEF Fits, Shaped, Timed

\* The one version a handler sets, and the timeline in it that stays open.
LEMMA OneSet ==
    ASSUME NEW tool, NEW d, Edit(tool, <<d>>)
    PROVE  doc' = d /\ did' = tool
  <1>1. <<d>> \in Seq({d}) /\ Len(<<d>>) = 1 /\ <<d>>[1] = d
    OBVIOUS
  <1> QED
    BY <1>1 DEF Edit, Record, Last

LEMMA LineStays ==
    ASSUME IInv, Open, NEW line, line.id = Here.id, doc' = With(line), UNCHANGED active
    PROVE  Current' = Current /\ Here' = line /\ assets' = assets
  <1> DEFINE new == [doc.lines EXCEPT ![Current] = line]
  <1>1. Current \in DOMAIN doc.lines
    BY HereIsLine
  <1>2. doc'.lines = new /\ doc'.assets = doc.assets
    BY DocIsProject DEF With
  <1>3. DOMAIN new = DOMAIN doc.lines /\ new[Current] = line
        /\ \A i \in DOMAIN new : new[i].id = doc.lines[i].id
    BY <1>1 DEF Here
  <1> HIDE DEF new
  <1>4. (\E i \in DOMAIN new : new[i].id = active) <=> \E i \in DOMAIN doc.lines : doc.lines[i].id = active
    BY <1>3
  <1>5. (CHOOSE i \in DOMAIN new : new[i].id = active) = CHOOSE i \in DOMAIN doc.lines : doc.lines[i].id = active
    BY <1>3
  <1>6. Current' = Current
    BY <1>2, <1>4, <1>5 DEF Current
  <1> QED
    BY <1>2, <1>3, <1>6 DEF Here, assets

\* What a handler sets: the clips cs, with those of put put over the others.
Puts(cs, put, moved) ==
    /\ Indices(DOMAIN moved) /\ Whole(cs, put, moved) /\ Unique(put)
    /\ \A id \in ToSet(moved) : ~Derived(id, Now)
    /\ clips' = ResolveOverlaps(cs, moved, Now)

LEMMA PutsCover ==
    ASSUME IInv, NEW cs, NEW put, NEW moved, Puts(cs, put, moved)
    PROVE  /\ Covered(put, cs \ put)
           /\ Whole(clips', put, moved) /\ Traced(clips', cs, put, Now)
  <1> DEFINE new == ResolveOverlaps(cs, moved, Now)
  <1>1. clips' = new
    BY DEF Puts
  <1>2. /\ Whole(new, put, moved) /\ Traced(new, cs, put, Now)
        /\ Overlaid(new, put, cs \ put)
    <2>1. /\ Indices(DOMAIN moved) /\ Whole(cs, put, moved) /\ Unique(put) /\ Now \in Int
          /\ \A id \in ToSet(moved) : ~Derived(id, Now)
      BY MadeIds DEF Puts
    <2> QED
      BY <2>1, OverlapsShow
  <1>3. \A t \in Until : t \in Int
    BY DEF Until
  <1> HIDE DEF new
  <1>4. Covered(put, cs \ put)
    <2> SUFFICES ASSUME NEW track \in DOMAIN Here'.tracks, NEW t \in Until,
                        ~Torn(cs \ put, put, track, t)
                 PROVE  Shown(assets', clips', track, t) =
                          IF Shown(assets', put, track, t) # {} THEN Shown(assets', put, track, t)
                          ELSE Shown(assets', cs \ put, track, t)
      BY DEF Covered
    <2> QED
      BY <1>1, <1>2, <1>3 DEF Overlaid
  <1> QED
    BY <1>1, <1>2, <1>4

\* Clips that are new, of one handler.
PutsNew(new, moved) ==
    /\ moved \in {<<<<Now>>>>, <<<<Now>>, <<Now, 0>>>>}
    /\ Unique(new) /\ \A c \in new : Timed(c) /\ c.id \in ToSet(moved)
    /\ clips' = ResolveOverlaps(clips \cup new, moved, Now)

LEMMA ShortSets ==
    \A x, y : ToSet(<<x>>) = {x} /\ ToSet(<<x, y>>) = {x, y}
  BY DEF ToSet

LEMMA NewCover ==
    ASSUME IInv, Open, NEW new, NEW moved, PutsNew(new, moved)
    PROVE  Covered({c \in clips' : c.id \in New}, clips)
  <1> DEFINE cs == clips \cup new
  <1>1. ToSet(moved) \subseteq New /\ Indices(DOMAIN moved)
    BY ShortSets, ShortIndices DEF PutsNew, New
  <1>2. \A c \in clips : Timed(c) /\ c.id \notin New /\ ~Derived(c.id, Now)
    BY ClipsTimed, MadeIds
  <1>3. Whole(cs, new, moved)
    BY <1>1, <1>2 DEF PutsNew, Whole
  <1>4. cs \ new = clips
    BY <1>1, <1>2 DEF PutsNew
  <1>5. Puts(cs, new, moved)
    BY <1>1, <1>3, MadeIds DEF PutsNew, Puts
  <1> HIDE DEF cs
  <1>6. Covered(new, clips) /\ Whole(clips', new, moved) /\ Traced(clips', cs, new, Now)
    BY <1>4, <1>5, PutsCover
  <1>7. new = {c \in clips' : c.id \in New}
    <2>1. ASSUME NEW c \in clips', c.id \in New PROVE c \in new
      <3>1. SUFFICES ASSUME c \notin new PROVE FALSE
        OBVIOUS
      <3>2. c.id \in Ids(clips) \/ Derived(c.id, Now)
        BY <1>4, <1>6, <2>1, <3>1 DEF Traced
      <3> QED
        BY <1>2, <2>1, <3>2, MadeIds DEF Ids
    <2>2. \A c \in new : c \in clips' /\ c.id \in New
      BY <1>1, <1>6 DEF Whole
    <2> QED
      BY <2>1, <2>2
  <1> QED
    BY <1>6, <1>7

LEMMA NewClipTimed ==
    ASSUME IInv, NEW id \in New, NEW kind, NEW a, NEW track, NEW start, start \in Int,
           NEW dur, dur \in Int, NEW linked
    PROVE  LET c == NewClip(id, kind, a, track, start, dur, linked) IN Timed(c) /\ c.id = id
  <1>1. id \in Made(Now)
    BY MadeLater DEF IInv, New
  <1> QED
    BY <1>1, NewClipFits, MadeIds DEF Shaped, Timed

\* One clip of each id of a handler.
LEMMA TwoNew ==
    ASSUME IInv, NEW one, Timed(one), one.id = <<Now>>, NEW two, Timed(two), two.id = <<Now, 0>>,
           NEW new \in SUBSET {one, two}
    PROVE  Unique(new) /\ \A c \in new : Timed(c) /\ c.id \in ToSet(<<<<Now>>, <<Now, 0>>>>)
  <1>1. one.id # two.id
    BY MadeIds
  <1>2. Unique(new)
    BY <1>1 DEF Unique
  <1>3. ToSet(<<<<Now>>, <<Now, 0>>>>) = {<<Now>>, <<Now, 0>>}
    BY ShortSets
  <1> QED
    BY <1>2, <1>3

LEMMA DropPuts ==
    ASSUME IInv, NEW a \in DOMAIN assets, NEW track \in DOMAIN tracks, NEW time, time \in Int,
           DropAsset(a, track, time)
    PROVE  \E new, moved : PutsNew(new, moved)
  <1> DEFINE kind  == assets[a].kind
             below == FirstTrack({"audio"}, IF kind = "video" THEN track ELSE 0)
             any   == IF below = None THEN FirstTrack({"audio"}, 0) ELSE below
             home  == IF kind = "audio" /\ tracks[track].kind = "audio" THEN track ELSE any
             added == kind # "image" /\ home = None
             all   == IF added THEN Append(tracks, NewTrack("audio")) ELSE tracks
             sounds == kind # "image"
             looks == kind # "audio" /\ tracks[track].patched
             both  == looks /\ sounds
             seen  == NewClip(<<Now>>, kind, a, track, time, assets[a].dur,
                              IF both THEN {<<Now, 0>>} ELSE {})
             heard == NewClip(<<Now, 0>>, "audio", a, IF added THEN Len(all) ELSE home, time,
                              assets[a].dur, IF both THEN {<<Now>>} ELSE {})
             new   == (IF looks THEN {seen} ELSE {}) \cup (IF sounds THEN {heard} ELSE {})
             moved == <<<<Now>>, <<Now, 0>>>>
             line  == [Here EXCEPT !.tracks = all, !.clips = ResolveOverlaps(clips \cup new, moved, Now)]
  <1>1. Open /\ Edit("drop", <<With(line)>>) /\ UNCHANGED active
    BY DEF DropAsset, session
  <1>2. assets[a].dur \in Int /\ <<Now>> \in New /\ <<Now, 0>> \in New
    BY AssetDur DEF New
  <1> HIDE DEF kind, added, all, home, both
  <1>3. Timed(seen) /\ seen.id = <<Now>>
    BY <1>2, NewClipTimed
  <1>4. Timed(heard) /\ heard.id = <<Now, 0>>
    BY <1>2, NewClipTimed
  <1>5. new \in SUBSET {seen, heard}
    OBVIOUS
  <1> HIDE DEF seen, heard, looks, sounds, new
  <1>6. Unique(new) /\ \A c \in new : Timed(c) /\ c.id \in ToSet(moved)
    BY <1>3, <1>4, <1>5, TwoNew
  <1>7. line.id = Here.id /\ line.clips = ResolveOverlaps(clips \cup new, moved, Now)
    BY <1>1, HereIsLine
  <1> HIDE DEF line
  <1>8. clips' = ResolveOverlaps(clips \cup new, moved, Now)
    <2>1. doc' = With(line)
      BY <1>1, OneSet
    <2>2. Here' = line
      BY <1>1, <1>7, <2>1, LineStays
    <2> QED
      BY <1>7, <2>2 DEF clips
  <1> QED
    BY <1>6, <1>8 DEF PutsNew

\* A handler that sets the clips of the timeline that is open.
LEMMA ClipsSet ==
    ASSUME IInv, Open, NEW tool, NEW cs, Edit(tool, <<WithClips(cs)>>), UNCHANGED active
    PROVE  clips' = cs /\ assets' = assets /\ tracks' = tracks
  <1> DEFINE line == [Here EXCEPT !.clips = cs]
  <1>1. line.id = Here.id /\ line.clips = cs /\ line.tracks = tracks
    BY HereIsLine DEF tracks
  <1>2. doc' = With(line)
    BY OneSet DEF WithClips
  <1> HIDE DEF line
  <1>3. Here' = line /\ assets' = assets
    BY <1>1, <1>2, LineStays
  <1> QED
    BY <1>1, <1>3 DEF clips, tracks

LEMMA OverwritePuts ==
    ASSUME IInv, NEW a \in DOMAIN assets, NEW in, in \in Int, NEW out, out \in Int,
           NEW time, time \in Int, OverwriteSource(a, in, out, time)
    PROVE  \E new, moved : PutsNew(new, moved)
  <1> DEFINE kind  == assets[a].kind
             video == FirstTrack({"video", "subtitle"}, 0)
             audio == FirstTrack({"audio"}, 0)
             both  == kind = "video" /\ audio # None
             Part(c) == [c EXCEPT !.trimStart = in, !.trimEnd = assets[a].dur - out]
             one   == NewClip(<<Now>>, kind, a, video, time, out - in,
                              IF both THEN {<<Now, 0>>} ELSE {})
             two   == NewClip(<<Now, 0>>, "audio", a, audio, time, out - in,
                              IF both THEN {<<Now>>} ELSE {})
             new   == SourceClips(a, in, out, time)
             moved == <<<<Now>>, <<Now, 0>>>>
  <1>1. Open /\ Edit("overwrite", <<WithClips(ResolveOverlaps(clips \cup new, moved, Now))>>)
        /\ UNCHANGED active
    BY DEF OverwriteSource, EditClips, session
  <1>2. out - in \in Int /\ assets[a].dur - out \in Int /\ <<Now>> \in New /\ <<Now, 0>> \in New
    BY AssetDur DEF New
  <1>3. new \in SUBSET {Part(one), Part(two)}
    BY DEF SourceClips
  <1> HIDE DEF kind, video, audio, both, new
  <1>4. Timed(one) /\ one.id = <<Now>> /\ Timed(two) /\ two.id = <<Now, 0>>
    BY <1>2, NewClipTimed
  <1> HIDE DEF one, two
  <1>5. \A c \in {one, two} : Timed(Part(c)) /\ Part(c).id = c.id
    BY <1>2, <1>4 DEF Timed, IsClip, ClipFields
  <1> HIDE DEF Part
  <1>6. Unique(new) /\ \A c \in new : Timed(c) /\ c.id \in ToSet(moved)
    BY <1>3, <1>4, <1>5, TwoNew
  <1>7. clips' = ResolveOverlaps(clips \cup new, moved, Now)
    BY <1>1, ClipsSet
  <1> QED
    BY <1>6, <1>7 DEF PutsNew

LEMMA TextPuts ==
    ASSUME IInv, NEW time, time \in Int, NEW dur, dur \in Int, AddText(time, dur)
    PROVE  \E new, moved : PutsNew(new, moved)
  <1> DEFINE rows == {i \in DOMAIN tracks : tracks[i].kind = "video"}
             row  == IF rows = {} THEN 1 ELSE Max(rows)
             text == NewClip(<<Now>>, "text", None, row, time, dur, {})
             new  == {text}
             moved == <<<<Now>>>>
  <1>1. Open /\ Edit("text", <<WithClips(ResolveOverlaps(clips \cup new, <<text.id>>, Now))>>)
        /\ UNCHANGED active
    BY DEF AddText, EditClips, session
  <1> HIDE DEF row
  <1>2. Timed(text) /\ text.id = <<Now>>
    BY NewClipTimed DEF New
  <1> HIDE DEF text
  <1>3. clips' = ResolveOverlaps(clips \cup new, moved, Now)
    BY <1>1, <1>2, ClipsSet
  <1>4. Unique(new) /\ \A c \in new : Timed(c) /\ c.id \in ToSet(moved)
    BY <1>2, ShortSets DEF Unique
  <1> QED
    BY <1>3, <1>4 DEF PutsNew

\* Every order of finitely many things holds all of them.
LEMMA OrderHolds ==
    ASSUME NEW S, IsFiniteSet(S), NEW order \in SetToSeqs(S)
    PROVE  ToSet(order) = S
  <1> DEFINE D == 1..Cardinality(S)
  <1>1. Cardinality(S) \in Nat
    BY FS_CardinalityType
  <1>2. IsFiniteSet(D) /\ Cardinality(D) = Cardinality(S)
    BY <1>1, FS_Interval
  <1>3. order \in [D -> S] /\ \A i, j \in D : i # j => order[i] # order[j]
    BY DEF SetToSeqs
  <1> HIDE DEF D
  <1>4. order \in Injection(D, S)
    BY <1>3 DEF Injection, IsInjective
  <1>5. order \in Surjection(D, S)
    BY <1>2, <1>4, FS_Injection
  <1> QED
    BY <1>3, <1>5 DEF Surjection, ToSet

\* Clips the mouse lets go of lie where it showed them, over the others.
LEMMA DragCovers ==
    ASSUME IInv, Drop, Unique(clips)
    PROVE  Covered({Placed(c) : c \in {d \in clips : d.id \in DOMAIN gesture.to}},
                   {c \in clips : c.id \notin DOMAIN gesture.to})
  <1>1. PICK order \in SetToSeqs(DOMAIN gesture.to) :
          CommitMove("drag", ResolveOverlaps(Mapped(Placed), order, Now))
    BY DEF Drop
  <1> DEFINE ids == DOMAIN gesture.to
             cs == {Placed(c) : c \in clips}
             put == {Placed(c) : c \in {d \in clips : d.id \in ids}}
             kept == {c \in clips : c.id \notin ids}
  <1>2. Open /\ gesture.tool = "drag" /\ gesture # None
    BY DEF Drop
  <1>3. clips' = ResolveOverlaps(cs, order, Now)
    <2>1. Edit("drag", <<WithClips(ResolveOverlaps(cs, order, Now))>>) /\ UNCHANGED active
      BY <1>1 DEF CommitMove, Mapped
    <2> QED
      BY <1>2, <2>1, ClipsSet
  <1>4. /\ IsFiniteSet(ids) /\ \A id \in ids : gesture.to[id].start \in Int /\ ~Derived(id, Now)
    BY <1>2, MadeIds DEF IInv, HeldClips
  <1>5. ToSet(order) = ids /\ Indices(DOMAIN order)
    <2>1. Indices(DOMAIN order)
      BY <1>4, OrderIndices
    <2>2. ToSet(order) = ids
      BY <1>4, OrderHolds
    <2> QED
      BY <2>1, <2>2
  <1>6. \A c \in clips : /\ Timed(Placed(c)) /\ Placed(c).id = c.id
                         /\ c.id \notin ids => Placed(c) = c
    <2> TAKE c \in clips
    <2>1. Timed(c)
      BY <1>2, ClipsTimed
    <2>2. CASE c.id \notin ids
      BY <2>1, <2>2 DEF Placed
    <2>3. CASE c.id \in ids
      <3> DEFINE s == gesture.to[c.id].start
                 r == gesture.to[c.id].track
      <3>1. s \in Int /\ Placed(c) = [c EXCEPT !.start = s, !.track = r]
        BY <1>4, <2>3 DEF Placed
      <3> HIDE DEF s, r
      <3> QED
        BY <2>1, <2>3, <3>1 DEF Timed, IsClip, ClipFields
    <2> QED
      BY <2>2, <2>3
  <1> HIDE DEF ids
  <1>7. \A d \in cs : \E c \in clips : d = Placed(c) /\ Timed(d) /\ d.id = c.id
    BY <1>6
  <1>8. put = {d \in cs : d.id \in ids} /\ cs \ put = kept
    BY <1>6
  <1>9. Unique(put)
    BY <1>6 DEF Unique
  <1> HIDE DEF put, kept
  <1>10. Whole(cs, put, order)
    BY <1>5, <1>7, <1>8 DEF Whole
  <1>11. Puts(cs, put, order)
    BY <1>3, <1>4, <1>5, <1>9, <1>10 DEF Puts
  <1> HIDE DEF cs
  <1>12. Covered(put, kept)
    BY <1>8, <1>11, PutsCover
  <1> QED
    BY <1>12 DEF put, kept, ids

-----------------------------------------------------------------------------
(* Which handler a name in did stands for.                                    *)

\* The handlers of which more is said than that they keep the invariant.
Named == {"drag", "drop", "overwrite", "text", "split", "untake"}

Nameless == did' \notin Named \/ UNCHANGED minted

LEMMA NameOf ==
    ASSUME NEW tool, NEW news, Edit(tool, news)
    PROVE  did' = tool
  BY DEF Edit

LEMMA NameOfClips ==
    ASSUME NEW tool, NEW cs, EditClips(tool, cs)
    PROVE  did' = tool
  BY NameOf DEF EditClips

LEMMA NamesPlace ==
    ASSUME PlaceAsset
    PROVE  \/ Nameless
           \/ did' = "drop" /\ \E a \in DOMAIN assets, track \in DOMAIN tracks, time \in Times :
                                 DropAsset(a, track, time)
           \/ did' = "overwrite" /\ \E a \in DOMAIN assets, in \in {0, 1}, time \in Times :
                                      OverwriteSource(a, in, assets[a].dur, time)
           \/ did' = "text" /\ \E time \in Times : AddText(time, TextDur)
  <1>1. ASSUME NEW a, NEW track, NEW time, DropAsset(a, track, time)
        PROVE  did' = "drop"
    BY <1>1, NameOf DEF DropAsset
  <1>2. ASSUME NEW a, NEW in, NEW out, NEW time, InsertSource(a, in, out, time)
        PROVE  Nameless
    <2>1. did' = "insert"
      BY <1>2, NameOfClips DEF InsertSource
    <2> QED
      BY <2>1 DEF Nameless, Named
  <1>3. ASSUME NEW a, NEW in, NEW out, NEW time, OverwriteSource(a, in, out, time)
        PROVE  did' = "overwrite"
    BY <1>3, NameOfClips DEF OverwriteSource
  <1>4. ASSUME NEW time, NEW dur, AddText(time, dur)
        PROVE  did' = "text"
    BY <1>4, NameOfClips DEF AddText
  <1>5. ASSUME NEW i, NEW track, NEW time, FlattenTimeline(i, track, time)
        PROVE  Nameless
    <2>1. did' = "flatten"
      BY <1>5, NameOfClips DEF FlattenTimeline
    <2> QED
      BY <2>1 DEF Nameless, Named
  <1> QED
    BY <1>1, <1>2, <1>3, <1>4, <1>5 DEF PlaceAsset

LEMMA NamesEdit ==
    ASSUME EditSome
    PROVE  Nameless
  <1>1. did' \in {"duplicate", "unlink", "remove", "speed", "reverse", "take"}
    BY NameOfClips DEF EditSome, DuplicateClip, UnlinkClipGroup, RemoveClip, SetSpeed, ReverseClips,
                       StepTake
  <1> QED
    BY <1>1 DEF Nameless, Named

LEMMA NamesTracks ==
    ASSUME EditTracks
    PROVE  Nameless
  <1>1. ASSUME NEW kind, AddTrack(kind) PROVE did' = "track"
    BY <1>1, NameOf DEF AddTrack
  <1>2. ASSUME NEW i, ToggleTrackLock(i) PROVE did' = "lock"
    BY <1>2, NameOf DEF ToggleTrackLock
  <1>3. ASSUME NEW i, DeleteTrack(i) PROVE did' = "untrack"
    BY <1>3, NameOf DEF DeleteTrack
  <1>4. ASSUME NEW i, NEW time, NEW dur, AddSubtitle(i, time, dur) PROVE did' = "cue"
    BY <1>4, NameOf DEF AddSubtitle
  <1>5. ASSUME AddSubtitleTrack PROVE did' = "subtitle"
    BY <1>5, NameOf DEF AddSubtitleTrack
  <1>6. ASSUME NEW cues, ImportSrtCues(cues) PROVE did' = "cues"
    BY <1>6, NameOf DEF ImportSrtCues
  <1>7. ASSUME NEW s, DeleteSubtitle(s) PROVE did' = "uncue"
    BY <1>7, NameOf DEF DeleteSubtitle
  <1>8. ASSUME NEW gap, CloseGap(gap) PROVE did' = "gap"
    BY <1>8, NameOf DEF CloseGap
  <1>9. did' \in {"track", "lock", "untrack", "cue", "subtitle", "cues", "uncue", "gap"}
    BY <1>1, <1>2, <1>3, <1>4, <1>5, <1>6, <1>7, <1>8 DEF EditTracks
  <1> QED
    BY <1>9 DEF Nameless, Named

LEMMA NamesAssets ==
    ASSUME EditAssets
    PROVE  \/ Nameless
           \/ did' = "untake" /\ \E a \in DOMAIN assets : \E take \in DOMAIN assets[a].takes :
                                   DeleteAssetTake(a, take)
  <1>1. ASSUME NEW a, AddAsset(a) PROVE did' = "asset"
    BY <1>1, NameOf DEF AddAsset
  <1>2. ASSUME NEW gone, DeleteAssets(gone) PROVE did' = "unasset"
    BY <1>2, NameOf DEF DeleteAssets
  <1>3. ASSUME NEW a, UngroupTakes(a) PROVE did' = "ungroup"
    BY <1>3, NameOf DEF UngroupTakes
  <1>4. ASSUME NEW a, NEW take, DeleteAssetTake(a, take) PROVE did' = "untake"
    BY <1>4, NameOf DEF DeleteAssetTake
  <1>5. ASSUME NEW a, NEW take, SetAssetActiveTake(a, take) PROVE did' = "active"
    BY <1>5, NameOf DEF SetAssetActiveTake
  <1>6. ASSUME NEW a, NEW b, GroupTakes(a, b) PROVE did' = "group"
    BY <1>6, NameOf DEF GroupTakes
  <1>7. \/ did' \in {"asset", "unasset", "ungroup", "active", "group"}
        \/ did' = "untake" /\ \E a \in DOMAIN assets : \E take \in DOMAIN assets[a].takes :
                                DeleteAssetTake(a, take)
    BY <1>1, <1>2, <1>3, <1>4, <1>5, <1>6 DEF EditAssets
  <1> QED
    BY <1>7 DEF Nameless, Named

LEMMA NamesTimelines ==
    ASSUME EditTimelines
    PROVE  Nameless
  <1>1. ASSUME NEW tool, NEW line, NEW d, OpenLine(tool, line, d) PROVE did' = tool
    BY <1>1, NameOf DEF OpenLine
  <1>2. ASSUME NEW i, DuplicateTimeline(i) PROVE did' = "copyline"
    BY <1>1, <1>2 DEF DuplicateTimeline
  <1>3. ASSUME NEW a, NEW dur, ImportTimeline(a, dur) PROVE did' = "import"
    BY <1>1, <1>3 DEF ImportTimeline
  <1>4. ASSUME CreateTimeline PROVE did' = "create"
    BY <1>1, <1>4 DEF CreateTimeline
  <1>5. ASSUME NEW i, DeleteTimeline(i) PROVE did' = "unline"
    BY <1>5, NameOf DEF DeleteTimeline
  <1>6. ASSUME NEW i, SwitchActiveTimeline(i) PROVE UNCHANGED minted
    BY <1>6 DEF SwitchActiveTimeline, counts
  <1>7. did' \in {"copyline", "import", "create", "unline"} \/ UNCHANGED minted
    BY <1>2, <1>3, <1>4, <1>5, <1>6 DEF EditTimelines
  <1> QED
    BY <1>7 DEF Nameless, Named

LEMMA NamesClipboard ==
    ASSUME UseClipboard \/ \E selected : DeleteSelected(selected)
    PROVE  Nameless
  <1>1. ASSUME NEW selected, CopySelection(selected) PROVE UNCHANGED minted
    BY <1>1 DEF CopySelection, counts
  <1>2. ASSUME NEW selected, CutSelection(selected) PROVE did' = "cut"
    BY <1>2, NameOf DEF CutSelection
  <1>3. ASSUME NEW time, PasteSelection(time) PROVE did' = "paste"
    BY <1>3, NameOfClips DEF PasteSelection
  <1>4. ASSUME NEW selected, DeleteSelected(selected) PROVE did' = "delete"
    BY <1>4, NameOfClips DEF DeleteSelected
  <1>5. did' \in {"cut", "paste", "delete"} \/ UNCHANGED minted
    BY <1>1, <1>2, <1>3, <1>4 DEF UseClipboard
  <1> QED
    BY <1>5 DEF Nameless, Named

LEMMA NamesGesture ==
    ASSUME Gesture
    PROVE  Nameless \/ (did' = "drag" /\ Drop)
  <1>1. ASSUME NEW tool, NEW cs, CommitMove(tool, cs) PROVE did' = tool
    BY <1>1, NameOf DEF CommitMove
  <1>2. ASSUME NEW c, NEW held, NEW by, NEW rows, Grab(c, held, by, rows) PROVE UNCHANGED minted
    BY <1>2 DEF Grab, counts
  <1>3. ASSUME NEW c, NEW held, NEW by, NEW rows, GrabCopies(c, held, by, rows) PROVE did' = "copies"
    BY <1>3, NameOf DEF GrabCopies
  <1>4. ASSUME NEW c, NEW edge, NEW tool, StartTrim(c, edge, tool) PROVE UNCHANGED minted
    BY <1>4 DEF StartTrim, counts
  <1>5. ASSUME NEW c, NEW tool, StartSlip(c, tool) PROVE UNCHANGED minted
    BY <1>5 DEF StartSlip, counts
  <1>6. Drop => did' = "drag"
    BY <1>1 DEF Drop
  <1>7. EndTrim => did' = "trimmed"
    BY <1>1 DEF EndTrim
  <1>8. EndSlip => UNCHANGED minted
    BY DEF EndSlip, counts
  <1>9. ASSUME NEW by, MoveTrim(by) PROVE did' = "trim"
    BY <1>1, <1>9 DEF MoveTrim
  <1>10. ASSUME NEW by, MoveSlip(by) PROVE did' = "slip"
    BY <1>1, <1>10 DEF MoveSlip
  <1>11. ASSUME NEW by, MoveSlide(by) PROVE did' = "slide"
    BY <1>1, <1>11 DEF MoveSlide
  <1>12. \/ did' \in {"copies", "trimmed", "trim", "slip", "slide"} \/ UNCHANGED minted
         \/ did' = "drag" /\ Drop
    BY <1>2, <1>3, <1>4, <1>5, <1>6, <1>7, <1>8, <1>9, <1>10, <1>11 DEF Gesture
  <1> QED
    BY <1>12 DEF Nameless, Named

LEMMA NamesSplit ==
    ASSUME Split
    PROVE  did' = "split"
  <1>1. ASSUME NEW batch, NEW time, SplitClips(batch, time) PROVE did' = "split"
    BY <1>1, NameOfClips DEF SplitClips
  <1> QED
    BY <1>1 DEF Split

\* A handler that has just set the document, by the name it leaves.
LEMMA Handlers ==
    ASSUME [Next]_vars, minted' # minted
    PROVE  /\ did' = "drag" => Drop
           /\ did' = "drop" => \E a \in DOMAIN assets, track \in DOMAIN tracks, time \in Times :
                                 DropAsset(a, track, time)
           /\ did' = "overwrite" => \E a \in DOMAIN assets, in \in {0, 1}, time \in Times :
                                      OverwriteSource(a, in, assets[a].dur, time)
           /\ did' = "text" => \E time \in Times : AddText(time, TextDur)
           /\ did' = "split" => Split
           /\ did' = "untake" => \E a \in DOMAIN assets : \E take \in DOMAIN assets[a].takes :
                                   DeleteAssetTake(a, take)
  <1>1. CASE Undo \/ Redo \/ UNCHANGED vars
    BY <1>1 DEF Undo, Redo, vars, counts
  <1>2. CASE Nameless
    BY <1>2 DEF Nameless, Named
  <1>3. CASE PlaceAsset /\ ~Nameless
    BY <1>3, NamesPlace
  <1>4. CASE EditAssets /\ ~Nameless
    BY <1>4, NamesAssets
  <1>5. CASE Gesture /\ ~Nameless
    BY <1>5, NamesGesture
  <1>6. CASE Split
    BY <1>6, NamesSplit
  <1>7. \/ Undo \/ Redo \/ UNCHANGED vars \/ PlaceAsset \/ EditAssets \/ Gesture \/ Split
        \/ EditSome \/ EditTracks \/ EditTimelines
        \/ UseClipboard \/ \E selected : DeleteSelected(selected)
    BY DEF Next, Keyboard, Mouse
  <1> QED
    BY <1>1, <1>2, <1>3, <1>4, <1>5, <1>6, <1>7, NamesEdit, NamesTracks, NamesTimelines, NamesClipboard

(***************************************************************************)
(* Putting clips on a track changes nothing but what they cover, in every  *)
(* step that puts some: a drop from the assets panel, an overwrite from    *)
(* the source monitor, a text, and clips the mouse lets go of, but for     *)
(* what a reversed clip shows after what was put on it, and if no two      *)
(* clips of the timeline share an id (resolveOverlaps and its callers).    *)
(***************************************************************************)
THEOREM OverwritesSpare == Spec => OverwriteSpares
  <1> DEFINE Spares ==
        Open /\ Unique(clips) =>
          /\ Just("drag") => LET ids == DOMAIN gesture.to IN
               Covered({Placed(c) : c \in {d \in clips : d.id \in ids}},
                       {c \in clips : c.id \notin ids})
          /\ (\E tool \in {"drop", "overwrite", "text"} : Just(tool)) =>
               Covered({c \in clips' : c.id \in New}, clips)
  <1>1. ASSUME IInv, [Next]_vars PROVE Spares
    <2>1. ASSUME Unique(clips), Just("drag")
          PROVE  Covered({Placed(c) : c \in {d \in clips : d.id \in DOMAIN gesture.to}},
                         {c \in clips : c.id \notin DOMAIN gesture.to})
      <3>1. Drop
        BY <1>1, <2>1, Handlers DEF Just
      <3> QED
        BY <1>1, <2>1, <3>1, DragCovers
    <2>2. ASSUME Open, NEW tool \in {"drop", "overwrite", "text"}, Just(tool)
          PROVE  Covered({c \in clips' : c.id \in New}, clips)
      <3>1. minted' # minted /\ did' = tool
        BY <2>2 DEF Just
      <3>2. /\ \A time \in Times : time \in Int
            /\ TextDur \in Int /\ \A in \in {0, 1} : in \in Int
            /\ \A a \in DOMAIN assets : assets[a].dur \in Int
        BY <1>1, Numbers, AssetDur
      <3>3. \E new, moved : PutsNew(new, moved)
        <4>1. CASE tool = "drop"
          <5>1. \E a \in DOMAIN assets, track \in DOMAIN tracks, time \in Times :
                  DropAsset(a, track, time)
            BY <1>1, <3>1, <4>1, Handlers
          <5> QED
            BY <1>1, <3>2, <5>1, DropPuts
        <4>2. CASE tool = "overwrite"
          <5>1. \E a \in DOMAIN assets, in \in {0, 1}, time \in Times :
                  OverwriteSource(a, in, assets[a].dur, time)
            BY <1>1, <3>1, <4>2, Handlers
          <5> QED
            BY <1>1, <3>2, <5>1, OverwritePuts
        <4>3. CASE tool = "text"
          <5>1. \E time \in Times : AddText(time, TextDur)
            BY <1>1, <3>1, <4>3, Handlers
          <5> QED
            BY <1>1, <3>2, <5>1, TextPuts
        <4> QED
          BY <2>2, <4>1, <4>2, <4>3
      <3> QED
        BY <1>1, <2>2, <3>3, NewCover
    <2> QED
      BY <2>1, <2>2
  <1>2. IInv /\ [Next]_vars => [Spares]_vars
    BY <1>1
  <1> QED
    BY <1>2, AlwaysIInv, PTL DEF Spec, OverwriteSpares

-----------------------------------------------------------------------------
(* What a split links.                                                        *)

\* Links that are in pairs lead to one clip, and back from it.
Mates(cs, c, d) == d \in cs /\ c.linked = {d.id} /\ d.linked = {c.id}

LEMMA PairsAre ==
    ASSUME NEW cs, Unique(cs), Paired(cs)
    PROVE  \A c \in cs : c.linked = {} \/ \E d \in cs : Mates(cs, c, d)
  <1> SUFFICES ASSUME NEW c \in cs, c.linked # {}
               PROVE  \E d \in cs : Mates(cs, c, d)
    OBVIOUS
  <1>1. PICK id \in c.linked : TRUE
    OBVIOUS
  <1>2. PICK d \in cs : d.id = id /\ d.linked = {c.id}
    BY <1>1 DEF Paired
  <1>3. PICK e \in cs : e.id = c.id /\ e.linked = {d.id}
    BY <1>2 DEF Paired
  <1>4. e = c
    BY <1>3 DEF Unique
  <1> QED
    BY <1>2, <1>3, <1>4 DEF Mates

Tied(cs) == Unique(cs) /\ Paired(cs)

\* One clip in two halves, the first with the links there were.
LEMMA OneSplit ==
    ASSUME NEW cs, Unique(cs), Paired(cs), NEW c \in cs, NEW one, NEW two,
           one.id = c.id, one.linked = c.linked, two.id \notin Ids(cs), two.linked = {}
    PROVE  Tied((cs \ {c}) \cup {one, two})
  <1> DEFINE new == (cs \ {c}) \cup {one, two}
  <1>1. \A x \in cs : x.id = c.id => x = c
    BY DEF Unique
  <1>2. \A x \in cs : x.id # two.id
    BY DEF Ids
  <1>3. Unique(new)
    BY <1>1, <1>2 DEF Unique
  <1>4. ASSUME NEW x \in new, NEW id \in x.linked
        PROVE  \E d \in new : d.id = id /\ d.linked = {x.id}
    <2>1. PICK y \in cs : y.id = x.id /\ y.linked = x.linked
      BY <1>4
    <2>2. PICK d \in cs : d.id = id /\ d.linked = {y.id}
      BY <1>4, <2>1 DEF Paired
    <2>3. CASE d = c
      BY <2>1, <2>2, <2>3
    <2>4. CASE d # c
      BY <2>1, <2>2, <2>4
    <2> QED
      BY <2>3, <2>4
  <1> QED
    BY <1>3, <1>4 DEF Paired, Tied

\* Two clips that are linked, each in two halves, first with first and second
\* with second.
Linked(x, y, id, to) == x.id = id /\ x.linked = {to} /\ y.id = to /\ y.linked = {id}

LEMMA TwoSplit ==
    ASSUME NEW cs, Unique(cs), Paired(cs), NEW c \in cs, NEW d \in cs, Mates(cs, c, d),
           NEW one, NEW two, NEW three, NEW four, NEW u, NEW v,
           Linked(one, three, c.id, d.id), Linked(two, four, u, v),
           u \notin Ids(cs), v \notin Ids(cs),
           IF c = d THEN one = three /\ two = four ELSE u # v
    PROVE  Tied((cs \ {c, d}) \cup {one, two, three, four})
  <1> DEFINE new == (cs \ {c, d}) \cup {one, two, three, four}
  <1>1. \A x, y \in cs : x.id = y.id => x = y
    BY DEF Unique
  <1>2. \A x \in cs : x.id # u /\ x.id # v
    BY DEF Ids
  <1>3. Unique(new)
    BY <1>1, <1>2 DEF Unique, Linked
  <1>4. ASSUME NEW x \in new, NEW id \in x.linked
        PROVE  \E e \in new : e.id = id /\ e.linked = {x.id}
    <2>1. CASE x \in {one, two, three, four}
      BY <1>4, <2>1 DEF Linked
    <2>2. CASE x \in cs \ {c, d}
      <3>1. PICK e \in cs : Mates(cs, x, e)
        BY <1>4, <2>2, PairsAre
      <3>2. e # c /\ e # d
        BY <1>1, <2>2, <3>1 DEF Mates
      <3> QED
        BY <1>4, <3>1, <3>2 DEF Mates
    <2> QED
      BY <2>1, <2>2
  <1> QED
    BY <1>3, <1>4 DEF Paired, Tied

\* What splitting a clip with those linked to it keeps, if the ids of the second
\* halves are new.
LEMMA GroupPaired ==
    ASSUME NEW cs, Unique(cs), Paired(cs), Numbered(cs), NEW c \in cs,
           NEW time, time \in Int, NEW now, now \in Int, Splits(c, time),
           \A d \in {c} \cup Both(cs, c, time) : Append(d.id, now) \notin Ids(cs)
    PROVE  Tied(SplitGroup(cs, c, time, now))
  <1> DEFINE group == {d \in cs : d.id \in c.linked}
             both  == Both(cs, c, time)
             new   == SplitGroup(cs, c, time, now)
             u     == Append(c.id, now)
             one   == FirstHalf(c, time, Ids(group))
  <1>1. new = (cs \ ({c} \cup both))
              \cup {one, SecondHalf(c, time, now, {Append(d.id, now) : d \in both})}
              \cup {FirstHalf(d, time, {c.id}) : d \in both}
              \cup {SecondHalf(d, time, now, {u}) : d \in both}
    BY DEF SplitGroup, Both
  <1>2. \A d \in cs : \A linked : TwoHalves(d, time, now, linked)
    BY HalvesTimed DEF Numbered
  <1>3. u \notin Ids(cs)
    OBVIOUS
  <1>4. one.id = c.id /\ one.linked = Ids(group)
    BY <1>2 DEF TwoHalves
  <1>5. Ids(group) = c.linked
    <2>1. \A id \in c.linked : \E d \in cs : d.id = id
      BY DEF Paired
    <2> QED
      BY <2>1 DEF Ids
  <1>6. CASE both = {}
    <2> DEFINE two == SecondHalf(c, time, now, {})
    <2>1. new = (cs \ {c}) \cup {one, two}
      <3>1. {Append(d.id, now) : d \in both} = {}
        BY <1>6
      <3> HIDE DEF new, one, u
      <3> QED
        BY <1>1, <1>6, <3>1
    <2>2. two.id = u /\ two.linked = {}
      BY <1>2 DEF TwoHalves
    <2> HIDE DEF new, one, two, group, u
    <2>3. Tied((cs \ {c}) \cup {one, two})
      BY <1>3, <1>4, <1>5, <2>2, OneSplit
    <2> QED
      BY <2>1, <2>3 DEF new
  <1>7. CASE both # {}
    <2>1. PICK d \in both : TRUE
      BY <1>7
    <2>2. d \in cs /\ d.id \in c.linked
      BY <2>1 DEF Both
    <2>3. Mates(cs, c, d)
      <3>1. PICK e \in cs : Mates(cs, c, e)
        BY <2>2, PairsAre
      <3>2. e = d
        BY <2>2, <3>1 DEF Mates, Unique
      <3> QED
        BY <3>1, <3>2
    <2>4. both = {d}
      BY <2>1, <2>2, <2>3 DEF Both, Mates, Unique
    <2> DEFINE v     == Append(d.id, now)
               two   == SecondHalf(c, time, now, {v})
               three == FirstHalf(d, time, {c.id})
               four  == SecondHalf(d, time, now, {u})
    <2>5. new = (cs \ {c, d}) \cup {one, two, three, four}
      <3>1. /\ {Append(x.id, now) : x \in both} = {v}
            /\ {FirstHalf(x, time, {c.id}) : x \in both} = {three}
            /\ {SecondHalf(x, time, now, {u}) : x \in both} = {four}
        BY <2>4
      <3>2. new = (cs \ ({c} \cup both)) \cup {one, two} \cup {three} \cup {four}
        BY <1>1, <3>1
      <3> HIDE DEF new, one, two, three, four
      <3> QED
        BY <2>4, <3>2
    <2>6. v \notin Ids(cs)
      BY <2>1
    <2>7. Linked(one, three, c.id, d.id) /\ Linked(two, four, u, v)
      <3>1. /\ three.id = d.id /\ three.linked = {c.id}
            /\ two.id = u /\ two.linked = {v} /\ four.id = v /\ four.linked = {u}
        BY <1>2, <2>2 DEF TwoHalves
      <3>2. one.id = c.id /\ one.linked = {d.id}
        BY <1>4, <1>5, <2>3 DEF Mates
      <3> HIDE DEF one, two, three, four, u, v
      <3> QED
        BY <3>1, <3>2 DEF Linked
    <2>8. CASE c = d
      <3>1. one = three /\ two = four
        <4>1. Ids(group) = {c.id}
          BY <1>5, <2>3, <2>8 DEF Mates
        <4> QED
          BY <2>8, <4>1
      <3> HIDE DEF new, one, two, three, four, u, v
      <3>2. Tied((cs \ {c, d}) \cup {one, two, three, four})
        BY <1>3, <2>2, <2>3, <2>6, <2>7, <2>8, <3>1, TwoSplit
      <3> QED
        BY <2>5, <3>2 DEF new
    <2>9. CASE c # d
      <3>1. u # v
        <4>1. c.id # d.id
          BY <2>2, <2>9 DEF Unique
        <4>2. c.id \in Seq(Int) /\ d.id \in Seq(Int)
          BY <2>2 DEF Numbered, Timed
        <4>3. \A s, t \in Seq(Int) : Append(s, now) = Append(t, now) => s = t
          BY AppendInjective
        <4> HIDE DEF new, one, two, three, four
        <4> QED
          BY <4>1, <4>2, <4>3
      <3> HIDE DEF new, one, two, three, four, u, v
      <3>2. Tied((cs \ {c, d}) \cup {one, two, three, four})
        BY <1>3, <2>2, <2>3, <2>6, <2>7, <2>9, <3>1, TwoSplit
      <3> QED
        BY <2>5, <3>2 DEF new
    <2> QED
      BY <2>8, <2>9
  <1> QED
    BY <1>6, <1>7

(***************************************************************************)
(* Splitting a batch of clips that are linked in pairs leaves all clips    *)
(* linked in pairs, each half with its half, if no clip of the timeline    *)
(* has an id of this split's (splitClipsAtTime).                           *)
(***************************************************************************)
THEOREM SplitsPair ==
    ASSUME NEW cs, NEW batch, NEW time, time \in Int, NEW now, now \in Int,
           Numbered(cs), Unique(cs), Paired(cs), Batched(batch, cs, time, now),
           \A c \in cs : ~Derived(c.id, now)
    PROVE  Paired(SplitEach(cs, batch, time, now))
  <1> DEFINE D == DOMAIN batch
             base == [cs |-> cs, done |-> {}]
             Known(s) == \A x \in s.cs : \/ x \in cs \/ x.id \in s.done
                                         \/ \E y \in s.done : x.id = Append(y, now)
             Closed(s) == s.done \subseteq Ids(cs)
                          /\ \A e \in cs : e.id \in s.done => e.linked \subseteq s.done
             Good(s) == /\ Numbered(s.cs) /\ Tied(s.cs) /\ Ids(cs) \subseteq Ids(s.cs)
                        /\ Known(s) /\ Closed(s)
  <1>1. PICK g : /\ Folds(g, D, FALSE, base, batch, time, now)
                 /\ SplitEach(cs, batch, time, now) = g[D].cs
    <2>1. Indices(DOMAIN batch)
      BY DEF Batched
    <2> QED
      BY <2>1, SplitsFold
  <1>2. IsFiniteSet(D) /\ \A U \in SUBSET D : U # {} => Max(U) \in U
    BY DEF Indices, Batched
  <1>3. \A i \in D : ~Derived(batch[i], now) /\ \E b \in cs : b.id = batch[i] /\ Splits(b, time)
    BY DEF Batched
  <1>0. /\ \A id \in Ids(cs) : id \in Seq(Int) \ {<<>>} /\ ~Derived(id, now)
        /\ \A id \in Seq(Int) \ {<<>>} : Derived(Append(id, now), now)
        /\ \A s, t \in Seq(Int) : Append(s, now) = Append(t, now) => s = t
    <2>1. \A id \in Seq(Int) \ {<<>>} : Derived(Append(id, now), now)
      BY AppendDerived
    <2>2. \A s, t \in Seq(Int) : Append(s, now) = Append(t, now) => s = t
      BY AppendInjective
    <2>3. \A id \in Ids(cs) : id \in Seq(Int) \ {<<>>} /\ ~Derived(id, now)
      BY DEF Ids, Numbered, Timed
    <2> QED
      BY <2>1, <2>2, <2>3
  <1> HIDE DEF D
  <1> DEFINE B == {U \in SUBSET D : ~Good(g[U])}
  <1>4. SUFFICES ASSUME B # {} PROVE FALSE
    BY <1>1 DEF Tied
  <1>5. PICK U \in B : \A W \in B : W \subseteq U => W = U
    <2>1. B \in SUBSET (SUBSET D)
      OBVIOUS
    <2> HIDE DEF B
    <2> QED
      BY <1>2, <1>4, <2>1, LeastSet
  <1>6. U # {}
    <2>1. g[{}] = base
      BY <1>1 DEF Folds
    <2>2. Good(base)
      BY DEF Tied
    <2> HIDE DEF Good
    <2> QED
      BY <1>5, <2>1, <2>2
  <1> DEFINE m == Max(U)
             s == g[U \ {m}]
             id == batch[m]
             c == ClipOf(s.cs, id)
             t == SplitOne(s, id, time, now)
  <1>7. m \in U /\ m \in D /\ g[U] = t
    BY <1>1, <1>2, <1>5, <1>6 DEF Folds, StepOf
  <1> HIDE DEF m
  <1>8. Good(s)
    <2> HIDE DEF Good
    <2> QED
      BY <1>5, <1>7
  <1>9. PICK b \in cs : b.id = id /\ Splits(b, time) /\ ~Derived(id, now)
    BY <1>3, <1>7
  <1> HIDE DEF s, id
  <1>10. Good(t)
    <2>1. CASE id \in s.done
      <3>1. t = s
        BY <2>1 DEF SplitOne
      <3> HIDE DEF Good, t
      <3> QED
        BY <1>8, <3>1
    <2>2. CASE id \notin s.done
      <3> DEFINE gone == {c} \cup Both(s.cs, c, time)
                 new == SplitGroup(s.cs, c, time, now)
      <3>1. t.cs = new /\ t.done = s.done \cup {id} \cup c.linked
        BY <2>2 DEF SplitOne
      <3>2. c \in s.cs /\ c.id = id
        <4>1. id \in Ids(cs) /\ Ids(cs) \subseteq Ids(s.cs)
          BY <1>8, <1>9 DEF Ids
        <4> HIDE DEF Good
        <4>2. \E x \in s.cs : x.id = id
          BY <4>1 DEF Ids
        <4> QED
          BY <4>2 DEF ClipOf
      <3> HIDE DEF c, t
      <3>3. c = b
        <4>1. \A y \in s.done : id # Append(y, now)
          BY <1>0, <1>8, <1>9
        <4>2. c \in cs
          BY <1>8, <2>2, <3>2, <4>1
        <4> QED
          BY <1>9, <3>2, <4>2 DEF Unique
      <3>4. gone \subseteq s.cs /\ \A d \in gone : Splits(d, time)
        BY <1>9, <3>2, <3>3 DEF Both
      <3>5. Halved(new, s.cs, gone, time, now)
        BY <3>2, GroupHalved
      <3>6. Ids(gone) \subseteq {id} \cup c.linked /\ \A d \in gone : d.id \in Ids(gone)
        BY <3>2 DEF Ids, Both
      <3>7. c.linked = {} \/ \E d \in cs : Mates(cs, c, d)
        BY <3>3, PairsAre
      <3>8. ASSUME NEW d \in gone PROVE Append(d.id, now) \notin Ids(s.cs)
        <4>1. d.id \in Ids(cs) /\ d.id \notin s.done
          <5>1. CASE d.id = id
            BY <1>9, <2>2, <5>1 DEF Ids
          <5>2. CASE d.id # id
            <6>1. PICK p \in cs : Mates(cs, c, p)
              BY <3>6, <3>7, <3>8, <5>2
            <6>2. d.id = p.id /\ p.linked = {id}
              BY <3>2, <3>6, <3>8, <5>2, <6>1 DEF Mates
            <6> QED
              BY <1>8, <2>2, <6>1, <6>2 DEF Ids
          <5> QED
            BY <5>1, <5>2
        <4>2. d.id \in Seq(Int) \ {<<>>} /\ Derived(Append(d.id, now), now)
          BY <1>0, <4>1
        <4>3. ASSUME NEW x \in s.cs, x.id = Append(d.id, now) PROVE FALSE
          <5>1. x.id \notin Ids(cs)
            BY <1>0, <4>2, <4>3
          <5>2. PICK y \in s.done : x.id = Append(y, now)
            BY <1>8, <5>1 DEF Ids
          <5>3. y \in Seq(Int)
            BY <1>0, <1>8, <5>2
          <5> QED
            BY <1>0, <4>1, <4>2, <4>3, <5>2, <5>3
        <4> QED
          BY <4>3 DEF Ids
      <3>9. Tied(new)
        <4>1. Unique(s.cs) /\ Paired(s.cs) /\ Numbered(s.cs) /\ Splits(c, time)
          BY <1>8, <1>9, <3>3 DEF Tied
        <4> QED
          BY <3>2, <3>8, <4>1, GroupPaired
      <3> HIDE DEF new, gone
      <3>10. /\ Numbered(new)
             /\ \A x \in new : x \in s.cs \ gone \/ \E d \in gone : x.id \in {d.id, Append(d.id, now)}
             /\ Ids(s.cs) \subseteq Ids(new)
        <4>1. Numbered(s.cs)
          BY <1>8
        <4>2. HalvedKeep(new, s.cs, gone, now)
          BY <3>4, <3>5, <4>1, HalvedShows
        <4> QED
          BY <4>2 DEF HalvedKeep
      <3>11. Known(t)
        <4> TAKE x \in t.cs
        <4>1. CASE x \in s.cs \ gone
          BY <1>8, <3>1, <4>1
        <4>2. CASE x \notin s.cs \ gone
          <5>1. PICK d \in gone : x.id \in {d.id, Append(d.id, now)}
            BY <3>1, <3>10, <4>2
          <5>2. d.id \in t.done
            BY <3>1, <3>6
          <5> QED
            BY <5>1, <5>2
        <4> QED
          BY <4>1, <4>2
      <3>12. Closed(t)
        <4>1. CASE c.linked = {}
          BY <1>8, <1>9, <3>1, <3>3, <4>1 DEF Ids, Unique
        <4>2. CASE c.linked # {}
          <5>1. PICK p \in cs : Mates(cs, c, p)
            BY <3>7, <4>2
          <5>2. c.linked = {p.id} /\ p.linked = {id} /\ t.done = s.done \cup {id, p.id}
            BY <3>1, <3>2, <5>1 DEF Mates
          <5>3. \A e \in cs : (e.id = id => e.linked = {p.id}) /\ (e.id = p.id => e.linked = {id})
            BY <1>9, <3>3, <5>1, <5>2 DEF Unique
          <5> QED
            BY <1>8, <1>9, <5>1, <5>2, <5>3 DEF Ids
        <4> QED
          BY <4>1, <4>2
      <3> HIDE DEF Known, Closed
      <3> QED
        BY <1>8, <3>1, <3>9, <3>10, <3>11, <3>12
    <2> QED
      BY <2>1, <2>2
  <1> HIDE DEF Good, t
  <1> QED
    BY <1>5, <1>7, <1>10

\* What the blade sets: a batch of clips, each split at a time in them.
LEMMA SplitSets ==
    ASSUME IInv, Split
    PROVE  \E batch, time : /\ Open /\ time \in Int /\ Numbered(clips)
                            /\ Batched(batch, clips, time, Now)
                            /\ clips' = SplitEach(clips, batch, time, Now) /\ assets' = assets
  <1>1. PICK time \in Times :
          LET met == {c \in clips : Splits(c, time) /\ ~Locked(c)} IN
          \E batch \in {{c} : c \in met} \cup {met} : SplitClips(batch, time)
    BY DEF Split
  <1>2. PICK batch \in SUBSET clips : SplitClips(batch, time)
    BY <1>1
  <1>3. time \in Int
    BY <1>1, Numbers
  <1>4. PICK order \in SetToSeqs(Ids(batch)) :
          EditClips("split", SplitEach(clips, order, time, Now))
    BY <1>2 DEF SplitClips
  <1>5. Open /\ Edit("split", <<WithClips(SplitEach(clips, order, time, Now))>>) /\ UNCHANGED active
    BY <1>4 DEF EditClips, session
  <1>6. \A c \in clips : Timed(c) /\ ~Derived(c.id, Now)
    BY <1>5, ClipsTimed, MadeIds
  <1>7. IsFiniteSet(Ids(batch))
    <2>1. IsFiniteSet(batch)
      BY <1>5, HereIsLine, FS_Subset
    <2> DEFINE f == [c \in batch |-> c.id]
    <2>2. Ids(batch) = {f[c] : c \in batch}
      BY DEF Ids
    <2> HIDE DEF f
    <2> QED
      BY <2>1, <2>2, ImageFinite
  <1>8. Indices(DOMAIN order) /\ \A i \in DOMAIN order : order[i] \in Ids(batch)
    BY <1>4, <1>7, OrderIndices
  <1>9. \A id \in Ids(batch) : ~Derived(id, Now) /\ \E b \in clips : b.id = id /\ Splits(b, time)
    BY <1>2, <1>6 DEF Ids, SplitClips
  <1>10. Batched(order, clips, time, Now)
    BY <1>8, <1>9 DEF Batched
  <1> DEFINE new == SplitEach(clips, order, time, Now)
  <1>11. clips' = new /\ assets' = assets
    <2> HIDE DEF new
    <2> QED
      BY <1>5, ClipsSet DEF new
  <1> QED
    BY <1>3, <1>5, <1>6, <1>10, <1>11 DEF Numbered

(***************************************************************************)
(* The blade changes no picture wherever on a track there are only clips   *)
(* that play forwards at normal speed, and leaves all clips linked in      *)
(* pairs if they were, if no two clips of the timeline share an id         *)
(* (splitClipsAtTime and its callers).                                     *)
(***************************************************************************)
THEOREM SplitsAreSeamless == Spec => SplitSeamless
  <1> DEFINE Seamless ==
        Just("split") /\ Unique(clips) =>
          /\ \A track \in DOMAIN tracks, t \in Until :
               Plain(clips, track, t) =>
                 Shown(assets', clips', track, t) = Shown(assets, clips, track, t)
          /\ Paired(clips) => Paired(clips')
  <1>1. ASSUME IInv, [Next]_vars PROVE Seamless
    <2> SUFFICES ASSUME Just("split"), Unique(clips)
                 PROVE  /\ \A track \in DOMAIN tracks, t \in Until :
                             Plain(clips, track, t) =>
                               Shown(assets', clips', track, t) = Shown(assets, clips, track, t)
                        /\ Paired(clips) => Paired(clips')
      OBVIOUS
    <2>1. Split
      BY <1>1, Handlers DEF Just
    <2>2. PICK batch, time :
             /\ Open /\ time \in Int /\ Numbered(clips) /\ Batched(batch, clips, time, Now)
             /\ clips' = SplitEach(clips, batch, time, Now) /\ assets' = assets
      BY <1>1, <2>1, SplitSets
    <2>3. Now \in Int /\ \A c \in clips : ~Derived(c.id, Now)
      BY <1>1, <2>2, ClipsTimed, MadeIds
    <2> DEFINE new == SplitEach(clips, batch, time, Now)
    <2>4. ShowAlike(new, clips)
      BY <2>2, <2>3, SplitsShow
    <2>5. Paired(clips) => Paired(new)
      BY <2>2, <2>3, SplitsPair
    <2> HIDE DEF new
    <2>6. clips' = new
      BY <2>2 DEF new
    <2>7. \A t \in Until : t \in Int
      BY DEF Until
    <2> QED
      BY <2>2, <2>4, <2>5, <2>6, <2>7 DEF ShowAlike
  <1>2. IInv /\ [Next]_vars => [Seamless]_vars
    BY <1>1
  <1> QED
    BY <1>2, AlwaysIInv, PTL DEF Spec, SplitSeamless

-----------------------------------------------------------------------------
(* What a take that goes leaves of the others.                                *)

Repointed(c, a, take) ==
    IF c.asset = a THEN [c EXCEPT !.take = RepointedTake(@, take)] ELSE c

\* A number that shows a take shows it by its new number when another goes, if
\* the takes differ.
LEMMA TakeFollowed ==
    ASSUME NEW takes, takes \in Seq(Range(takes)), IsInjective(takes), Len(takes) > 1,
           NEW take, take \in 1..Len(takes), NEW k, k \in Nat \ {0},
           takes[Least(k, Len(takes))] \in ToSet(RemoveAt(takes, take))
    PROVE  LET kept == RemoveAt(takes, take)
           IN  kept[Least(RepointedTake(k, take), Len(kept))] = takes[Least(k, Len(takes))]
  <1> DEFINE kept == RemoveAt(takes, take)
             n == Len(takes)
             s == Least(k, n)
             r == RepointedTake(k, take)
  <1>1. /\ kept \in Seq(Range(takes)) /\ Len(kept) = n - 1 /\ n \in Nat /\ DOMAIN takes = 1..n
        /\ \A j \in 1..n - 1 : kept[j] = IF j < take THEN takes[j] ELSE takes[j + 1]
    BY RemoveAtProperties
  <1>2. s \in 1..n /\ k # None
    BY <1>1, NoneAssumption DEF Least
  <1>3. s # take
    <2>1. PICK j \in 1..n - 1 : takes[s] = kept[j]
      <3>1. takes[s] \in ToSet(kept)
        OBVIOUS
      <3> HIDE DEF kept, s, n
      <3>2. DOMAIN kept = 1..n - 1
        BY <1>1
      <3> QED
        BY <3>1, <3>2 DEF ToSet
    <2>2. PICK i \in 1..n : i # take /\ takes[s] = takes[i]
      BY <1>1, <2>1
    <2> HIDE DEF s, n
    <2> QED
      BY <1>1, <1>2, <2>2 DEF IsInjective
  <1>4. CASE k > take
    <2>1. r = k - 1 /\ s > take
      BY <1>1, <1>2, <1>3, <1>4 DEF RepointedTake, Least
    <2>2. Least(r, n - 1) = s - 1 /\ s - 1 \in 1..n - 1 /\ ~(s - 1 < take)
      BY <1>1, <1>2, <2>1 DEF Least
    <2> QED
      BY <1>1, <1>2, <2>2
  <1>5. CASE k <= take
    <2>1. k < take /\ s = k /\ r = k
      BY <1>1, <1>2, <1>3, <1>5 DEF RepointedTake, Least
    <2>2. Least(r, n - 1) = s /\ s \in 1..n - 1 /\ s < take
      BY <1>1, <2>1 DEF Least
    <2> QED
      BY <1>1, <2>2
  <1> QED
    BY <1>4, <1>5

\* What deleting a take sets.
TakeSets(a, take) ==
    /\ DOMAIN assets' = DOMAIN assets
    /\ assets'[a].takes = RemoveAt(assets[a].takes, take)
    /\ \A b \in DOMAIN assets : b # a => assets'[b] = assets[b]
    /\ \A i \in DOMAIN doc.lines :
         doc'.lines[i].clips = {Repointed(c, a, take) : c \in doc.lines[i].clips}

LEMMA TakeDeletionSets ==
    ASSUME IInv, NEW a \in DOMAIN assets, NEW take \in DOMAIN assets[a].takes,
           DeleteAssetTake(a, take)
    PROVE  TakeSets(a, take)
  <1> DEFINE kept == IF Len(assets[a].takes) > 1 THEN RemoveAt(assets[a].takes, take)
                     ELSE assets[a].takes
             lib  == [assets EXCEPT ![a].takes = kept, ![a].active = Least(@, Len(kept))]
             d    == WithAssets(lib)
             Change(cs) == {IF c.asset = a THEN [c EXCEPT !.take = RepointedTake(@, take)] ELSE c : c \in cs}
             e    == Everywhere(d, Change)
  <1>1. Edit("untake", <<e>>) /\ Len(assets[a].takes) > 1
    BY DEF DeleteAssetTake
  <1>2. /\ DOMAIN lib = DOMAIN assets /\ lib[a].takes = RemoveAt(assets[a].takes, take)
        /\ \A b \in DOMAIN assets : b # a => lib[b] = assets[b]
    <2>1. IsAsset(assets[a])
      BY DocIsProject DEF AssetsIn
    <2>2. DOMAIN assets[a] = {"kind", "dur", "takes", "active"}
      BY <2>1 DEF IsAsset
    <2> HIDE DEF kept
    <2>3. lib[a].takes = kept
      BY <2>2
    <2> QED
      BY <1>1, <2>3 DEF kept
  <1>3. DOMAIN lib = DOMAIN assets /\ AssetsIn(lib)
    BY <1>1, TakeGone
  <1> HIDE DEF lib
  <1>4. DOMAIN d = {"assets", "lines"} /\ d.assets = lib /\ d.lines = doc.lines
    BY <1>3, MoreAssets
  <1> HIDE DEF d
  <1> DEFINE m == [i \in DOMAIN d.lines |-> [d.lines[i] EXCEPT !.clips = Change(d.lines[i].clips)]]
  <1>5. e.assets = lib /\ e.lines = m
    <2>1. e = [d EXCEPT !.lines = m]
      BY DEF Everywhere
    <2> HIDE DEF e, m
    <2> QED
      BY <1>4, <2>1
  <1>6. doc' = e
    <2> HIDE DEF e
    <2> QED
      BY <1>1, OneSet
  <1> HIDE DEF e
  <1>7. ASSUME NEW i \in DOMAIN doc.lines
        PROVE  doc'.lines[i].clips = {Repointed(c, a, take) : c \in doc.lines[i].clips}
    <2>1. Line(doc.lines[i], assets)
      BY DocIsProject
    <2>2. m[i].clips = Change(doc.lines[i].clips)
      <3> DEFINE old == doc.lines[i]
                 cs == Change(old.clips)
      <3>1. m[i] = [old EXCEPT !.clips = cs]
        BY <1>4
      <3>2. DOMAIN old = {"id", "tracks", "clips", "subs"}
        BY <2>1 DEF Line
      <3> HIDE DEF old, cs, m
      <3> QED
        BY <3>1, <3>2 DEF old, cs
    <2>3. Change(doc.lines[i].clips) = {Repointed(c, a, take) : c \in doc.lines[i].clips}
      BY DEF Repointed
    <2> HIDE DEF m, Change
    <2> QED
      BY <1>5, <1>6, <2>2, <2>3
  <1>8. assets' = lib
    BY <1>5, <1>6 DEF assets
  <1> QED
    BY <1>2, <1>7, <1>8 DEF TakeSets

(***************************************************************************)
(* Deleting a take changes no clip of any timeline that shows another take *)
(* by its number, which may change with the numbers of the takes, if the   *)
(* paths of the takes differ and no two clips share an id                  *)
(* (deleteAssetTake).                                                      *)
(***************************************************************************)
THEOREM TakeDeletionsSpare == Spec => TakeDeletionSpares
  <1> DEFINE Spares(i, c) ==
        LET path == PathOf(assets, c) IN
        /\ c.take # None /\ path \in ToSet(assets'[c.asset].takes)
        /\ Unique(doc.lines[i].clips) /\ IsInjective(assets[c.asset].takes)
        => \A d \in doc'.lines[i].clips : d.id = c.id => PathOf(assets', d) = path
  <1>1. ASSUME IInv, [Next]_vars, Just("untake"), NEW i \in DOMAIN doc.lines,
               NEW c \in doc.lines[i].clips
        PROVE  Spares(i, c)
    <2> DEFINE path == PathOf(assets, c)
               takes == assets[c.asset].takes
    <2> SUFFICES ASSUME c.take # None, path \in ToSet(assets'[c.asset].takes),
                        Unique(doc.lines[i].clips), IsInjective(takes),
                        NEW d \in doc'.lines[i].clips, d.id = c.id
                 PROVE  PathOf(assets', d) = path
      OBVIOUS
    <2>0. PICK a \in DOMAIN assets : \E take \in DOMAIN assets[a].takes : DeleteAssetTake(a, take)
      BY <1>1, Handlers DEF Just
    <2>1. PICK take \in DOMAIN assets[a].takes : DeleteAssetTake(a, take)
      BY <2>0
    <2>2. TakeSets(a, take) /\ Len(assets[a].takes) > 1
      BY <1>1, <2>1, TakeDeletionSets DEF DeleteAssetTake
    <2>3. \A x \in doc.lines[i].clips : IsClip(x)
      BY <1>1, DocIsProject DEF Line, ClipsIn, Shaped
    <2>4. \A x \in doc.lines[i].clips : Repointed(x, a, take).id = x.id
      BY <2>3 DEF Repointed, IsClip, ClipFields
    <2>5. d = Repointed(c, a, take)
      <3>1. PICK x \in doc.lines[i].clips : d = Repointed(x, a, take)
        BY <1>1, <2>2 DEF TakeSets
      <3>2. x = c
        BY <1>1, <2>4, <3>1 DEF Unique
      <3> QED
        BY <3>1, <3>2
    <2>6. CASE c.asset # a
      <3>1. d = c
        BY <2>5, <2>6 DEF Repointed
      <3> QED
        BY <2>2, <2>6, <3>1 DEF TakeSets, PathOf
    <2>7. CASE c.asset = a
      <3> DEFINE k == c.take
                 r == RepointedTake(k, take)
                 kept == RemoveAt(takes, take)
      <3>1. takes \in Seq(Range(takes)) /\ take \in 1..Len(takes) /\ Len(takes) > 1
        <4>1. IsAsset(assets[a])
          BY <1>1, DocIsProject DEF AssetsIn
        <4>2. takes \in Seq(Range(takes)) /\ take \in DOMAIN takes /\ Len(takes) > 1
          BY <2>1, <2>2, <2>7, <4>1 DEF IsAsset, IsList
        <4> HIDE DEF takes
        <4> QED
          BY <4>2
      <3>2. k \in Nat \ {0}
        BY <1>1, <2>3 DEF IsClip
      <3>3. path = takes[Least(k, Len(takes))]
        BY <2>1, <2>7 DEF PathOf, TakeShown
      <3>4. d.asset = a /\ d.take = r
        BY <1>1, <2>3, <2>5, <2>7 DEF Repointed, IsClip, ClipFields
      <3>5. r # None
        <4>1. take \in Nat /\ r \in Nat
          BY <3>1, <3>2 DEF RepointedTake, Largest
        <4> QED
          BY <4>1, NoneAssumption
      <3>6. assets'[a].takes = kept /\ a \in DOMAIN assets'
        BY <2>1, <2>2, <2>7 DEF TakeSets
      <3>7. PathOf(assets', d) = kept[Least(r, Len(kept))]
        BY <3>4, <3>5, <3>6 DEF PathOf, TakeShown
      <3>8. takes[Least(k, Len(takes))] \in ToSet(kept)
        BY <2>7, <3>3, <3>6
      <3> HIDE DEF takes, k, path
      <3>9. kept[Least(r, Len(kept))] = takes[Least(k, Len(takes))]
        BY <3>1, <3>2, <3>8, TakeFollowed
      <3> QED
        BY <3>3, <3>7, <3>9
    <2> QED
      BY <2>6, <2>7
  <1> DEFINE AllSpared ==
        Just("untake") => \A i \in DOMAIN doc.lines : \A c \in doc.lines[i].clips : Spares(i, c)
  <1>2. IInv /\ [Next]_vars => [AllSpared]_vars
    BY <1>1
  <1> QED
    BY <1>2, AlwaysIInv, PTL DEF Spec, TakeDeletionSpares
=============================================================================
