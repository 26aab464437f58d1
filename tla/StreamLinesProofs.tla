--------------------------- MODULE StreamLinesProofs ---------------------------
(***************************************************************************)
(* Theorems about StreamLines for pipes, prompts and outputs of any size:  *)
(* type correctness, the order of the bytes between child and onLine, that *)
(* onLine gets exactly the lines of the output, and that the child, the    *)
(* copying goroutine and the read loop never wait for each other in a      *)
(* circle and have only so much to do.                                     *)
(***************************************************************************)
EXTENDS StreamLines, SequenceTheorems, WellFoundedInduction, TLAPS

--------------------------------------------------------------------------------
(* Where a sequence has its first newline, and its last byte of text.      *)

\* A set of numbers that has a member has a least one, and one of numbers from
\* 1 to n a greatest too.
LEMMA Least ==
  ASSUME NEW I \in SUBSET Nat, I # {}
  PROVE  \E m \in I : \A j \in I : m <= j
<1>1. PICK m \in I : \A j \in I : ~ (<<j, m>> \in OpToRel(<, Nat))
  BY NatLessThanWellFounded, WFMin, Zenon
<1>2. ASSUME NEW j \in I PROVE ~ (j < m)
  <2>1. <<j, m>> \in Nat \X Nat /\ <<j, m>>[1] = j /\ <<j, m>>[2] = m
    OBVIOUS
  <2> QED
    BY <1>1, <2>1, Zenon DEF OpToRel
<1>3. \A j \in I : m <= j
  BY <1>2
<1> QED
  BY <1>3

LEMMA Extremes ==
  ASSUME NEW n \in Nat, NEW I \in SUBSET (0..n), I # {}
  PROVE  /\ Min(I) \in I /\ \A j \in I : Min(I) <= j
         /\ Max(I) \in I /\ \A j \in I : j <= Max(I)
<1>1. \E m \in I : \A j \in I : m <= j
  <2>1. I \subseteq Nat
    OBVIOUS
  <2> QED
    BY <2>1, Least
<1>2. \E m \in I : \A j \in I : j <= m
  <2> DEFINE T == {n - i : i \in I}
  <2>1. \A i \in I : i \in Nat /\ n - i \in Nat
    OBVIOUS
  <2>2. T \subseteq Nat /\ T # {}
    BY <2>1
  <2>3. PICK x \in T : \A y \in T : x <= y
    <3> HIDE DEF T
    <3> QED
      BY <2>2, Least
  <2>4. PICK m \in I : x = n - m
    OBVIOUS
  <2>5. ASSUME NEW j \in I PROVE j <= m
    <3>1. x <= n - j
      BY <2>3
    <3> QED
      BY <2>1, <2>4, <3>1
  <2> QED
    BY <2>5
<1> QED
  BY <1>1, <1>2 DEF Min, Max

LEMMA FirstNewlineIs ==
  ASSUME NEW s \in Seq(Bytes)
  PROVE  /\ FirstNewline(s) \in 0..Len(s)
         /\ FirstNewline(s) = 0 => \A i \in 1..Len(s) : s[i] # "nl"
         /\ FirstNewline(s) > 0 => /\ s[FirstNewline(s)] = "nl"
                                   /\ \A i \in 1..(FirstNewline(s) - 1) : s[i] # "nl"
<1> DEFINE I == {i \in 1..Len(s) : s[i] = "nl"}
<1>1. FirstNewline(s) = IF I # {} THEN Min(I) ELSE 0
  BY DEF FirstNewline, SelectInSeq
<1>2. Len(s) \in Nat /\ I \in SUBSET (1..Len(s)) /\ I \in SUBSET (0..Len(s))
  OBVIOUS
<1>3. CASE I = {}
  BY <1>1, <1>3
<1>4. CASE I # {}
  <2>1. Min(I) \in I /\ \A j \in I : Min(I) <= j
    <3> HIDE DEF I
    <3> QED
      BY <1>2, <1>4, Extremes
  <2>2. FirstNewline(s) = Min(I)
    BY <1>1, <1>4
  <2>3. Min(I) \in 1..Len(s) /\ s[Min(I)] = "nl"
    BY <2>1
  <2>4. \A i \in 1..(Min(I) - 1) : s[i] # "nl"
    <3> SUFFICES ASSUME NEW i \in 1..(Min(I) - 1), s[i] = "nl" PROVE FALSE
      OBVIOUS
    <3>1. i \in 1..Len(s) /\ ~ (Min(I) <= i)
      BY <1>2, <2>3
    <3> QED
      BY <2>1, <3>1
  <2> QED
    <3> HIDE DEF I
    <3> QED
      BY <2>2, <2>3, <2>4
<1> QED
  BY <1>3, <1>4

\* TrimRight returns a front part of its line, up to the last byte of text.
LEMMA TrimRightIs ==
  ASSUME NEW s \in Seq(Bytes)
  PROVE  \E k \in 0..Len(s) :
           /\ TrimRight(s) = SubSeq(s, 1, k)
           /\ k > 0 => s[k] \notin EOLs
<1> DEFINE I == {i \in 1..Len(s) : s[i] \notin EOLs}
           k == IF I # {} THEN Max(I) ELSE 0
<1>1. TrimRight(s) = SubSeq(s, 1, k)
  BY DEF TrimRight, SelectLastInSeq
<1>2. Len(s) \in Nat /\ I \in SUBSET (1..Len(s)) /\ I \in SUBSET (0..Len(s))
  OBVIOUS
<1>3. k \in 0..Len(s) /\ (k > 0 => s[k] \notin EOLs)
  <2>1. CASE I = {}
    BY <2>1, <1>2
  <2>2. CASE I # {}
    <3>1. Max(I) \in I
      <4> HIDE DEF I
      <4> QED
        BY <1>2, <2>2, Extremes
    <3> QED
      BY <2>2, <3>1
  <2> QED
    BY <2>1, <2>2
<1> QED
  BY <1>1, <1>3

--------------------------------------------------------------------------------
(* Cutting and joining sequences.                                          *)

\* A sequence cut in two and joined is the sequence.
LEMMA CutAndJoin ==
  ASSUME NEW S, NEW s \in Seq(S), NEW n \in 0..Len(s)
  PROVE  /\ SubSeq(s, 1, n) \in Seq(S) /\ SubSeq(s, n + 1, Len(s)) \in Seq(S)
         /\ Len(SubSeq(s, 1, n)) = n /\ Len(SubSeq(s, n + 1, Len(s))) = Len(s) - n
         /\ SubSeq(s, 1, n) \o SubSeq(s, n + 1, Len(s)) = s
<1>1. SubSeq(s, 1, n) \in Seq(S) /\ Len(SubSeq(s, 1, n)) = n
  OBVIOUS
<1>2. SubSeq(s, n + 1, Len(s)) \in Seq(S) /\ Len(SubSeq(s, n + 1, Len(s))) = Len(s) - n
  OBVIOUS
<1>3. SubSeq(s, 1, n) \o SubSeq(s, n + 1, Len(s)) = SubSeq(s, 1, Len(s))
  <2>1. 1 \in 1..(Len(s) + 1) /\ n \in (1 - 1)..Len(s) /\ Len(s) \in n..Len(s)
    OBVIOUS
  <2> QED
    BY <2>1, ConcatAdjacentSubSeq
<1> QED
  BY <1>1, <1>2, <1>3, SubSeqFull

LEMMA Associative ==
  \A a, b, c \in Seq(Bytes) : (a \o b) \o c = a \o (b \o c)
<1> TAKE a, b, c \in Seq(Bytes)
<1> QED
  BY ConcatAssociative

\* What follows a front part is the rest.
LEMMA RestIsTail ==
  ASSUME NEW S, NEW a \in Seq(S), NEW b \in Seq(S)
  PROVE  b = SubSeq(a \o b, Len(a) + 1, Len(a \o b))
<1>1. Len(a) \in Nat /\ Len(b) \in Nat /\ Len(a \o b) = Len(a) + Len(b) /\ a \o b \in Seq(S)
  OBVIOUS
<1>2. CASE b = <<>>
  BY <1>1, <1>2, SubSeqEmpty
<1>3. CASE b # <<>>
  <2>1. Len(b) > 0
    BY <1>3
  <2>2. /\ Len(a) + 1 \in (Len(a) + 1)..(Len(a) + Len(b))
        /\ Len(a) + Len(b) \in (Len(a) + 1)..(Len(a) + Len(b))
    BY <1>1, <2>1
  <2>3. SubSeq(a \o b, Len(a) + 1, Len(a) + Len(b))
          = SubSeq(b, (Len(a) + 1) - Len(a), (Len(a) + Len(b)) - Len(a))
    BY <2>2, SubSeqOfConcat2
  <2>4. (Len(a) + 1) - Len(a) = 1 /\ (Len(a) + Len(b)) - Len(a) = Len(b)
    BY <1>1
  <2> QED
    BY <1>1, <2>3, <2>4, SubSeqFull
<1> QED
  BY <1>2, <1>3

--------------------------------------------------------------------------------
(* The lines of an output: what Ended is at each of its bytes.             *)

NextEnded(s, n, before) ==
  IF n = 0 THEN <<>>
  ELSE IF s[n] # "nl" THEN before
  ELSE WithLine(before, Content(s, Start(s, n), n))

IsEnded(ended, s, n) == ended = [m \in 0..n |-> NextEnded(s, m, ended[m - 1])]

LEMMA EndedExists ==
  ASSUME NEW s, NEW L \in Nat
  PROVE  \E ended : IsEnded(ended, s, L)
<1> DEFINE Missing == {n \in Nat : ~ \E ended : IsEnded(ended, s, n)}
<1> SUFFICES ASSUME Missing # {} PROVE FALSE
  OBVIOUS
<1>1. PICK n \in Missing : \A m \in Missing : n <= m
  <2> HIDE DEF Missing
  <2>1. Missing \in SUBSET Nat
    BY DEF Missing
  <2> QED
    BY <2>1, Least
<1>2. n \in Nat /\ ~ \E ended : IsEnded(ended, s, n)
  OBVIOUS
<1>3. CASE n = 0
  <2> DEFINE k == [m \in 0..0 |-> <<>>]
  <2>1. \A m \in 0..0 : k[m] = NextEnded(s, m, k[m - 1])
    BY DEF NextEnded
  <2>2. k = [m \in 0..0 |-> NextEnded(s, m, k[m - 1])]
    BY <2>1
  <2> HIDE DEF k
  <2> QED
    BY <1>2, <1>3, <2>2 DEF IsEnded
<1>4. CASE n # 0
  <2>1. n - 1 \in Nat /\ ~(n <= n - 1)
    BY <1>2, <1>4
  <2>2. PICK k : IsEnded(k, s, n - 1)
    BY <1>1, <2>1
  <2> DEFINE h == [m \in 0..n |-> IF m < n THEN k[m] ELSE NextEnded(s, n, k[n - 1])]
  <2>3. ASSUME NEW m \in 0..n PROVE h[m] = NextEnded(s, m, h[m - 1])
    <3>1. CASE m = 0
      <4>1. h[m] = k[0]
        BY <1>4, <3>1
      <4>2. k[0] = NextEnded(s, 0, k[0 - 1])
        BY <2>1, <2>2 DEF IsEnded
      <4> QED
        BY <3>1, <4>1, <4>2 DEF NextEnded
    <3>2. CASE m # 0 /\ m < n
      <4>1. m \in 0..(n - 1) /\ m - 1 \in 0..n /\ m - 1 < n
        BY <1>2, <3>2
      <4>2. h[m] = k[m] /\ h[m - 1] = k[m - 1]
        BY <3>2, <4>1
      <4> QED
        BY <2>2, <4>1, <4>2 DEF IsEnded
    <3>3. CASE m = n
      <4>1. n - 1 \in 0..n /\ n - 1 < n /\ ~(m < n)
        BY <1>2, <2>1, <3>3
      <4> QED
        BY <3>3, <4>1
    <3> QED
      BY <1>2, <3>1, <3>2, <3>3
  <2>4. h = [m \in 0..n |-> NextEnded(s, m, h[m - 1])]
    <3>1. h = [m \in 0..n |-> h[m]]
      OBVIOUS
    <3> HIDE DEF h
    <3> QED
      BY <2>3, <3>1
  <2> HIDE DEF h
  <2> QED
    BY <1>2, <2>4 DEF IsEnded
<1> QED
  BY <1>3, <1>4

LEMMA EndedIs ==
  ASSUME NEW s \in Seq(Bytes)
  PROVE  \A n \in 0..Len(s) : Ended(s)[n] = NextEnded(s, n, Ended(s)[n - 1])
<1> DEFINE K == CHOOSE ended : IsEnded(ended, s, Len(s))
<1>1. IsEnded(K, s, Len(s))
  <2>1. Len(s) \in Nat
    OBVIOUS
  <2> QED
    BY <2>1, EndedExists
<1>2. Ended(s) = K
  BY DEF Ended, IsEnded, NextEnded
<1> HIDE DEF K
<1> QED
  BY <1>1, <1>2 DEF IsEnded

--------------------------------------------------------------------------------
(* The stretches between newlines.                                         *)

\* A newline, or the start of the output: where a stretch can begin.
AtLine(s, n) == n = 0 \/ s[n] = "nl"

LEMMA StartIs ==
  ASSUME NEW s \in Seq(Bytes), NEW n \in 0..Len(s), NEW m \in 1..(Len(s) + 1), n < m,
         AtLine(s, n), \A i \in (n + 1)..(m - 1) : s[i] # "nl"
  PROVE  Start(s, m) = n + 1
<1> DEFINE I == {0} \cup {i \in 1..(m - 1) : s[i] = "nl"}
<1>1. m - 1 \in Nat /\ n \in Nat /\ n <= m - 1 /\ I \in SUBSET (0..(m - 1)) /\ I # {}
  OBVIOUS
<1>2. n \in I /\ \A i \in I : i <= n
  BY <1>1 DEF AtLine
<1>3. Start(s, m) = 1 + Max(I)
  BY DEF Start
<1> HIDE DEF I
<1>4. Max(I) \in I /\ \A i \in I : i <= Max(I)
  BY <1>1, Extremes
<1> DEFINE x == Max(I)
<1>5. x \in I /\ \A i \in I : i <= x
  BY <1>4
<1>6. Start(s, m) = 1 + x
  BY <1>3
<1> HIDE DEF x
<1>7. x \in 0..(m - 1) /\ x <= n /\ n <= x
  BY <1>1, <1>2, <1>5
<1> QED
  BY <1>1, <1>6, <1>7

\* A stretch's content is what TrimRight leaves of it.
LEMMA ContentIs ==
  ASSUME NEW s \in Seq(Bytes), NEW n \in 0..Len(s), NEW l \in Seq(Bytes), n + Len(l) <= Len(s),
         \A i \in 1..Len(l) : s[n + i] = l[i]
  PROVE  Content(s, n + 1, n + Len(l)) = TrimRight(l)
<1> DEFINE m == Len(l)
           I == {(n + 1) - 1} \cup {i \in (n + 1)..(n + m) : s[i] \notin EOLs}
           J == {i \in 1..m : l[i] \notin EOLs}
           k == IF J # {} THEN Max(J) ELSE 0
<1>1. TrimRight(l) = SubSeq(l, 1, k)
  BY DEF TrimRight, SelectLastInSeq
<1>2. Content(s, n + 1, n + m) = SubSeq(s, n + 1, Max(I))
  BY DEF Content
<1>3. m \in Nat /\ n \in Nat /\ J \in SUBSET (0..m) /\ J \in SUBSET (1..m)
  OBVIOUS
<1>4. k \in 0..m /\ (k # 0 => k \in J) /\ \A j \in J : j <= k
  <2>1. CASE J = {}
    BY <1>3, <2>1
  <2>2. CASE J # {}
    <3>1. Max(J) \in J /\ \A j \in J : j <= Max(J)
      <4> HIDE DEF J, m
      <4> QED
        BY <1>3, <2>2, Extremes
    <3> QED
      BY <1>3, <2>2, <3>1
  <2> QED
    BY <2>1, <2>2
<1> HIDE DEF k
<1>5. /\ n + k \in I
      /\ \A i \in I : i <= n + k
      /\ I \in SUBSET (0..(n + m)) /\ n + m \in Nat
  <2>1. n + k \in I
    BY <1>3, <1>4
  <2>2. ASSUME NEW i \in I PROVE i <= n + k /\ i \in 0..(n + m)
    <3>1. CASE i = n
      BY <1>3, <1>4, <3>1
    <3>2. CASE i \in (n + 1)..(n + m) /\ s[i] \notin EOLs
      <4> DEFINE j == i - n
      <4>1. j \in 1..m /\ i = n + j
        BY <1>3, <3>2
      <4>2. l[j] \notin EOLs
        BY <3>2, <4>1
      <4> QED
        BY <1>3, <1>4, <4>1, <4>2
    <3> QED
      BY <1>3, <3>1, <3>2
  <2> QED
    BY <1>3, <2>1, <2>2
<1> HIDE DEF I, J
<1>6. Max(I) \in I /\ \A i \in I : i <= Max(I)
  BY <1>5, Extremes
<1> DEFINE x == Max(I)
<1>7. x = n + k
  <2>1. x \in I /\ \A i \in I : i <= x
    BY <1>6
  <2> HIDE DEF x
  <2>2. x \in 0..(n + m) /\ x <= n + k /\ n + k <= x
    BY <1>5, <2>1
  <2> QED
    BY <1>3, <1>4, <2>2
<1>8. SubSeq(s, n + 1, n + k) = SubSeq(l, 1, k)
  BY <1>3, <1>4
<1> QED
  BY <1>1, <1>2, <1>7, <1>8

LEMMA StretchIs ==
  ASSUME NEW s \in Seq(Bytes), NEW m \in 1..(Len(s) + 1), NEW l \in (m - 1)..Len(s)
  PROVE  /\ Start(s, m) \in 1..m
         /\ Content(s, Start(s, m), l) \in Seq(Bytes)
<1> DEFINE I == {0} \cup {i \in 1..(m - 1) : s[i] = "nl"}
           a == Start(s, m)
           J == {a - 1} \cup {i \in a..l : s[i] \notin EOLs}
<1>1. a = 1 + Max(I) /\ I \in SUBSET (0..(m - 1)) /\ I # {} /\ m - 1 \in Nat
  BY DEF Start
<1>2. Max(I) \in I
  <2> HIDE DEF I
  <2> QED
    BY <1>1, Extremes
<1>3. a \in 1..m
  <2> DEFINE x == Max(I)
  <2>1. x \in 0..(m - 1) /\ a = 1 + x
    <3> HIDE DEF I
    <3> QED
      BY <1>1, <1>2
  <2> HIDE DEF x, a
  <2> QED
    BY <2>1
<1> HIDE DEF a
<1>4. J \in SUBSET (0..l) /\ J # {} /\ l \in Nat
  BY <1>3
<1>5. Content(s, a, l) = SubSeq(s, a, Max(J))
  BY DEF Content
<1> HIDE DEF J
<1>6. Max(J) \in 0..Len(s)
  <2>1. Max(J) \in J
    BY <1>4, Extremes
  <2> DEFINE x == Max(J)
  <2>2. x \in 0..l
    BY <1>4, <2>1
  <2> HIDE DEF x
  <2>3. x \in 0..Len(s)
    BY <2>2
  <2> QED
    BY <2>3 DEF x
<1> DEFINE x == Max(J)
<1>7. Content(s, a, l) = SubSeq(s, a, x) /\ x \in 0..Len(s)
  BY <1>5, <1>6
<1> HIDE DEF x
<1>8. SubSeq(s, a, x) \in Seq(Bytes)
  BY <1>3, <1>7
<1> QED
  BY <1>3, <1>7, <1>8 DEF a

\* Every byte leaves the lines before it as they are, or adds one.
LEMMA EndedGrows ==
  ASSUME NEW s \in Seq(Bytes)
  PROVE  /\ \A n \in 0..Len(s) : Ended(s)[n] \in Seq(Seq(Bytes))
         /\ Ended(s)[0] = <<>>
<1> DEFINE L == Len(s)
           E == Ended(s)
           Bad == {n \in 0..L : E[n] \notin Seq(Seq(Bytes))}
<1>0. L \in Nat
  OBVIOUS
<1>1. \A n \in 0..L : E[n] = NextEnded(s, n, E[n - 1])
  BY EndedIs
<1>2. E[0] = <<>>
  BY <1>0, <1>1 DEF NextEnded
<1>3. SUFFICES ASSUME Bad # {} PROVE FALSE
  BY <1>2
<1>4. PICK n \in Bad : \A m \in Bad : n <= m
  <2>1. Bad \in SUBSET Nat
    BY <1>0
  <2> HIDE DEF Bad
  <2> QED
    BY <1>3, <2>1, Least
<1>5. n \in 0..L /\ E[n] \notin Seq(Seq(Bytes))
  OBVIOUS
<1>6. n # 0
  <2>1. <<>> \in Seq(Seq(Bytes))
    OBVIOUS
  <2> HIDE DEF E
  <2> QED
    BY <1>2, <1>5, <2>1
<1> HIDE DEF L
<1>7. n - 1 \in 0..L /\ ~(n <= n - 1) /\ n \in 1..L
  BY <1>0, <1>5, <1>6
<1>8. E[n - 1] \in Seq(Seq(Bytes))
  BY <1>4, <1>7
<1> HIDE DEF E
<1> DEFINE c == Content(s, Start(s, n), n)
<1>9. c \in Seq(Bytes)
  <2>1. n \in 1..(Len(s) + 1) /\ n \in (n - 1)..Len(s)
    BY <1>0, <1>7 DEF L
  <2> QED
    BY <2>1, StretchIs
<1>10. E[n] = IF s[n] # "nl" THEN E[n - 1] ELSE WithLine(E[n - 1], c)
  BY <1>1, <1>5, <1>6 DEF NextEnded
<1> HIDE DEF c
<1>11. WithLine(E[n - 1], c) \in Seq(Seq(Bytes))
  BY <1>8, <1>9 DEF WithLine
<1> QED
  BY <1>5, <1>8, <1>10, <1>11

\* A front part of a sequence, position by position.
Begins(a, b) == Len(a) <= Len(b) /\ \A i \in 1..Len(a) : a[i] = b[i]

LEMMA BeginsIsPrefix ==
  ASSUME NEW S, NEW a \in Seq(S), NEW b \in Seq(S), Begins(a, b)
  PROVE  IsPrefix(a, b)
<1>1. Len(a) <= Len(b) /\ SubSeq(a, 1, Len(a)) = a
  BY SubSeqFull DEF Begins
<1>2. SubSeq(b, 1, Len(a)) = a
  BY DEF Begins
<1> QED
  BY <1>1, <1>2 DEF IsPrefix

LEMMA WithLineBegins ==
  ASSUME NEW a \in Seq(Seq(Bytes)), NEW b \in Seq(Seq(Bytes)), NEW c \in Seq(Bytes), Begins(a, b)
  PROVE  WithLine(b, c) \in Seq(Seq(Bytes)) /\ Begins(a, WithLine(b, c))
<1>1. CASE c = <<>>
  BY <1>1 DEF WithLine
<1>2. CASE c # <<>>
  <2>1. WithLine(b, c) = Append(b, c)
    BY <1>2 DEF WithLine
  <2>2. Append(b, c) \in Seq(Seq(Bytes)) /\ Begins(a, Append(b, c))
    BY DEF Begins
  <2> QED
    BY <2>1, <2>2
<1> QED
  BY <1>1, <1>2

\* What follows only adds lines.
LEMMA EndedBegins ==
  ASSUME NEW s \in Seq(Bytes), NEW n \in 0..Len(s), NEW m \in n..Len(s)
  PROVE  Begins(Ended(s)[n], Ended(s)[m])
<1> DEFINE L == Len(s)
           E == Ended(s)
           Bad == {k \in n..L : ~Begins(E[n], E[k])}
<1>0. L \in Nat /\ n \in Nat
  OBVIOUS
<1>1. \A k \in 0..L : E[k] = NextEnded(s, k, E[k - 1]) /\ E[k] \in Seq(Seq(Bytes))
  BY EndedIs, EndedGrows
<1>2. SUFFICES ASSUME Bad # {} PROVE FALSE
  OBVIOUS
<1>3. PICK k \in Bad : \A j \in Bad : k <= j
  <2>1. Bad \in SUBSET Nat
    BY <1>0
  <2> HIDE DEF Bad
  <2> QED
    BY <1>2, <2>1, Least
<1>4. k \in n..L /\ ~Begins(E[n], E[k])
  OBVIOUS
<1> HIDE DEF L
<1>5. k # n
  BY <1>4 DEF Begins
<1>6. k - 1 \in n..L /\ ~(k <= k - 1) /\ k \in 1..L /\ k # 0 /\ k \in 0..L /\ k - 1 \in 0..L
  BY <1>0, <1>4, <1>5
<1>7. Begins(E[n], E[k - 1])
  BY <1>3, <1>6
<1> HIDE DEF E
<1> DEFINE c == Content(s, Start(s, k), k)
<1>8. c \in Seq(Bytes)
  <2>1. k \in 1..(Len(s) + 1) /\ k \in (k - 1)..Len(s)
    BY <1>0, <1>6 DEF L
  <2> QED
    BY <2>1, StretchIs
<1>9. E[k] = IF s[k] # "nl" THEN E[k - 1] ELSE WithLine(E[k - 1], c)
  BY <1>1, <1>6 DEF NextEnded
<1> HIDE DEF c
<1>10. E[n] \in Seq(Seq(Bytes)) /\ E[k - 1] \in Seq(Seq(Bytes))
  <2>1. n \in 0..L
    BY <1>0, <1>6
  <2> QED
    BY <1>1, <1>6, <2>1
<1>11. Begins(E[n], WithLine(E[k - 1], c))
  BY <1>7, <1>8, <1>10, WithLineBegins
<1> QED
  BY <1>4, <1>7, <1>9, <1>11

\* Bytes that are no newline end no line.
LEMMA EndedStays ==
  ASSUME NEW s \in Seq(Bytes), NEW n \in 0..Len(s), NEW m \in n..Len(s),
         \A i \in (n + 1)..m : s[i] # "nl"
  PROVE  Ended(s)[m] = Ended(s)[n]
<1> DEFINE E == Ended(s)
           Bad == {k \in n..m : E[k] # E[n]}
<1>0. Len(s) \in Nat /\ n \in Nat /\ m \in Nat /\ m <= Len(s)
  OBVIOUS
<1>1. \A k \in 0..Len(s) : E[k] = NextEnded(s, k, E[k - 1])
  BY EndedIs
<1> HIDE DEF E
<1>2. SUFFICES ASSUME Bad # {} PROVE FALSE
  BY <1>0 DEF E
<1>3. PICK k \in Bad : \A j \in Bad : k <= j
  <2>1. Bad \in SUBSET Nat
    BY <1>0
  <2> HIDE DEF Bad
  <2> QED
    BY <1>2, <2>1, Least
<1>4. k \in n..m /\ E[k] # E[n]
  OBVIOUS
<1>5. k - 1 \in n..m /\ ~(k <= k - 1) /\ k # 0 /\ k \in 0..Len(s) /\ k \in (n + 1)..m
  BY <1>0, <1>4
<1>6. E[k - 1] = E[n]
  BY <1>3, <1>5
<1>7. E[k] = E[k - 1]
  BY <1>1, <1>5 DEF NextEnded
<1> QED
  BY <1>4, <1>6, <1>7

\* More output does not change the lines of what there was.
LEMMA EndedOfLonger ==
  ASSUME NEW s \in Seq(Bytes), NEW t \in Seq(Bytes), Len(s) <= Len(t),
         \A i \in 1..Len(s) : t[i] = s[i]
  PROVE  \A n \in 0..Len(s) : Ended(t)[n] = Ended(s)[n]
<1> DEFINE L == Len(s)
           E == Ended(s)
           F == Ended(t)
           Bad == {k \in 0..L : F[k] # E[k]}
<1>0. L \in Nat /\ Len(t) \in Nat
  OBVIOUS
<1>1. \A k \in 0..L : E[k] = NextEnded(s, k, E[k - 1]) /\ F[k] = NextEnded(t, k, F[k - 1])
  BY <1>0, EndedIs
<1> HIDE DEF E, F
<1>2. SUFFICES ASSUME Bad # {} PROVE FALSE
  BY DEF E, F
<1>3. PICK k \in Bad : \A j \in Bad : k <= j
  <2>1. Bad \in SUBSET Nat
    BY <1>0
  <2> HIDE DEF Bad
  <2> QED
    BY <1>2, <2>1, Least
<1>4. k \in 0..L /\ F[k] # E[k]
  OBVIOUS
<1>5. CASE k = 0
  BY <1>1, <1>4, <1>5 DEF NextEnded
<1>6. CASE k # 0
  <2>1. k - 1 \in 0..L /\ ~(k <= k - 1) /\ k \in 1..L
    BY <1>0, <1>4, <1>6
  <2>2. F[k - 1] = E[k - 1]
    BY <1>3, <2>1
  <2>3. t[k] = s[k]
    BY <2>1
  <2>4. Start(t, k) = Start(s, k)
    <3>1. \A i \in 1..(k - 1) : t[i] = s[i]
      BY <1>0, <2>1
    <3>2. {i \in 1..(k - 1) : t[i] = "nl"} = {i \in 1..(k - 1) : s[i] = "nl"}
      BY <3>1
    <3> QED
      BY <3>2 DEF Start
  <2>5. Content(t, Start(s, k), k) = Content(s, Start(s, k), k)
    <3> DEFINE a == Start(s, k)
               J == {a - 1} \cup {i \in a..k : s[i] \notin EOLs}
               x == Max(J)
    <3>1. a \in 1..k
      <4>1. k \in 1..(Len(s) + 1) /\ k \in (k - 1)..Len(s)
        BY <1>0, <2>1
      <4> QED
        BY <4>1, StretchIs
    <3> HIDE DEF a
    <3>2. \A i \in a..k : t[i] = s[i]
      BY <1>0, <2>1, <3>1
    <3>3. {a - 1} \cup {i \in a..k : t[i] \notin EOLs} = J
      BY <3>2
    <3>4. Content(t, a, k) = SubSeq(t, a, x) /\ Content(s, a, k) = SubSeq(s, a, x)
      BY <3>3 DEF Content
    <3>5. J \in SUBSET (0..k) /\ J # {} /\ k \in Nat
      BY <2>1, <3>1
    <3>6. x \in J
      <4> HIDE DEF J
      <4> QED
        BY <3>5, Extremes
    <3>7. x \in 0..k
      <4> HIDE DEF x
      <4> QED
        BY <3>5, <3>6
    <3> HIDE DEF x
    <3>8. SubSeq(t, a, x) = SubSeq(s, a, x)
      <4>1. x <= Len(s) /\ x <= Len(t) /\ x \in Nat
        BY <1>0, <2>1, <3>7
      <4>2. \A i \in a..x : t[i] = s[i]
        BY <3>2, <3>1, <3>7
      <4> QED
        BY <1>0, <3>1, <4>1, <4>2
    <3> QED
      BY <3>4, <3>8 DEF a
  <2>6. NextEnded(t, k, F[k - 1]) = NextEnded(s, k, E[k - 1])
    BY <2>2, <2>3, <2>4, <2>5 DEF NextEnded
  <2> QED
    BY <1>1, <1>4, <2>6
<1> QED
  BY <1>5, <1>6

--------------------------------------------------------------------------------
(* What onLine is called with.                                             *)

\* A stretch is handed out as a line of bytes, or not at all.
LEMMA DeliverTypes ==
  ASSUME NEW s \in Seq(Bytes), lines \in Seq(Seq(Bytes)), Deliver(s)
  PROVE  lines' \in Seq(Seq(Bytes))
<1>1. PICK k \in 0..Len(s) : TrimRight(s) = SubSeq(s, 1, k)
  BY TrimRightIs
<1>2. TrimRight(s) \in Seq(Bytes)
  BY <1>1
<1> QED
  BY <1>2 DEF Deliver

--------------------------------------------------------------------------------
(* The inductive invariant: the types; what the child still has to write   *)
(* fits the bound; what was written is what the call has handed out or     *)
(* trimmed off, then buf, then the pipe.                                   *)

InOrder == \E gone \in Seq(Bytes) : written = gone \o (buf \o pipe)

IInv ==
  /\ TypeOK
  /\ Len(written) + Len(text) <= MaxOutput
  /\ InOrder

LEMMA InitIInv == Init => IInv
<1> SUFFICES ASSUME Init PROVE IInv
  OBVIOUS
<1>1. TypeOK /\ Len(written) + Len(text) <= MaxOutput
  <2>1. <<>> \in Seq(Bytes) /\ <<>> \in Seq(Seq(Bytes)) /\ Len(<<>>) = 0
    OBVIOUS
  <2>2. /\ Len(text) + Len(written) = 0 /\ Len(written) + Len(text) = 0 /\ Len(pipe) = 0
        /\ text \in Seq(Bytes) /\ written \in Seq(Bytes) /\ pipe \in Seq(Bytes)
        /\ buf \in Seq(Bytes) /\ lines \in Seq(Seq(Bytes))
    BY <2>1 DEF Init
  <2>3. /\ Len(text) <= MaxWrite /\ Len(written) <= MaxOutput /\ Len(pipe) <= PipeCap
        /\ Len(written) + Len(text) <= MaxOutput
    BY <2>1, SizesAssumption DEF Init, SizesAssumption
  <2>4. prompt \in 0..PromptLen /\ stdin \in 0..StdinCap
    BY SizesAssumption DEF Init, SizesAssumption
  <2> QED
    BY <2>2, <2>3, <2>4 DEF Init, TypeOK
<1>2. InOrder
  <2>1. <<>> \in Seq(Bytes) /\ written = <<>> \o (buf \o pipe)
    BY DEF Init
  <2> QED
    BY <2>1 DEF InOrder
<1> QED
  BY <1>1, <1>2 DEF IInv

\* A step that leaves the output alone.
LEMMA SameOutput ==
  ASSUME InOrder, UNCHANGED <<written, pipe, buf>>
  PROVE  InOrder'
  BY DEF InOrder

LEMMA BeginWriteIInv == IInv /\ BeginWrite => IInv'
<1> SUFFICES ASSUME IInv, BeginWrite PROVE IInv'
  OBVIOUS
<1>1. PICK n \in 1..MaxWrite : Len(written) + n <= MaxOutput /\ text' \in [1..n -> Bytes]
  BY DEF BeginWrite
<1>2. text' \in Seq(Bytes) /\ Len(text') = n
  BY <1>1
<1>3. UNCHANGED <<written, pipe, buf, lines>>
  BY DEF BeginWrite, outVars, readerVars
<1>4. TypeOK' /\ (Len(written) + Len(text) <= MaxOutput)'
  BY <1>1, <1>2 DEF IInv, TypeOK, BeginWrite, outVars, readerVars, stdinVars
<1> QED
  BY <1>3, <1>4, SameOutput DEF IInv

LEMMA WriteSomeIInv == IInv /\ WriteSome => IInv'
<1> SUFFICES ASSUME IInv, WriteSome PROVE IInv'
  OBVIOUS
<1>0. /\ text \in Seq(Bytes) /\ written \in Seq(Bytes) /\ pipe \in Seq(Bytes) /\ buf \in Seq(Bytes)
      /\ Len(text) <= MaxWrite /\ Len(written) + Len(text) <= MaxOutput
  BY DEF IInv, TypeOK
<1>1. PICK n \in 1..Len(text) :
        /\ Len(pipe) + n <= PipeCap
        /\ written' = written \o SubSeq(text, 1, n)
        /\ pipe' = pipe \o SubSeq(text, 1, n)
        /\ text' = SubSeq(text, n + 1, Len(text))
        /\ op' = IF n = Len(text) THEN "free" ELSE "writing"
  BY DEF WriteSome
<1> DEFINE t == SubSeq(text, 1, n)
<1>2. t \in Seq(Bytes) /\ Len(t) = n /\ text' \in Seq(Bytes) /\ Len(text') = Len(text) - n
  <2>1. n \in 0..Len(text)
    BY <1>0
  <2> QED
    BY <1>0, <1>1, <2>1, CutAndJoin
<1> HIDE DEF t
<1>3. written' = written \o t /\ pipe' = pipe \o t
  BY <1>1 DEF t
<1>4. written' \in Seq(Bytes) /\ Len(written') = Len(written) + n
  BY <1>0, <1>2, <1>3, ConcatProperties
<1>5. pipe' \in Seq(Bytes) /\ Len(pipe') = Len(pipe) + n
  BY <1>0, <1>2, <1>3, ConcatProperties
<1>6. UNCHANGED <<buf, lines>>
  BY DEF WriteSome, readerVars
<1>7. TypeOK' /\ (Len(written) + Len(text) <= MaxOutput)'
  <2>1. /\ Len(text') <= MaxWrite /\ Len(written') <= MaxOutput /\ Len(pipe') <= PipeCap
        /\ Len(written') + Len(text') <= MaxOutput
    <3>1. Len(text) \in Nat /\ Len(written) \in Nat /\ Len(pipe) \in Nat /\ n \in 1..Len(text)
      BY <1>0
    <3>2. Len(text') = Len(text) - n /\ Len(written') = Len(written) + n /\ Len(pipe') <= PipeCap
      BY <1>1, <1>2, <1>4, <1>5
    <3>3. \A i, j, k \in Nat : \A m \in 1..i :
            i <= MaxWrite /\ j + i <= MaxOutput
              => i - m <= MaxWrite /\ j + m <= MaxOutput /\ (j + m) + (i - m) <= MaxOutput
      BY SizesAssumption DEF SizesAssumption
    <3> QED
      BY <1>0, <3>1, <3>2, <3>3
  <2>2. op' \in {"free", "reading", "writing", "exited"}
    BY <1>1
  <2> QED
    BY <2>1, <2>2, <1>2, <1>4, <1>5 DEF IInv, TypeOK, WriteSome, readerVars, stdinVars
<1>8. InOrder'
  <2>1. PICK gone \in Seq(Bytes) : written = gone \o (buf \o pipe)
    BY DEF IInv, InOrder
  <2>2. buf \o pipe \in Seq(Bytes)
    BY <1>0, ConcatProperties
  <2>3. written' = gone \o ((buf \o pipe) \o t)
    BY <1>2, <1>3, <2>1, <2>2, Associative
  <2>4. (buf \o pipe) \o t = buf \o (pipe \o t)
    <3>1. buf \in Seq(Bytes) /\ pipe \in Seq(Bytes) /\ t \in Seq(Bytes)
      BY <1>0, <1>2
    <3> QED
      BY <3>1, Associative, Zenon
  <2>5. written' = gone \o (buf' \o pipe')
    BY <1>3, <1>6, <2>3, <2>4
  <2> QED
    BY <2>5 DEF InOrder
<1> QED
  BY <1>7, <1>8 DEF IInv

\* The rest of the child's steps, and those of the copying goroutine.
LEMMA StdinIInv ==
  IInv /\ (BeginRead \/ ReadPrompt \/ ReadPromptEOF \/ ChildExits \/ ChildKilled \/ Feeder) => IInv'
<1> SUFFICES ASSUME IInv,
                    BeginRead \/ ReadPrompt \/ ReadPromptEOF \/ ChildExits \/ ChildKilled
                      \/ Feed \/ FeedEnds
             PROVE  IInv'
  BY DEF Feeder
<1> USE DEF IInv, outVars, readerVars, stdinVars, childVars
<1>1. UNCHANGED <<written, pipe, buf, lines>>
  BY DEF BeginRead, ReadPrompt, ReadPromptEOF, ChildExits, ChildKilled, Feed, FeedEnds
<1>2. TypeOK' /\ (Len(written) + Len(text) <= MaxOutput)'
  <2>1. CASE BeginRead \/ ReadPromptEOF \/ ChildExits
    BY <2>1 DEF TypeOK, BeginRead, ReadPromptEOF, ChildExits
  <2>2. CASE ChildKilled
    <3>1. <<>> \in Seq(Bytes) /\ Len(<<>>) = 0 /\ Len(written) \in Nat /\ Len(text) \in Nat
      BY DEF TypeOK
    <3>2. 0 <= MaxWrite /\ Len(written) + 0 <= MaxOutput
      BY <3>1, SizesAssumption DEF TypeOK, SizesAssumption
    <3> QED
      BY <2>2, <3>1, <3>2 DEF TypeOK, ChildKilled
  <2>3. CASE ReadPrompt
    <3>1. stdin' \in 0..StdinCap
      BY <2>3, SizesAssumption DEF TypeOK, ReadPrompt, SizesAssumption
    <3> QED
      BY <2>3, <3>1 DEF TypeOK, ReadPrompt
  <2>4. CASE Feed
    <3>1. prompt' \in 0..PromptLen /\ stdin' \in 0..StdinCap
      BY <2>4, SizesAssumption DEF TypeOK, Feed, SizesAssumption
    <3> QED
      BY <2>4, <3>1 DEF TypeOK, Feed
  <2>5. CASE FeedEnds
    BY <2>5 DEF TypeOK, FeedEnds
  <2> QED
    BY <2>1, <2>2, <2>3, <2>4, <2>5
<1> QED
  BY <1>1, <1>2, SameOutput

LEMMA FillIInv == IInv /\ Fill => IInv'
<1> SUFFICES ASSUME IInv, Fill PROVE IInv'
  OBVIOUS
<1>0. pipe \in Seq(Bytes) /\ Len(pipe) <= PipeCap /\ buf \in Seq(Bytes)
  BY DEF IInv, TypeOK
<1>1. PICK n \in 1..Len(pipe) :
        /\ buf' = buf \o SubSeq(pipe, 1, n)
        /\ pipe' = SubSeq(pipe, n + 1, Len(pipe))
  BY DEF Fill
<1> DEFINE t == SubSeq(pipe, 1, n)
<1>2. /\ t \in Seq(Bytes) /\ pipe' \in Seq(Bytes) /\ Len(pipe') = Len(pipe) - n
      /\ t \o pipe' = pipe
  <2>1. n \in 0..Len(pipe)
    BY <1>0
  <2> QED
    BY <1>0, <1>1, <2>1, CutAndJoin
<1> HIDE DEF t
<1>3. buf' = buf \o t /\ buf' \in Seq(Bytes)
  BY <1>0, <1>1, <1>2, ConcatProperties DEF t
<1>4. UNCHANGED <<written, lines, text>>
  BY DEF Fill, childVars
<1>5. TypeOK' /\ (Len(written) + Len(text) <= MaxOutput)'
  <2>1. Len(pipe') <= PipeCap
    BY <1>0, <1>2, SizesAssumption DEF SizesAssumption
  <2> QED
    BY <2>1, <1>2, <1>3 DEF IInv, TypeOK, Fill, childVars, stdinVars
<1>6. InOrder'
  <2>1. (buf \o t) \o pipe' = buf \o (t \o pipe')
    BY <1>0, <1>2, Associative
  <2>2. buf' \o pipe' = buf \o pipe
    BY <1>2, <1>3, <2>1
  <2> QED
    BY <2>2, <1>4 DEF IInv, InOrder
<1> QED
  BY <1>5, <1>6 DEF IInv

\* Taking a front part from buf keeps the order of what is left.
LEMMA TakenInOrder ==
  ASSUME NEW gone \in Seq(Bytes), NEW b \in Seq(Bytes), NEW p \in Seq(Bytes), NEW n \in 0..Len(b)
  PROVE  /\ SubSeq(b, n + 1, Len(b)) \in Seq(Bytes)
         /\ \E g \in Seq(Bytes) : gone \o (b \o p) = g \o (SubSeq(b, n + 1, Len(b)) \o p)
<1> DEFINE t == SubSeq(b, 1, n)
           r == SubSeq(b, n + 1, Len(b))
<1>1. t \in Seq(Bytes) /\ r \in Seq(Bytes)
  BY CutAndJoin
<1>2. t \o r = b
  BY CutAndJoin
<1> HIDE DEF t, r
<1> DEFINE q == r \o p
           g == gone \o t
<1>3. q \in Seq(Bytes)
  BY <1>1, ConcatProperties
<1>4. (t \o r) \o p = t \o q
  BY <1>1, Associative
<1> HIDE DEF q
<1>5. g \o q = gone \o (t \o q)
  BY <1>1, <1>3, Associative, SMTT(60)
<1>6. gone \o (b \o p) = g \o q
  BY <1>2, <1>4, <1>5
<1>7. g \in Seq(Bytes)
  BY <1>1, ConcatProperties
<1> HIDE DEF g
<1> QED
  BY <1>1, <1>6, <1>7 DEF q, r

LEMMA TakenFromBuf ==
  ASSUME IInv, NEW n \in 0..Len(buf), buf' = SubSeq(buf, n + 1, Len(buf)),
         UNCHANGED <<written, pipe>>
  PROVE  InOrder' /\ buf' \in Seq(Bytes)
<1>1. PICK gone \in Seq(Bytes) : written = gone \o (buf \o pipe)
  BY DEF IInv, InOrder
<1>2. buf \in Seq(Bytes) /\ pipe \in Seq(Bytes)
  BY DEF IInv, TypeOK
<1> QED
  BY <1>1, <1>2, TakenInOrder DEF InOrder

LEMMA TakeLineIInv == IInv /\ TakeLine => IInv'
<1> SUFFICES ASSUME IInv, TakeLine PROVE IInv'
  OBVIOUS
<1> USE DEF IInv
<1> DEFINE n == FirstNewline(buf)
           s == SubSeq(buf, 1, n)
<1>1. /\ n > 0 /\ Deliver(s)
      /\ buf' = SubSeq(buf, n + 1, Len(buf))
  BY DEF TakeLine
<1>2. n \in 1..Len(buf) /\ n \in 0..Len(buf)
  BY <1>1, FirstNewlineIs DEF TypeOK
<1> HIDE DEF n
<1>3. s \in Seq(Bytes)
  BY <1>2 DEF TypeOK
<1> HIDE DEF s
<1>4. lines' \in Seq(Seq(Bytes))
  BY <1>1, <1>3, DeliverTypes DEF TypeOK
<1>5. UNCHANGED <<written, pipe>>
  BY DEF TakeLine, outVars
<1>6. InOrder' /\ buf' \in Seq(Bytes)
  BY <1>1, <1>2, <1>5, TakenFromBuf
<1>7. TypeOK' /\ (Len(written) + Len(text) <= MaxOutput)'
  BY <1>4, <1>6 DEF TypeOK, TakeLine, childVars, outVars, stdinVars
<1> QED
  BY <1>6, <1>7

\* The loop ends, at EOF or on an error: with what ReadString had.
LEMMA LoopEndsIInv == IInv /\ (ReadEOF \/ ReadFails) => IInv'
<1> SUFFICES ASSUME IInv, ReadEOF \/ ReadFails PROVE IInv'
  OBVIOUS
<1> USE DEF IInv
<1>1. FirstNewline(buf) = 0 /\ Deliver(buf) /\ buf' = <<>> /\ UNCHANGED <<written, pipe>>
  BY DEF ReadEOF, ReadFails, outVars
<1>3. lines' \in Seq(Seq(Bytes))
  BY <1>1, DeliverTypes DEF TypeOK
<1>4. Len(buf) \in 0..Len(buf) /\ buf' = SubSeq(buf, Len(buf) + 1, Len(buf))
  BY <1>1, SubSeqEmpty DEF TypeOK
<1>5. InOrder' /\ buf' \in Seq(Bytes)
  BY <1>1, <1>4, TakenFromBuf
<1>6. TypeOK' /\ (Len(written) + Len(text) <= MaxOutput)'
  BY <1>1, <1>3, <1>5 DEF TypeOK, ReadEOF, ReadFails, childVars, outVars, stdinVars
<1> QED
  BY <1>5, <1>6

LEMMA WaitIInv == IInv /\ (WaitProcess \/ WaitFeeder) => IInv'
<1> SUFFICES ASSUME IInv, WaitProcess \/ WaitFeeder PROVE IInv'
  OBVIOUS
<1> USE DEF IInv, childVars, outVars, stdinVars
<1>1. UNCHANGED <<written, pipe, buf, lines>>
  BY DEF WaitProcess, WaitFeeder
<1>2. TypeOK' /\ (Len(written) + Len(text) <= MaxOutput)'
  BY DEF TypeOK, WaitProcess, WaitFeeder
<1> QED
  BY <1>1, <1>2, SameOutput

LEMMA NextIInv == IInv /\ [Next]_vars => IInv'
<1> SUFFICES ASSUME IInv, [Next]_vars PROVE IInv'
  OBVIOUS
<1>1. CASE BeginWrite
  BY <1>1, BeginWriteIInv
<1>2. CASE WriteSome
  BY <1>2, WriteSomeIInv
<1>3. CASE BeginRead \/ ReadPrompt \/ ReadPromptEOF \/ ChildExits \/ ChildKilled \/ Feeder
  BY <1>3, StdinIInv
<1>4. CASE Fill
  BY <1>4, FillIInv
<1>5. CASE TakeLine
  BY <1>5, TakeLineIInv
<1>6. CASE ReadEOF \/ ReadFails
  BY <1>6, LoopEndsIInv
<1>7. CASE WaitProcess \/ WaitFeeder
  BY <1>7, WaitIInv
<1>8. CASE UNCHANGED vars
  BY <1>8, SameOutput DEF IInv, TypeOK, vars, childVars, outVars, readerVars, stdinVars
<1> QED
  BY <1>1, <1>2, <1>3, <1>4, <1>5, <1>6, <1>7, <1>8 DEF Next, Child, Reader

THEOREM Invariant == FairSpec => []IInv
  BY InitIInv, NextIInv, PTL DEF FairSpec

--------------------------------------------------------------------------------
(* What the loop has handed out: the lines that end among the bytes it has *)
(* taken from the front of the output, up to a newline.                    *)

\* The output from n on is what is in buf, then what is in the pipe.
RestFrom(n) ==
  /\ Len(written) = n + (Len(buf) + Len(pipe))
  /\ \A i \in 1..Len(buf) : written[n + i] = buf[i]
  /\ \A i \in 1..Len(pipe) : written[(n + Len(buf)) + i] = pipe[i]

HandedOut(n) == RestFrom(n) /\ AtLine(written, n) /\ lines = Ended(written)[n]

\* What the loop has read when it is over, and that this is everything unless a
\* read failed.
Gone == SubSeq(written, 1, Len(written) - Len(pipe))

AllHandedOut ==
  /\ buf = <<>> /\ lines = LinesOf(Gone)
  /\ ~scanErr => pipe = <<>> /\ op = "exited"

Delivered ==
  IF loop = "reading" THEN \E n \in 0..Len(written) : HandedOut(n) ELSE AllHandedOut

LEMMA DeliveredInit == Init => Delivered
<1> SUFFICES ASSUME Init PROVE Delivered
  OBVIOUS
<1>1. <<>> \in Seq(Bytes) /\ 0 \in 0..Len(<<>>) /\ Len(<<>>) = 0
  OBVIOUS
<1>2. Ended(<<>>)[0] = <<>>
  BY <1>1, EndedGrows
<1>3. 0 \in 0..Len(written) /\ HandedOut(0)
  BY <1>1, <1>2 DEF Init, HandedOut, RestFrom, AtLine
<1> QED
  BY <1>3 DEF Delivered, Init

\* What a step that leaves the output and the loop alone does.
LEMMA DeliveredSame ==
  ASSUME Delivered, UNCHANGED <<written, pipe, buf, lines, loop, scanErr>>, op = "exited" => op' = "exited"
  PROVE  Delivered'
BY DEF Delivered, HandedOut, RestFrom, AllHandedOut, Gone

\* The pipe holds the end of the output.
LEMMA PipeIsTail ==
  ASSUME IInv
  PROVE  Len(pipe) <= Len(written) /\ Len(buf) + Len(pipe) <= Len(written)
<1>1. PICK gone \in Seq(Bytes) : written = gone \o (buf \o pipe)
  BY DEF IInv, InOrder
<1>2. buf \in Seq(Bytes) /\ pipe \in Seq(Bytes)
  BY DEF IInv, TypeOK
<1>3. Len(written) = Len(gone) + (Len(buf) + Len(pipe))
  BY <1>1, <1>2, ConcatProperties
<1> QED
  BY <1>2, <1>3

LEMMA DeliveredWrite ==
  ASSUME IInv, Delivered, WriteSome
  PROVE  Delivered'
<1>0. /\ text \in Seq(Bytes) /\ written \in Seq(Bytes) /\ pipe \in Seq(Bytes) /\ buf \in Seq(Bytes)
      /\ op = "writing" /\ UNCHANGED <<buf, lines, loop, scanErr>>
  BY DEF IInv, TypeOK, WriteSome, readerVars
<1>1. PICK k \in 1..Len(text) :
        written' = written \o SubSeq(text, 1, k) /\ pipe' = pipe \o SubSeq(text, 1, k)
  BY DEF WriteSome
<1> DEFINE t == SubSeq(text, 1, k)
<1>2. t \in Seq(Bytes)
  BY <1>0
<1> HIDE DEF t
<1>3. /\ written' \in Seq(Bytes) /\ Len(written') = Len(written) + Len(t)
      /\ \A i \in 1..Len(written) : written'[i] = written[i]
      /\ \A i \in 1..Len(t) : written'[Len(written) + i] = t[i]
  BY <1>0, <1>1, <1>2 DEF t
<1>4. /\ Len(pipe') = Len(pipe) + Len(t)
      /\ \A i \in 1..Len(pipe) : pipe'[i] = pipe[i]
      /\ \A i \in 1..Len(t) : pipe'[Len(pipe) + i] = t[i]
  BY <1>0, <1>1, <1>2 DEF t
<1>5. CASE loop # "reading"
  <2>1. Len(pipe) <= Len(written)
    BY PipeIsTail
  <2>2. Gone' = Gone
    <3>1. Len(written) - Len(pipe) \in 0..Len(written)
          /\ Len(written') - Len(pipe') = Len(written) - Len(pipe)
      BY <1>0, <1>2, <1>3, <1>4, <2>1
    <3> DEFINE k1 == Len(written) - Len(pipe)
    <3>2. SubSeq(written', 1, k1) = SubSeq(written, 1, k1)
      <4>1. k1 \in 0..Len(written)
        BY <3>1
      <4> HIDE DEF k1
      <4> QED
        BY <1>0, <1>2, <1>3, <4>1
    <3> QED
      BY <3>1, <3>2 DEF Gone
  <2>3. AllHandedOut /\ scanErr
    BY <1>0, <1>5 DEF Delivered, AllHandedOut
  <2> QED
    BY <1>0, <1>5, <2>2, <2>3 DEF Delivered, AllHandedOut
<1>6. SUFFICES ASSUME loop = "reading" PROVE \E n \in 0..Len(written') : HandedOut(n)'
  BY <1>0, <1>5 DEF Delivered
<1>7. PICK n \in 0..Len(written) : HandedOut(n)
  BY <1>6 DEF Delivered
<1>8. n \in 0..Len(written')
  BY <1>0, <1>2, <1>3
<1>9. RestFrom(n)'
  <2>1. /\ Len(written') = n + (Len(buf) + Len(pipe'))
        /\ \A i \in 1..Len(buf) : written'[n + i] = buf[i]
    <3>1. Len(written') = n + (Len(buf) + Len(pipe'))
      BY <1>0, <1>2, <1>3, <1>4, <1>7 DEF HandedOut, RestFrom
    <3>2. \A i \in 1..Len(buf) : n + i \in 1..Len(written)
      BY <1>0, <1>7 DEF HandedOut, RestFrom
    <3> QED
      BY <1>3, <1>7, <3>1, <3>2 DEF HandedOut, RestFrom
  <2>2. ASSUME NEW i \in 1..Len(pipe') PROVE written'[(n + Len(buf)) + i] = pipe'[i]
    <3>1. CASE i \in 1..Len(pipe)
      <4>1. (n + Len(buf)) + i \in 1..Len(written)
        BY <1>0, <1>7, <3>1 DEF HandedOut, RestFrom
      <4> QED
        BY <1>3, <1>4, <1>7, <3>1, <4>1 DEF HandedOut, RestFrom
    <3>2. CASE i \notin 1..Len(pipe)
      <4> DEFINE j == i - Len(pipe)
      <4>1. j \in 1..Len(t) /\ i = Len(pipe) + j
        BY <1>0, <1>2, <1>4, <3>2
      <4>2. (n + Len(buf)) + i = Len(written) + j
        BY <1>0, <1>7, <4>1 DEF HandedOut, RestFrom
      <4> HIDE DEF j
      <4> QED
        BY <1>3, <1>4, <4>1, <4>2
    <3> QED
      BY <3>1, <3>2
  <2> QED
    BY <1>0, <2>1, <2>2 DEF RestFrom
<1>10. AtLine(written', n)
  <2>1. n # 0 => n \in 1..Len(written)
    BY <1>0
  <2> QED
    BY <1>3, <1>7, <2>1 DEF HandedOut, AtLine
<1>11. Ended(written')[n] = Ended(written)[n]
  <2>1. Len(written) <= Len(written')
    BY <1>0, <1>2, <1>3
  <2> QED
    BY <1>0, <1>3, <2>1, EndedOfLonger
<1>12. HandedOut(n)'
  BY <1>0, <1>7, <1>9, <1>10, <1>11 DEF HandedOut, AtLine
<1> QED
  BY <1>8, <1>12

LEMMA DeliveredFill ==
  ASSUME IInv, Delivered, Fill
  PROVE  Delivered'
<1>0. /\ written \in Seq(Bytes) /\ pipe \in Seq(Bytes) /\ buf \in Seq(Bytes)
      /\ loop = "reading" /\ UNCHANGED <<written, lines, loop, scanErr, op>>
  BY DEF IInv, TypeOK, Fill, childVars
<1>1. PICK k \in 1..Len(pipe) :
        buf' = buf \o SubSeq(pipe, 1, k) /\ pipe' = SubSeq(pipe, k + 1, Len(pipe))
  BY DEF Fill
<1>2. /\ Len(buf') = Len(buf) + k /\ Len(pipe') = Len(pipe) - k /\ k \in 1..Len(pipe)
      /\ \A i \in 1..Len(buf) : buf'[i] = buf[i]
      /\ \A i \in 1..k : buf'[Len(buf) + i] = pipe[i]
      /\ \A i \in 1..(Len(pipe) - k) : pipe'[i] = pipe[k + i]
  BY <1>0, <1>1
<1>3. SUFFICES ASSUME NEW n \in 0..Len(written), HandedOut(n) PROVE RestFrom(n)'
  BY <1>0 DEF Delivered, HandedOut
<1>4. RestFrom(n)
  BY <1>3 DEF HandedOut
<1>5. Len(written) = n + (Len(buf') + Len(pipe'))
  BY <1>0, <1>2, <1>4 DEF RestFrom
<1>6. ASSUME NEW i \in 1..Len(buf') PROVE written[n + i] = buf'[i]
  <2>1. CASE i \in 1..Len(buf)
    BY <1>2, <1>4, <2>1 DEF RestFrom
  <2>2. CASE i \notin 1..Len(buf)
    <3> DEFINE j == i - Len(buf)
    <3>1. j \in 1..k /\ j \in 1..Len(pipe) /\ i = Len(buf) + j /\ n + i = (n + Len(buf)) + j
      BY <1>0, <1>2, <2>2
    <3> HIDE DEF j
    <3> QED
      BY <1>2, <1>4, <3>1 DEF RestFrom
  <2> QED
    BY <2>1, <2>2
<1>7. ASSUME NEW i \in 1..Len(pipe') PROVE written[(n + Len(buf')) + i] = pipe'[i]
  <2>1. k + i \in 1..Len(pipe) /\ i \in 1..(Len(pipe) - k)
        /\ (n + Len(buf')) + i = (n + Len(buf)) + (k + i)
    BY <1>0, <1>2
  <2> QED
    BY <1>2, <1>4, <2>1 DEF RestFrom
<1> QED
  BY <1>0, <1>5, <1>6, <1>7 DEF RestFrom

\* The stretch that is handed out is the next one of the output.
LEMMA NextStretch ==
  ASSUME IInv, NEW n \in 0..Len(written), HandedOut(n), NEW k \in 0..Len(buf),
         \A i \in 1..(k - 1) : buf[i] # "nl",
         NEW l \in Seq(Bytes), l = SubSeq(buf, 1, k), Deliver(l)
  PROVE  /\ n + k <= Len(written)
         /\ Content(written, n + 1, n + k) = TrimRight(l)
         /\ lines' = WithLine(Ended(written)[n], TrimRight(l))
         /\ \A i \in (n + 1)..((n + k) - 1) : written[i] # "nl"
<1>0. written \in Seq(Bytes) /\ pipe \in Seq(Bytes) /\ buf \in Seq(Bytes) /\ k \in Nat /\ n \in Nat
  BY DEF IInv, TypeOK
<1>1. RestFrom(n) /\ lines = Ended(written)[n]
  BY DEF HandedOut
<1>2. n + k <= Len(written)
  BY <1>0, <1>1 DEF RestFrom
<1>3. Len(l) = k /\ \A i \in 1..k : l[i] = buf[i] /\ i \in 1..Len(buf)
  BY <1>0
<1>4. \A i \in 1..Len(l) : written[n + i] = l[i]
  BY <1>1, <1>3 DEF RestFrom
<1>5. Content(written, n + 1, n + k) = TrimRight(l)
  BY <1>0, <1>2, <1>3, <1>4, ContentIs
<1>6. ASSUME NEW i \in (n + 1)..((n + k) - 1) PROVE written[i] # "nl"
  <2> DEFINE j == i - n
  <2>1. j \in 1..(k - 1) /\ j \in 1..Len(buf) /\ i = n + j
    BY <1>0
  <2> HIDE DEF j
  <2> QED
    BY <1>1, <2>1 DEF RestFrom
<1> QED
  BY <1>1, <1>2, <1>5, <1>6 DEF Deliver, WithLine

LEMMA DeliveredTake ==
  ASSUME IInv, Delivered, TakeLine
  PROVE  Delivered'
<1>0. /\ written \in Seq(Bytes) /\ pipe \in Seq(Bytes) /\ buf \in Seq(Bytes)
      /\ loop = "reading" /\ UNCHANGED <<written, pipe, loop, scanErr, op>>
  BY DEF IInv, TypeOK, TakeLine, childVars, outVars
<1>1. PICK k \in 1..Len(buf) :
        /\ buf[k] = "nl" /\ \A i \in 1..(k - 1) : buf[i] # "nl"
        /\ Deliver(SubSeq(buf, 1, k)) /\ buf' = SubSeq(buf, k + 1, Len(buf))
  <2> DEFINE f == FirstNewline(buf)
  <2>1. /\ f \in 1..Len(buf) /\ buf[f] = "nl" /\ \A i \in 1..(f - 1) : buf[i] # "nl"
        /\ Deliver(SubSeq(buf, 1, f)) /\ buf' = SubSeq(buf, f + 1, Len(buf))
    BY <1>0, FirstNewlineIs DEF TakeLine
  <2> HIDE DEF f
  <2> QED
    BY <2>1
<1> DEFINE l == SubSeq(buf, 1, k)
<1>2. SUFFICES ASSUME NEW n \in 0..Len(written), HandedOut(n)
               PROVE  \E m \in 0..Len(written) : HandedOut(m)'
  BY <1>0 DEF Delivered
<1> DEFINE m == n + k
<1>3. l \in Seq(Bytes) /\ l = SubSeq(buf, 1, k) /\ Deliver(l) /\ k \in 0..Len(buf)
  BY <1>0, <1>1
<1> HIDE DEF l
<1>4. /\ m <= Len(written)
      /\ Content(written, n + 1, m) = TrimRight(l)
      /\ lines' = WithLine(Ended(written)[n], TrimRight(l))
      /\ \A i \in (n + 1)..(m - 1) : written[i] # "nl"
  BY <1>1, <1>2, <1>3, NextStretch
<1>5. /\ n \in Nat /\ k \in Nat /\ m \in 1..Len(written) /\ n < m /\ n <= m - 1 /\ m - 1 \in n..Len(written)
      /\ m \in 0..Len(written) /\ m # 0 /\ m \in 1..(Len(written) + 1)
  BY <1>0, <1>1, <1>4
<1>6. RestFrom(n) /\ AtLine(written, n)
  BY <1>2 DEF HandedOut
<1>7. written[m] = "nl"
  BY <1>1, <1>6 DEF RestFrom
<1>8. Ended(written)[m] = WithLine(Ended(written)[n], TrimRight(l))
  <2> HIDE DEF m
  <2>1. Start(written, m) = n + 1
    BY <1>0, <1>4, <1>5, <1>6, StartIs
  <2>2. Ended(written)[m - 1] = Ended(written)[n]
    BY <1>0, <1>4, <1>5, EndedStays
  <2>3. Ended(written)[m] = NextEnded(written, m, Ended(written)[m - 1])
    BY <1>0, <1>5, EndedIs
  <2> QED
    BY <1>4, <1>5, <1>7, <2>1, <2>2, <2>3 DEF NextEnded
<1>9. RestFrom(m)'
  <2>1. Len(buf') = Len(buf) - k /\ \A i \in 1..(Len(buf) - k) : buf'[i] = buf[k + i]
    BY <1>0, <1>1
  <2>0. Len(buf) \in Nat /\ Len(pipe) \in Nat /\ n \in Nat /\ k \in Nat /\ Len(buf') = Len(buf) - k
    BY <1>0, <1>5, <2>1
  <2>2. Len(written) = m + (Len(buf') + Len(pipe))
    <3>1. Len(written) = n + (Len(buf) + Len(pipe))
      BY <1>6 DEF RestFrom
    <3> QED
      BY <2>0, <3>1
  <2>3. ASSUME NEW i \in 1..Len(buf') PROVE written[m + i] = buf'[i]
    <3>1. k + i \in 1..Len(buf) /\ i \in 1..(Len(buf) - k) /\ m + i = n + (k + i)
      BY <1>0, <1>1, <1>5, <2>1
    <3> HIDE DEF m
    <3> QED
      BY <1>6, <2>1, <3>1 DEF RestFrom
  <2>4. ASSUME NEW i \in 1..Len(pipe) PROVE written[(m + Len(buf')) + i] = pipe[i]
    <3>1. (m + Len(buf')) + i = (n + Len(buf)) + i
      BY <2>0
    <3> HIDE DEF m
    <3> QED
      BY <1>6, <3>1 DEF RestFrom
  <2> HIDE DEF m
  <2> QED
    BY <1>0, <2>2, <2>3, <2>4 DEF RestFrom
<1>10. HandedOut(m)'
  BY <1>0, <1>4, <1>7, <1>8, <1>9 DEF HandedOut, AtLine
<1> QED
  BY <1>5, <1>10

\* The lines of a front part of the output: those that end in it, and the stretch
\* after the last newline.
LEMMA LinesOfFront ==
  ASSUME NEW g \in Seq(Bytes), NEW n \in 0..Len(g), NEW l \in Seq(Bytes),
         Len(g) = n + Len(l), AtLine(g, n),
         \A i \in 1..Len(l) : g[n + i] = l[i] /\ l[i] # "nl"
  PROVE  LinesOf(g) = WithLine(Ended(g)[n], TrimRight(l))
<1> DEFINE L == Len(g)
<1>1. L \in Nat /\ n \in Nat /\ L \in n..L /\ n < L + 1 /\ L + 1 \in 1..(L + 1) /\ L = n + Len(l)
  OBVIOUS
<1>2. ASSUME NEW i \in (n + 1)..L PROVE g[i] # "nl"
  <2> DEFINE j == i - n
  <2>1. j \in 1..Len(l) /\ i = n + j
    BY <1>1
  <2> HIDE DEF j
  <2> QED
    BY <2>1
<1>3. Start(g, L + 1) = n + 1
  <2>1. \A i \in (n + 1)..((L + 1) - 1) : g[i] # "nl"
    BY <1>1, <1>2
  <2> QED
    BY <1>1, <2>1, StartIs
<1>4. Ended(g)[L] = Ended(g)[n]
  BY <1>1, <1>2, EndedStays
<1>5. Content(g, n + 1, L) = TrimRight(l)
  <2>1. Content(g, n + 1, n + Len(l)) = TrimRight(l)
    BY <1>1, ContentIs
  <2> QED
    BY <1>1, <2>1
<1> QED
  BY <1>3, <1>4, <1>5 DEF LinesOf

\* Up to a newline they are the ones that have ended.
LEMMA LinesUpTo ==
  ASSUME IInv, NEW n \in 0..Len(written), HandedOut(n), NEW k \in 0..Len(buf),
         \A i \in 1..k : buf[i] # "nl", NEW l \in Seq(Bytes), l = SubSeq(buf, 1, k)
  PROVE  LinesOf(SubSeq(written, 1, n + k)) = WithLine(lines, TrimRight(l))
<1>0. written \in Seq(Bytes) /\ buf \in Seq(Bytes) /\ pipe \in Seq(Bytes) /\ n \in Nat /\ k \in Nat
  BY DEF IInv, TypeOK
<1>1. RestFrom(n) /\ AtLine(written, n) /\ lines = Ended(written)[n]
  BY DEF HandedOut
<1>2. n + k \in 0..Len(written)
  BY <1>0, <1>1 DEF RestFrom
<1>3. Len(l) = k /\ \A i \in 1..k : l[i] = buf[i] /\ i \in 1..Len(buf)
  BY <1>0
<1> DEFINE g == SubSeq(written, 1, n + k)
<1>4. g \in Seq(Bytes) /\ Len(g) = n + k /\ \A i \in 1..(n + k) : g[i] = written[i]
  BY <1>0, <1>2
<1> HIDE DEF g
<1>5. n \in 0..Len(g) /\ Len(g) = n + Len(l) /\ Len(g) <= Len(written)
  BY <1>0, <1>2, <1>3, <1>4
<1>6. AtLine(g, n)
  BY <1>0, <1>1, <1>4 DEF AtLine
<1>7. ASSUME NEW i \in 1..Len(l) PROVE g[n + i] = l[i] /\ l[i] # "nl"
  <2>1. i \in 1..k /\ n + i \in 1..(n + k) /\ i \in 1..Len(buf) /\ l[i] = buf[i]
    BY <1>0, <1>3
  <2>2. written[n + i] = buf[i]
    BY <1>1, <2>1 DEF RestFrom
  <2> QED
    BY <1>4, <2>1, <2>2
<1>8. LinesOf(g) = WithLine(Ended(g)[n], TrimRight(l))
  BY <1>4, <1>5, <1>6, <1>7, LinesOfFront
<1>9. Ended(written)[n] = Ended(g)[n]
  <2>1. \A i \in 1..Len(g) : written[i] = g[i]
    BY <1>4
  <2> QED
    BY <1>0, <1>4, <1>5, <2>1, EndedOfLonger
<1> QED
  BY <1>1, <1>8, <1>9 DEF g

\* The loop ends, at EOF or on an error: the stretch that was read is handed out,
\* and with it all lines of what was read.
LEMMA DeliveredEnd ==
  ASSUME IInv, Delivered, ReadEOF \/ ReadFails
  PROVE  Delivered'
<1>0. /\ written \in Seq(Bytes) /\ buf \in Seq(Bytes) /\ pipe \in Seq(Bytes)
      /\ loop = "reading" /\ loop' = "waiting" /\ buf' = <<>>
      /\ ~scanErr' => pipe = <<>> /\ op = "exited"
      /\ UNCHANGED <<written, pipe, op>>
      /\ FirstNewline(buf) = 0 /\ Deliver(buf)
  BY DEF IInv, TypeOK, ReadEOF, ReadFails, childVars, outVars
<1>1. PICK n \in 0..Len(written) : HandedOut(n)
  BY <1>0 DEF Delivered
<1> DEFINE k == Len(buf)
<1>2. k \in 0..Len(buf) /\ buf = SubSeq(buf, 1, k) /\ \A i \in 1..k : buf[i] # "nl"
  BY <1>0, FirstNewlineIs, SubSeqFull
<1>3. n + k = Len(written) - Len(pipe)
  BY <1>0, <1>1 DEF HandedOut, RestFrom
<1> HIDE DEF k
<1>4. LinesOf(SubSeq(written, 1, n + k)) = WithLine(lines, TrimRight(buf))
  BY <1>0, <1>1, <1>2, LinesUpTo
<1>5. lines' = LinesOf(Gone)'
  BY <1>0, <1>3, <1>4 DEF Gone, Deliver, WithLine
<1> QED
  BY <1>0, <1>5 DEF Delivered, AllHandedOut

LEMMA DeliveredNext == IInv /\ Delivered /\ [Next]_vars => Delivered'
<1> SUFFICES ASSUME IInv, Delivered, [Next]_vars PROVE Delivered'
  OBVIOUS
<1>1. CASE BeginWrite \/ BeginRead \/ ReadPrompt \/ ReadPromptEOF \/ ChildExits \/ ChildKilled
             \/ Feed \/ FeedEnds \/ UNCHANGED vars
  <2>1. /\ UNCHANGED <<written, pipe, buf, lines, loop, scanErr>>
        /\ op = "exited" => op' = "exited"
    BY <1>1 DEF BeginWrite, BeginRead, ReadPrompt, ReadPromptEOF, ChildExits, ChildKilled, Feed, FeedEnds,
                vars, childVars, outVars, readerVars, stdinVars
  <2> QED
    BY <2>1, DeliveredSame
<1>2. CASE WaitProcess \/ WaitFeeder
  <2>1. /\ UNCHANGED <<written, pipe, buf, lines, scanErr, op>>
        /\ loop # "reading" /\ loop' # "reading"
    BY <1>2 DEF WaitProcess, WaitFeeder, childVars, outVars
  <2> QED
    BY <2>1 DEF Delivered, AllHandedOut, Gone
<1> QED
  BY <1>1, <1>2, DeliveredWrite, DeliveredFill, DeliveredTake, DeliveredEnd
     DEF Next, Child, Reader, Feeder

--------------------------------------------------------------------------------
(* The properties of the runs.                                             *)

\* For prompts, pipes and outputs of any size, every variable of the reader has
\* its type: in particular neither pipe ever holds more than it can.
THEOREM StreamTypes == FairSpec => []TypeOK
  BY Invariant, PTL DEF IInv

LEMMA DeliveredInOrder == IInv /\ Delivered => BytesInOrder
<1> SUFFICES ASSUME IInv, Delivered PROVE BytesInOrder
  OBVIOUS
<1>0. written \in Seq(Bytes) /\ buf \in Seq(Bytes) /\ pipe \in Seq(Bytes) /\ lines \in Seq(Seq(Bytes))
  BY DEF IInv, TypeOK
<1>1. PICK gone \in Seq(Bytes) : written = gone \o (buf \o pipe)
  BY DEF IInv, InOrder
<1> DEFINE n == Len(gone)
<1>2. buf \o pipe = SubSeq(written, n + 1, Len(written))
  <2>1. buf \o pipe \in Seq(Bytes)
    BY <1>0, ConcatProperties
  <2> QED
    BY <1>1, <2>1, RestIsTail
<1>3. Len(written) = n + (Len(buf) + Len(pipe)) /\ n \in 0..Len(written) /\ n \in Nat
  <2>1. Len(written) = n + (Len(buf) + Len(pipe))
    BY <1>0, <1>1, ConcatProperties
  <2>2. Len(gone) \in Nat /\ Len(buf) \in Nat /\ Len(pipe) \in Nat
    BY <1>0
  <2> QED
    BY <2>1, <2>2
<1> HIDE DEF n
<1>4. lines = LinesOf(SubSeq(written, 1, n))
  <2>1. CASE loop = "reading"
    <3>1. PICK m \in 0..Len(written) : HandedOut(m)
      BY <2>1 DEF Delivered
    <3>2. m = n
      BY <1>0, <1>3, <3>1 DEF HandedOut, RestFrom
    <3>3. /\ 0 \in 0..Len(buf) /\ <<>> \in Seq(Bytes) /\ SubSeq(buf, 1, 0) = <<>>
          /\ \A i \in 1..0 : buf[i] # "nl"
      <4>1. SubSeq(buf, 1, 0) = <<>>
        BY <1>0, SubSeqEmpty
      <4> QED
        BY <1>0, <4>1
    <3>4. LinesOf(SubSeq(written, 1, m + 0)) = WithLine(lines, TrimRight(<<>>))
      BY <3>1, <3>3, LinesUpTo
    <3>5. TrimRight(<<>>) = <<>>
      <4>1. PICK j \in 0..Len(<<>>) : TrimRight(<<>>) = SubSeq(<<>>, 1, j)
        BY <3>3, TrimRightIs
      <4> QED
        BY <4>1
    <3>6. WithLine(lines, <<>>) = lines
      BY DEF WithLine
    <3> QED
      BY <1>3, <3>2, <3>4, <3>5, <3>6
  <2>2. CASE loop # "reading"
    <3>1. buf = <<>> /\ lines = LinesOf(Gone)
      BY <2>2 DEF Delivered, AllHandedOut
    <3>2. n = Len(written) - Len(pipe)
      BY <1>0, <1>3, <3>1
    <3> QED
      BY <3>1, <3>2 DEF Gone
  <2> QED
    BY <2>1, <2>2
<1> QED
  BY <1>2, <1>3, <1>4 DEF BytesInOrder

LEMMA DeliveredGives == IInv /\ Delivered => LinesDelivered
<1> SUFFICES ASSUME IInv, Delivered, ~scanErr
             PROVE  /\ IsPrefix(lines, LinesOf(written))
                    /\ loop # "reading" => lines = LinesOf(written)
  BY DEF LinesDelivered
<1>1. written \in Seq(Bytes) /\ Len(written) \in Nat /\ lines \in Seq(Seq(Bytes))
  BY DEF IInv, TypeOK
<1> DEFINE L == Len(written)
           c == Content(written, Start(written, L + 1), L)
<1>2. LinesOf(written) = WithLine(Ended(written)[L], c)
  BY DEF LinesOf
<1>3. c \in Seq(Bytes)
  <2>1. L + 1 \in 1..(Len(written) + 1) /\ L \in ((L + 1) - 1)..Len(written)
    BY <1>1
  <2> QED
    BY <1>1, <2>1, StretchIs
<1> HIDE DEF c
<1>4. CASE loop = "reading"
  <2>1. PICK n \in 0..L : HandedOut(n)
    BY <1>4 DEF Delivered
  <2>2. lines = Ended(written)[n]
    BY <2>1 DEF HandedOut
  <2>3. L \in n..L /\ L \in 0..L
    BY <1>1
  <2>4. Begins(lines, Ended(written)[L])
    BY <1>1, <2>2, <2>3, EndedBegins
  <2>5. Ended(written)[L] \in Seq(Seq(Bytes))
    BY <1>1, <2>3, EndedGrows
  <2>6. LinesOf(written) \in Seq(Seq(Bytes)) /\ Begins(lines, LinesOf(written))
    BY <1>1, <1>2, <1>3, <2>4, <2>5, WithLineBegins
  <2> QED
    BY <1>1, <1>4, <2>6, BeginsIsPrefix
<1>5. CASE loop # "reading"
  <2>1. lines = LinesOf(written)
    <3>1. pipe = <<>> /\ lines = LinesOf(Gone)
      BY <1>5 DEF Delivered, AllHandedOut
    <3>2. Gone = written
      BY <1>1, <3>1, SubSeqFull DEF Gone
    <3> QED
      BY <3>1, <3>2
  <2>2. Begins(lines, lines)
    BY <1>1 DEF Begins
  <2> QED
    BY <1>1, <2>1, <2>2, BeginsIsPrefix
<1> QED
  BY <1>4, <1>5

LEMMA DeliveredAlways == FairSpec => [](IInv /\ Delivered)
<1>1. Init => IInv /\ Delivered
  BY InitIInv, DeliveredInit
<1>2. IInv /\ Delivered /\ [Next]_vars => (IInv /\ Delivered)'
  BY NextIInv, DeliveredNext
<1> QED
  BY <1>1, <1>2, PTL DEF FairSpec

\* However the output was cut into writes and reads, onLine is called with the
\* lines of the output, in order, as far as they have come, and, unless a read
\* fails, with all of them before the loop ends.
THEOREM StreamDelivers == FairSpec => []LinesDelivered
  BY DeliveredAlways, DeliveredGives, PTL

\* Whatever sizes the writes and reads have, and whether or not a read fails, the
\* bytes that buf and the pipe do not hold are the front of the output, and onLine
\* was called with the lines of just that front: nothing is lost between them.
THEOREM StreamInOrder == FairSpec => []BytesInOrder
  BY DeliveredAlways, DeliveredInOrder, PTL

--------------------------------------------------------------------------------
(* What CallEnds says, without the time it takes: the guards of the three, *)
(* action by action, and a measure of what is left to be done.             *)

ChildCanStep ==
  \/ op = "free"
  \/ op = "writing" /\ \E n \in 1..Len(text) : Len(pipe) + n <= PipeCap
  \/ op = "reading" /\ stdin > 0
  \/ op = "reading" /\ stdin = 0 /\ ~feeding

FeederCanStep ==
  \/ feeding /\ prompt > 0 /\ stdin < StdinCap /\ op # "exited"
  \/ feeding /\ (prompt = 0 \/ op = "exited")

ReaderCanStep ==
  \/ loop = "reading" /\ FirstNewline(buf) = 0 /\ Len(pipe) > 0
  \/ loop = "reading" /\ FirstNewline(buf) > 0
  \/ loop = "reading" /\ FirstNewline(buf) = 0 /\ pipe = <<>> /\ op = "exited"
  \/ loop = "waiting" /\ op = "exited"
  \/ loop = "joining" /\ ~feeding

\* A read failed, so nobody reads the full pipe that the child is to write to.
Abandoned == scanErr /\ loop = "waiting" /\ op = "writing" /\ Len(pipe) = PipeCap

Waits ==
  /\ op = "writing" => Len(text) > 0
  /\ op = "reading" => ~atEOF
  /\ loop = "waiting" /\ ~scanErr => op = "exited"
  /\ loop \in {"joining", "returned"} => op = "exited"

LEMMA WaitsNext == IInv /\ Waits /\ [Next]_vars => Waits'
<1> SUFFICES ASSUME IInv, Waits, [Next]_vars PROVE Waits'
  OBVIOUS
<1> USE DEF Waits, childVars, outVars, readerVars, stdinVars
<1>0. text \in Seq(Bytes)
  BY DEF IInv, TypeOK
<1>1. CASE BeginWrite
  <2>1. PICK n \in 1..MaxWrite : text' \in [1..n -> Bytes]
    BY <1>1 DEF BeginWrite
  <2>2. Len(text') > 0
    BY <2>1
  <2> QED
    BY <1>1, <2>2 DEF BeginWrite
<1>2. CASE WriteSome
  <2>1. PICK n \in 1..Len(text) :
          /\ text' = SubSeq(text, n + 1, Len(text))
          /\ op' = IF n = Len(text) THEN "free" ELSE "writing"
    BY <1>2 DEF WriteSome
  <2>2. Len(text') = Len(text) - n
    BY <1>0, <2>1, CutAndJoin
  <2>3. op' = "writing" => Len(text') > 0
    BY <1>0, <2>1, <2>2
  <2> QED
    BY <1>2, <2>1, <2>3 DEF WriteSome
<1>3. CASE BeginRead \/ ReadPrompt \/ ReadPromptEOF \/ ChildExits \/ ChildKilled \/ Feeder
  BY <1>3 DEF BeginRead, ReadPrompt, ReadPromptEOF, ChildExits, ChildKilled, Feeder, Feed, FeedEnds
<1>4. CASE Reader \/ ReadFails
  BY <1>4 DEF Reader, Fill, TakeLine, ReadEOF, ReadFails, WaitProcess, WaitFeeder
<1>5. CASE UNCHANGED vars
  BY <1>5 DEF vars
<1> QED
  BY <1>1, <1>2, <1>3, <1>4, <1>5 DEF Next, Child

\* For every prompt, output and capacity of the pipes: while the call is in progress
\* the child, the copying goroutine or the read loop can go on. They never wait for
\* each other in a circle; the one way to come to a stop is a read that failed, with
\* the child left to write to a pipe that nobody empties.
THEOREM NoCircularWait ==
  FairSpec =>
    [](loop # "returned" => ChildCanStep \/ FeederCanStep \/ ReaderCanStep \/ Abandoned)
<1>1. Init => Waits
  BY DEF Init, Waits
<1>2. IInv /\ Waits =>
        (loop # "returned" => ChildCanStep \/ FeederCanStep \/ ReaderCanStep \/ Abandoned)
  <2> SUFFICES ASSUME IInv, Waits, loop # "returned", ~ReaderCanStep, ~FeederCanStep, ~Abandoned
               PROVE  ChildCanStep
    OBVIOUS
  <2>1. /\ op \in {"free", "reading", "writing", "exited"}
        /\ loop \in {"reading", "waiting", "joining"}
        /\ prompt \in Nat /\ stdin \in Nat /\ StdinCap \in Nat /\ StdinCap > 0
        /\ PipeCap \in Nat /\ Len(pipe) \in Nat /\ Len(pipe) <= PipeCap /\ Len(text) \in Nat
        /\ PipeCap > 0 /\ FirstNewline(buf) \in Nat
        /\ feeding \in BOOLEAN /\ scanErr \in BOOLEAN
        /\ Len(pipe) = 0 => pipe = <<>>
    BY FirstNewlineIs, SizesAssumption DEF IInv, TypeOK, SizesAssumption
  <2>2. op # "exited"
    BY <2>1 DEF ReaderCanStep, FeederCanStep
  <2>3. CASE op = "reading"
    BY <2>1, <2>3 DEF FeederCanStep, ChildCanStep
  <2>4. CASE op = "writing"
    <3>1. Len(pipe) + 1 <= PipeCap
      BY <2>1, <2>2, <2>4 DEF Waits, ReaderCanStep, Abandoned
    <3>2. 1 \in 1..Len(text)
      BY <2>1, <2>4 DEF Waits
    <3> QED
      BY <2>4, <3>1, <3>2 DEF ChildCanStep
  <2> QED
    BY <2>1, <2>2, <2>3, <2>4 DEF ChildCanStep
<1> QED
  BY <1>1, <1>2, WaitsNext, Invariant, PTL DEF FairSpec

OutLeft == 4 * (MaxOutput - Len(written)) + 2 * Len(pipe) + Len(buf)

ChildLeft ==
  (IF op = "exited" THEN 0 ELSE IF op = "free" THEN 2 ELSE 1) + (IF atEOF THEN 0 ELSE 2)

PromptLeft == 3 * prompt + 2 * stdin + IF feeding THEN 1 ELSE 0

LoopLeft ==
  CASE loop = "reading" -> 3 [] loop = "waiting" -> 2 [] loop = "joining" -> 1 [] OTHER -> 0

\* A byte of output is written, read and delivered; a byte of the prompt is copied
\* and read.
Left == OutLeft + ChildLeft + PromptLeft + LoopLeft

LEMMA LeftIsNat ==
  ASSUME IInv
  PROVE  OutLeft \in Nat /\ ChildLeft \in Nat /\ PromptLeft \in Nat /\ LoopLeft \in Nat
<1>1. OutLeft \in Nat
  <2>1. Len(written) \in Nat /\ Len(written) <= MaxOutput /\ MaxOutput \in Nat
    BY SizesAssumption DEF IInv, TypeOK, SizesAssumption
  <2>2. Len(pipe) \in Nat /\ Len(buf) \in Nat
    BY DEF IInv, TypeOK
  <2> QED
    BY <2>1, <2>2 DEF OutLeft
<1>2. PromptLeft \in Nat
  <2>1. prompt \in Nat /\ stdin \in Nat
    BY SizesAssumption DEF IInv, TypeOK, SizesAssumption
  <2> QED
    BY <2>1 DEF PromptLeft
<1> QED
  BY <1>1, <1>2 DEF ChildLeft, LoopLeft

LEMMA LowerPart ==
  ASSUME NEW a \in Nat, NEW b \in Nat, NEW c \in Nat, NEW d \in Nat, NEW e \in Nat, e < b
  PROVE  a + e + c + d < a + b + c + d
OBVIOUS

LEMMA ChildLowers == IInv /\ Waits /\ (Child \/ ChildKilled) => Left' < Left
<1> SUFFICES ASSUME IInv, Waits, Child \/ ChildKilled PROVE Left' < Left
  OBVIOUS
<1> USE DEF outVars, readerVars, stdinVars
<1>0. OutLeft \in Nat /\ ChildLeft \in Nat /\ PromptLeft \in Nat /\ LoopLeft \in Nat
  BY LeftIsNat
<1>1. LoopLeft' = LoopLeft
  BY DEF Child, BeginWrite, WriteSome, BeginRead, ReadPrompt, ReadPromptEOF, ChildExits,
         ChildKilled, LoopLeft
<1>2. CASE WriteSome
  <2>1. PICK n \in 1..Len(text) :
          /\ written' = written \o SubSeq(text, 1, n)
          /\ pipe' = pipe \o SubSeq(text, 1, n)
    BY <1>2 DEF WriteSome
  <2> DEFINE t == SubSeq(text, 1, n)
  <2>2. t \in Seq(Bytes) /\ Len(t) = n /\ n \in Nat /\ n > 0
    <3>1. text \in Seq(Bytes) /\ n \in 0..Len(text)
      BY DEF IInv, TypeOK
    <3> QED
      BY <3>1, CutAndJoin
  <2> HIDE DEF t
  <2>3. written' = written \o t /\ pipe' = pipe \o t /\ buf' = buf
    BY <1>2, <2>1 DEF WriteSome, t
  <2>4. Len(written') = Len(written) + n /\ Len(pipe') = Len(pipe) + n
    BY <2>2, <2>3, ConcatProperties DEF IInv, TypeOK
  <2>5. OutLeft' = OutLeft - 2 * n
    <3>1. Len(written) \in Nat /\ Len(pipe) \in Nat /\ Len(buf) \in Nat /\ MaxOutput \in Nat
      BY SizesAssumption DEF IInv, TypeOK, SizesAssumption
    <3> QED
      BY <2>2, <2>3, <2>4, <3>1 DEF OutLeft
  <2>6. ChildLeft' = ChildLeft \/ ChildLeft' = ChildLeft + 1
    BY <1>2 DEF WriteSome, ChildLeft
  <2>7. PromptLeft' = PromptLeft
    BY <1>2 DEF WriteSome, PromptLeft
  <2> QED
    BY <1>0, <1>1, <2>2, <2>5, <2>6, <2>7 DEF Left
<1>3. CASE BeginWrite \/ BeginRead \/ ChildExits \/ ChildKilled
  <2>1. OutLeft' = OutLeft /\ PromptLeft' = PromptLeft
    BY <1>3 DEF BeginWrite, BeginRead, ChildExits, ChildKilled, OutLeft, PromptLeft
  <2>2. ChildLeft' \in Nat /\ ChildLeft' < ChildLeft
    <3>1. op' # op /\ atEOF' = atEOF /\ (op = "free" \/ op' = "exited") /\ op # "exited"
          /\ op' # "free"
      BY <1>3 DEF BeginWrite, BeginRead, ChildExits, ChildKilled
    <3> QED
      BY <3>1 DEF ChildLeft
  <2> QED
    BY <1>0, <1>1, <2>1, <2>2, LowerPart DEF Left
<1>4. CASE ReadPrompt \/ ReadPromptEOF
  <2>1. OutLeft' = OutLeft
    BY <1>4 DEF ReadPrompt, ReadPromptEOF, OutLeft
  <2>2. CASE ReadPrompt
    <3>1. stdin \in Nat /\ prompt \in Nat
      BY SizesAssumption DEF IInv, TypeOK, SizesAssumption
    <3>2. PromptLeft' = PromptLeft - 2
      BY <2>2, <3>1 DEF ReadPrompt, PromptLeft
    <3>3. ChildLeft' = ChildLeft + 1
      BY <2>2 DEF ReadPrompt, ChildLeft
    <3> QED
      BY <1>0, <1>1, <2>1, <3>2, <3>3 DEF Left
  <2>3. CASE ReadPromptEOF
    <3>1. PromptLeft' = PromptLeft
      BY <2>3 DEF ReadPromptEOF, PromptLeft
    <3>2. ChildLeft' = ChildLeft - 1
      BY <2>3 DEF ReadPromptEOF, ChildLeft, Waits
    <3> QED
      BY <1>0, <1>1, <2>1, <3>1, <3>2 DEF Left
  <2> QED
    BY <1>4, <2>2, <2>3
<1> QED
  BY <1>2, <1>3, <1>4 DEF Child

LEMMA FeederLowers == IInv /\ Feeder => Left' < Left
<1> SUFFICES ASSUME IInv, Feeder PROVE Left' < Left
  OBVIOUS
<1> USE DEF childVars, outVars, readerVars
<1>0. OutLeft \in Nat /\ ChildLeft \in Nat /\ PromptLeft \in Nat /\ LoopLeft \in Nat
  BY LeftIsNat
<1>1. OutLeft' = OutLeft /\ ChildLeft' = ChildLeft /\ LoopLeft' = LoopLeft
  BY DEF Feeder, Feed, FeedEnds, OutLeft, ChildLeft, LoopLeft
<1>2. PromptLeft' = PromptLeft - 1
  <2>1. stdin \in Nat /\ prompt \in Nat
    BY SizesAssumption DEF IInv, TypeOK, SizesAssumption
  <2> QED
    BY <2>1 DEF Feeder, Feed, FeedEnds, PromptLeft
<1> QED
  BY <1>0, <1>1, <1>2 DEF Left

LEMMA ReaderLowers == IInv /\ (Reader \/ ReadFails) => Left' < Left
<1> SUFFICES ASSUME IInv, Reader \/ ReadFails PROVE Left' < Left
  OBVIOUS
<1> USE DEF childVars, outVars, stdinVars
<1>0. OutLeft \in Nat /\ ChildLeft \in Nat /\ PromptLeft \in Nat /\ LoopLeft \in Nat
  BY LeftIsNat
<1>1. ChildLeft' = ChildLeft /\ PromptLeft' = PromptLeft
  BY DEF Reader, Fill, TakeLine, ReadEOF, ReadFails, WaitProcess, WaitFeeder, ChildLeft, PromptLeft
<1>2. /\ Len(written) \in Nat /\ Len(pipe) \in Nat /\ Len(buf) \in Nat
      /\ MaxOutput \in Nat /\ buf \in Seq(Bytes) /\ pipe \in Seq(Bytes)
  BY SizesAssumption DEF IInv, TypeOK, SizesAssumption
<1>3. CASE Fill
  <2>1. PICK n \in 1..Len(pipe) :
          buf' = buf \o SubSeq(pipe, 1, n) /\ pipe' = SubSeq(pipe, n + 1, Len(pipe))
    BY <1>3 DEF Fill
  <2> DEFINE t == SubSeq(pipe, 1, n)
  <2>2. t \in Seq(Bytes) /\ Len(t) = n /\ Len(pipe') = Len(pipe) - n
    <3>1. n \in 0..Len(pipe)
      BY <1>2
    <3> QED
      BY <1>2, <2>1, <3>1, CutAndJoin
  <2> HIDE DEF t
  <2>3. Len(buf') = Len(buf) + n
    <3>1. buf' = buf \o t
      BY <2>1 DEF t
    <3> QED
      BY <1>2, <2>2, <3>1, ConcatProperties
  <2>4. written' = written /\ LoopLeft' = LoopLeft
    BY <1>3 DEF Fill, LoopLeft
  <2>5. OutLeft' = OutLeft - n
    BY <1>2, <2>2, <2>3, <2>4 DEF OutLeft
  <2> QED
    BY <1>0, <1>1, <1>2, <2>4, <2>5 DEF Left
<1>4. CASE TakeLine
  <2> DEFINE n == FirstNewline(buf)
  <2>1. n \in Nat /\ n > 0 /\ n \in 0..Len(buf)
    BY <1>2, <1>4, FirstNewlineIs DEF TakeLine
  <2>2. Len(buf') = Len(buf) - n
    BY <1>2, <1>4, <2>1, CutAndJoin DEF TakeLine
  <2> HIDE DEF n
  <2>3. written' = written /\ pipe' = pipe /\ LoopLeft' = LoopLeft
    BY <1>4 DEF TakeLine, LoopLeft
  <2>4. OutLeft' = OutLeft - n
    BY <1>2, <2>1, <2>2, <2>3 DEF OutLeft
  <2> QED
    BY <1>0, <1>1, <2>1, <2>3, <2>4 DEF Left
<1>5. CASE ReadEOF \/ ReadFails
  <2>1. written' = written /\ pipe' = pipe /\ Len(buf') = 0 /\ LoopLeft = 3 /\ LoopLeft' = 2
    BY <1>5 DEF ReadEOF, ReadFails, LoopLeft
  <2>2. OutLeft' = OutLeft - Len(buf)
    BY <1>2, <2>1 DEF OutLeft
  <2> QED
    BY <1>0, <1>1, <1>2, <2>1, <2>2 DEF Left
<1>6. CASE WaitProcess \/ WaitFeeder
  <2>1. OutLeft' = OutLeft
    BY <1>6 DEF WaitProcess, WaitFeeder, OutLeft
  <2>2. LoopLeft' = LoopLeft - 1
    BY <1>6 DEF WaitProcess, WaitFeeder, LoopLeft
  <2> QED
    BY <1>0, <1>1, <2>1, <2>2 DEF Left
<1> QED
  BY <1>3, <1>4, <1>5, <1>6 DEF Reader

\* For every prompt, output and capacity of the pipes: each step of the child, of the
\* copying goroutine and of the call leaves less to be done, so none of them goes on
\* for ever. With NoCircularWait, which says that one of them can go on, this is
\* CallEnds but for the fairness that makes them go on.
THEOREM EveryStepIsProgress ==
  FairSpec => [](Left \in Nat) /\ [][Left' < Left]_vars
<1>1. Init => Waits
  BY DEF Init, Waits
<1>2. IInv => Left \in Nat
  <2> SUFFICES ASSUME IInv PROVE Left \in Nat
    OBVIOUS
  <2>1. OutLeft \in Nat /\ ChildLeft \in Nat /\ PromptLeft \in Nat /\ LoopLeft \in Nat
    BY LeftIsNat
  <2> QED
    BY <2>1 DEF Left
<1>3. IInv /\ Waits /\ [Next]_vars => [Left' < Left]_vars
  BY ChildLowers, FeederLowers, ReaderLowers DEF Next
<1> QED
  BY <1>1, <1>2, <1>3, WaitsNext, Invariant, PTL DEF FairSpec

LEMMA ChildStays ==
  ASSUME IInv, ChildCanStep, Feeder \/ Reader \/ ReadFails \/ UNCHANGED vars
  PROVE  ChildCanStep'
<1> USE DEF ChildCanStep, childVars, outVars, readerVars, stdinVars
<1>1. CASE Feeder
  <2>1. stdin \in Nat
    BY SizesAssumption DEF IInv, TypeOK, SizesAssumption
  <2> QED
    BY <1>1, <2>1 DEF Feeder, Feed, FeedEnds
<1>2. CASE Fill
  <2>1. PICK k \in 1..Len(pipe) : pipe' = SubSeq(pipe, k + 1, Len(pipe))
    BY <1>2 DEF Fill
  <2>2. pipe \in Seq(Bytes) /\ PipeCap \in Nat
    BY SizesAssumption DEF IInv, TypeOK, SizesAssumption
  <2>3. Len(pipe') = Len(pipe) - k
    <3>1. k \in 0..Len(pipe)
      BY <2>2
    <3> QED
      BY <2>1, <2>2, <3>1, CutAndJoin
  <2>4. \A n \in 1..Len(text) : Len(pipe) + n <= PipeCap => Len(pipe') + n <= PipeCap
    BY <2>2, <2>3
  <2> QED
    BY <1>2, <2>4 DEF Fill
<1>3. CASE TakeLine \/ ReadEOF \/ ReadFails \/ WaitProcess \/ WaitFeeder
  BY <1>3 DEF TakeLine, ReadEOF, ReadFails, WaitProcess, WaitFeeder
<1>4. CASE UNCHANGED vars
  BY <1>4 DEF vars
<1> QED
  BY <1>1, <1>2, <1>3, <1>4 DEF Reader

LEMMA FeederStays ==
  ASSUME IInv, FeederCanStep, Child \/ ChildKilled \/ Reader \/ ReadFails \/ UNCHANGED vars
  PROVE  FeederCanStep'
<1> USE DEF FeederCanStep, childVars, outVars, readerVars, stdinVars
<1>1. CASE Child \/ ChildKilled
  <2>1. prompt' = prompt /\ feeding' = feeding /\ (stdin' = stdin \/ stdin' = stdin - 1)
        /\ op # "exited"
    BY <1>1 DEF Child, BeginWrite, WriteSome, BeginRead, ReadPrompt, ReadPromptEOF, ChildExits,
                ChildKilled
  <2>2. stdin \in Nat /\ StdinCap \in Nat
    BY SizesAssumption DEF IInv, TypeOK, SizesAssumption
  <2> QED
    BY <2>1, <2>2
<1>2. CASE Reader \/ ReadFails
  BY <1>2 DEF Reader, Fill, TakeLine, ReadEOF, ReadFails, WaitProcess, WaitFeeder
<1>3. CASE UNCHANGED vars
  BY <1>3 DEF vars
<1> QED
  BY <1>1, <1>2, <1>3

LEMMA ReaderStays ==
  ASSUME IInv, ReaderCanStep, Child \/ ChildKilled \/ Feeder \/ UNCHANGED vars
  PROVE  ReaderCanStep'
<1> USE DEF ReaderCanStep, childVars, outVars, readerVars, stdinVars
<1>1. CASE WriteSome
  <2>1. PICK n \in 1..Len(text) : pipe' = pipe \o SubSeq(text, 1, n)
    BY <1>1 DEF WriteSome
  <2>2. text \in Seq(Bytes) /\ pipe \in Seq(Bytes) /\ n \in 0..Len(text)
    BY DEF IInv, TypeOK
  <2>3. SubSeq(text, 1, n) \in Seq(Bytes) /\ Len(SubSeq(text, 1, n)) = n
    BY <2>2, CutAndJoin
  <2>4. Len(pipe') = Len(pipe) + n
    BY <2>1, <2>2, <2>3, ConcatProperties
  <2>5. Len(pipe) \in Nat /\ n \in Nat
    BY <2>2
  <2> QED
    BY <1>1, <2>4, <2>5 DEF WriteSome
<1>2. CASE BeginWrite \/ BeginRead \/ ReadPrompt \/ ReadPromptEOF \/ ChildExits \/ ChildKilled
  BY <1>2 DEF BeginWrite, BeginRead, ReadPrompt, ReadPromptEOF, ChildExits, ChildKilled
<1>3. CASE Feeder
  BY <1>3 DEF Feeder, Feed, FeedEnds
<1>4. CASE UNCHANGED vars
  BY <1>4 DEF vars
<1> QED
  BY <1>1, <1>2, <1>3, <1>4 DEF Child

\* What one of the three can do it can do until it does it, or, for the child, is
\* killed and, for the read loop, a read fails: neither of the others takes its turn
\* away. It is enough that each of them runs, at some time, when it can.
THEOREM TurnsAreNotTakenAway ==
  FairSpec =>
    [][/\ ChildCanStep => ChildCanStep' \/ Child \/ ChildKilled
       /\ FeederCanStep => FeederCanStep' \/ Feeder
       /\ ReaderCanStep => ReaderCanStep' \/ Reader \/ ReadFails]_vars
<1>1. IInv /\ [Next]_vars =>
        [/\ ChildCanStep => ChildCanStep' \/ Child \/ ChildKilled
         /\ FeederCanStep => FeederCanStep' \/ Feeder
         /\ ReaderCanStep => ReaderCanStep' \/ Reader \/ ReadFails]_vars
  BY ChildStays, FeederStays, ReaderStays DEF Next
<1> QED
  BY <1>1, Invariant, PTL DEF FairSpec
================================================================================
