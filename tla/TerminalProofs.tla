---------------------------- MODULE TerminalProofs ----------------------------
(***************************************************************************)
(* terminal.ReadLine: raw mode, the line that backspace edits and what the *)
(* keys come to, for any terminal, any keys and any size of the reader,    *)
(* however the bytes of the keys are cut into reads.                       *)
(***************************************************************************)
EXTENDS Terminal, WellFoundedInduction, TLAPS

--------------------------------------------------------------------------------
LEMMA Least ==
  ASSUME NEW I \in SUBSET Nat, I # {}
  PROVE  \E m \in I : \A j \in I : m <= j
<1>1. PICK m \in I : \A j \in I : ~ (<<j, m>> \in OpToRel(<, Nat))
  BY NatLessThanWellFounded, WFMin, Zenon
<1>2. ASSUME NEW j \in I PROVE ~ (j < m)
  <2>1. <<j, m>> \in Nat \X Nat /\ <<j, m>>[1] = j /\ <<j, m>>[2] = m
    OBVIOUS
  <2> QED
    BY <1>1, <2>1, Zenon DEF OpToRel
<1>3. \A j \in I : m <= j
  BY <1>2
<1> QED
  BY <1>3

LEMMA Greatest ==
  ASSUME NEW n \in Nat, NEW I \in SUBSET (0..n), I # {}
  PROVE  Max(I) \in I /\ \A j \in I : j <= Max(I)
<1>1. \E m \in I : \A j \in I : j <= m
  <2> DEFINE T == {n - i : i \in I}
  <2>1. \A i \in I : i \in Nat /\ n - i \in Nat
    OBVIOUS
  <2>2. T \subseteq Nat /\ T # {}
    BY <2>1
  <2>3. PICK x \in T : \A y \in T : x <= y
    <3> HIDE DEF T
    <3> QED
      BY <2>2, Least
  <2>4. PICK m \in I : x = n - m
    OBVIOUS
  <2>5. ASSUME NEW j \in I PROVE j <= m
    <3>1. x <= n - j
      BY <2>3
    <3> QED
      BY <2>1, <2>4, <3>1
  <2> QED
    BY <2>5
<1> QED
  BY <1>1 DEF Max

--------------------------------------------------------------------------------
(* Sequences joined.                                                       *)

NextJoined(F, n, before) == IF n = 1 THEN F[n] ELSE before \o F[n]

IsJoined(joined, F, n) == joined = [m \in 1..n |-> NextJoined(F, m, joined[m - 1])]

LEMMA JoinedExists ==
  ASSUME NEW F, NEW L \in Nat, L # 0
  PROVE  \E joined : IsJoined(joined, F, L)
<1> DEFINE Missing == {n \in Nat \ {0} : ~ \E joined : IsJoined(joined, F, n)}
<1> SUFFICES ASSUME Missing # {} PROVE FALSE
  OBVIOUS
<1>1. PICK n \in Missing : \A m \in Missing : n <= m
  <2> HIDE DEF Missing
  <2>1. Missing \in SUBSET Nat
    BY DEF Missing
  <2> QED
    BY <2>1, Least
<1>2. n \in Nat /\ n # 0 /\ ~ \E joined : IsJoined(joined, F, n)
  OBVIOUS
<1>3. CASE n = 1
  <2> DEFINE k == [m \in 1..1 |-> F[m]]
  <2>1. \A m \in 1..1 : k[m] = NextJoined(F, m, k[m - 1])
    BY DEF NextJoined
  <2>2. k = [m \in 1..1 |-> NextJoined(F, m, k[m - 1])]
    BY <2>1
  <2> HIDE DEF k
  <2> QED
    BY <1>2, <1>3, <2>2 DEF IsJoined
<1>4. CASE n # 1
  <2>1. n - 1 \in Nat /\ n - 1 # 0 /\ ~(n <= n - 1)
    BY <1>2, <1>4
  <2>2. PICK k : IsJoined(k, F, n - 1)
    BY <1>1, <2>1
  <2> DEFINE h == [m \in 1..n |-> IF m < n THEN k[m] ELSE NextJoined(F, n, k[n - 1])]
  <2>3. ASSUME NEW m \in 1..n PROVE h[m] = NextJoined(F, m, h[m - 1])
    <3>1. CASE m = 1
      <4>1. h[m] = k[1]
        BY <1>2, <1>4, <3>1
      <4>2. k[1] = NextJoined(F, 1, k[1 - 1])
        BY <2>1, <2>2 DEF IsJoined
      <4> QED
        BY <3>1, <4>1, <4>2 DEF NextJoined
    <3>2. CASE m # 1 /\ m < n
      <4>1. m \in 1..(n - 1) /\ m - 1 \in 1..n /\ m - 1 < n
        BY <1>2, <3>2
      <4>2. h[m] = k[m] /\ h[m - 1] = k[m - 1]
        BY <3>2, <4>1
      <4> QED
        BY <2>2, <4>1, <4>2 DEF IsJoined
    <3>3. CASE m = n
      <4>1. n - 1 \in 1..n /\ n - 1 < n /\ ~(m < n)
        BY <1>2, <2>1, <3>3
      <4> QED
        BY <3>3, <4>1
    <3> QED
      BY <1>2, <3>1, <3>2, <3>3
  <2>4. h = [m \in 1..n |-> NextJoined(F, m, h[m - 1])]
    <3>1. h = [m \in 1..n |-> h[m]]
      OBVIOUS
    <3> HIDE DEF h
    <3> QED
      BY <2>3, <3>1
  <2> HIDE DEF h
  <2> QED
    BY <1>2, <2>4 DEF IsJoined
<1> QED
  BY <1>3, <1>4

LEMMA JoinedType ==
  ASSUME NEW T, NEW F \in Seq(Seq(T))
  PROVE  FlattenSeq(F) \in Seq(T)
<1>1. CASE F = <<>>
  BY <1>1 DEF FlattenSeq
<1>2. CASE F # <<>>
  <2> DEFINE K == CHOOSE joined : IsJoined(joined, F, Len(F))
             S == Seq(T)
             L == Len(F)
  <2>1. L \in Nat /\ L # 0 /\ \A i \in 1..L : F[i] \in S
    BY <1>2
  <2>2. IsJoined(K, F, L)
    BY <2>1, JoinedExists
  <2>3. FlattenSeq(F) = K[L]
    BY <2>1 DEF FlattenSeq, IsJoined, NextJoined
  <2> HIDE DEF K, L
  <2>4. \A n \in 1..L : K[n] = NextJoined(F, n, K[n - 1])
    BY <2>2 DEF IsJoined
  <2> DEFINE Bad == {n \in 1..L : K[n] \notin Seq(T)}
  <2>5. Bad = {}
    <3> SUFFICES ASSUME Bad # {} PROVE FALSE
      OBVIOUS
    <3>1. PICK n \in Bad : \A m \in Bad : n <= m
      <4>1. Bad \in SUBSET Nat
        BY <2>1
      <4> HIDE DEF Bad
      <4> QED
        BY <4>1, Least
    <3>2. n \in 1..L /\ K[n] \notin Seq(T) /\ F[n] \in Seq(T)
      BY <2>1
    <3>3. CASE n = 1
      BY <2>4, <3>2, <3>3 DEF NextJoined
    <3>4. CASE n # 1
      <4>1. n - 1 \in 1..L /\ ~(n <= n - 1)
        BY <2>1, <3>2, <3>4
      <4>2. K[n - 1] \in Seq(T)
        BY <3>1, <4>1
      <4>3. K[n] = K[n - 1] \o F[n]
        BY <2>4, <3>2, <3>4 DEF NextJoined
      <4> QED
        BY <3>2, <4>2, <4>3
    <3> QED
      BY <3>3, <3>4
  <2> QED
    BY <2>1, <2>3, <2>5
<1> QED
  BY <1>1, <1>2

--------------------------------------------------------------------------------
(* What is sent, and where lines begin.                                    *)

Sent ==
  {"a", "A", "[", "u", "~", "cr", "nl", "esc", "ESC", "etx", "eot", "del", "tab", "u1", "u2", "27",
   "99_5", "27_5_99", "100_5", "27_5_100", "13_2", "27_2_13", "200", "201"}
  \cup UNION {KeysOf[s] : s \in DOMAIN KeysOf}

LEMMA CsiType ==
  ASSUME NEW param \in Sent, NEW final \in Sent
  PROVE  Csi(param, final) \in Seq(Sent)
<1>1. "esc" \in Sent /\ "[" \in Sent
  BY DEF Sent
<1> QED
  BY <1>1 DEF Csi

LEMMA BytesType ==
  ASSUME speaks \in DOMAIN KeysOf, NEW k \in KeysOf[speaks]
  PROVE  Bytes(k) \in Seq(Sent)
<1>1. ASSUME NEW b \in Sent PROVE <<b>> \in Seq(Sent)
  BY <1>1
<1>2. k \in Sent
  BY DEF Sent
<1>3. /\ {"a", "A", "[", "u", "~", "cr", "nl"} \subseteq Sent
      /\ {"esc", "ESC", "etx", "eot", "del", "u1", "u2"} \subseteq Sent
      /\ {"27", "99_5", "27_5_99", "100_5", "27_5_100"} \subseteq Sent
      /\ {"13_2", "27_2_13", "200", "201"} \subseteq Sent
  BY DEF Sent
<1>4. ASSUME NEW p \in Sent, NEW m \in Sent, NEW x \in Sent
      PROVE  Modified(p, m, x) \in Seq(Sent)
  BY <1>1, <1>3, CsiType DEF Modified
<1>5. Csi("200", "~") \o Pasted \o Csi("201", "~") \in Seq(Sent)
  <2>1. Csi("200", "~") \in Seq(Sent) /\ Csi("201", "~") \in Seq(Sent)
    BY <1>3, CsiType
  <2>2. Pasted \in Seq(Sent)
    <3>1. "a" \in Sent /\ "cr" \in Sent /\ "nl" \in Sent
      BY <1>3
    <3> QED
      BY <3>1 DEF Pasted
  <2> QED
    BY <2>1, <2>2
<1>6. /\ Csi("27", "u") \in Seq(Sent) /\ <<"cr">> \in Seq(Sent) /\ <<"nl">> \in Seq(Sent)
      /\ <<"del">> \in Seq(Sent) /\ <<"ESC">> \in Seq(Sent) /\ <<k>> \in Seq(Sent)
  BY <1>1, <1>2, <1>3, CsiType
<1>7. <<"cr", "nl">> \in Seq(Sent) /\ <<"u1", "u2">> \in Seq(Sent) /\ <<"esc", "[", "A">> \in Seq(Sent)
  <2>1. /\ "cr" \in Sent /\ "nl" \in Sent /\ "u1" \in Sent /\ "u2" \in Sent
        /\ "esc" \in Sent /\ "[" \in Sent /\ "A" \in Sent
    BY <1>3
  <2> QED
    BY <2>1
<1>8. /\ Modified("etx", "99_5", "27_5_99") \in Seq(Sent)
      /\ Modified("eot", "100_5", "27_5_100") \in Seq(Sent)
      /\ Modified("cr", "13_2", "27_2_13") \in Seq(Sent)
  BY <1>3, <1>4
<1> QED
  BY <1>5, <1>6, <1>7, <1>8 DEF Bytes

\* k is the place of the last newline of s, 0 when it has none.
IsLast(k, s) ==
  /\ k \in 0..Len(s)
  /\ k # 0 => s[k] = "nl"
  /\ \A i \in 1..Len(s) : s[i] = "nl" => i <= k

LEMMA LastIs ==
  ASSUME NEW T, NEW s \in Seq(T)
  PROVE  \A k \in Nat : k = AfterLastNewline(s) <=> IsLast(k, s)
<1> DEFINE I == {i \in 1..Len(s) : s[i] = "nl"}
           x == IF I # {} THEN Max(I) ELSE 0
<1>1. AfterLastNewline(s) = x
  BY DEF AfterLastNewline, SelectLastInSeq
<1>2. Len(s) \in Nat /\ I \in SUBSET (0..Len(s)) /\ I \in SUBSET (1..Len(s))
  OBVIOUS
<1>3. x \in 0..Len(s) /\ (x # 0 => x \in I) /\ \A i \in I : i <= x
  <2>1. CASE I = {}
    BY <1>2, <2>1
  <2>2. CASE I # {}
    <3>1. Max(I) \in I /\ \A j \in I : j <= Max(I)
      <4> HIDE DEF I
      <4> QED
        BY <1>2, <2>2, Greatest
    <3> HIDE DEF I
    <3> QED
      BY <1>2, <2>2, <3>1
  <2> QED
    BY <2>1, <2>2
<1> HIDE DEF x
<1>4. IsLast(x, s)
  BY <1>2, <1>3 DEF IsLast
<1>5. ASSUME NEW k \in Nat, IsLast(k, s) PROVE k = x
  <2>1. k \in 0..Len(s) /\ (k # 0 => k \in I) /\ \A i \in I : i <= k
    BY <1>2, <1>5 DEF IsLast
  <2>2. k <= x
    BY <1>2, <1>3, <2>1
  <2>3. x <= k
    BY <1>2, <1>3, <2>1
  <2> QED
    BY <1>2, <1>3, <2>2, <2>3
<1> QED
  BY <1>1, <1>4, <1>5

LEMMA LastNat ==
  ASSUME NEW T, NEW s \in Seq(T)
  PROVE  AfterLastNewline(s) \in Nat
<1> DEFINE n == Len(s)
           I == {i \in 1..n : s[i] = "nl"}
           m == Max(I)
<1>1. AfterLastNewline(s) = IF I # {} THEN m ELSE 0
  BY DEF AfterLastNewline, SelectLastInSeq
<1>2. n \in Nat /\ I \subseteq 0..n
  OBVIOUS
<1>3. \A i \in I : i \in Nat
  OBVIOUS
<1> HIDE DEF I, n
<1>4. I # {} => m \in I
  BY <1>2, Greatest
<1> HIDE DEF m
<1> QED
  BY <1>1, <1>3, <1>4

LEMMA LastNone == IsLast(0, <<>>)
BY DEF IsLast

\* A byte that ends no line leaves the line where it is, a newline begins one.
LEMMA LastAppend ==
  ASSUME NEW T, NEW s \in Seq(T), NEW b \in T, NEW k, IsLast(k, s)
  PROVE  /\ b # "nl" => IsLast(k, Append(s, b))
         /\ b = "nl" => IsLast(Len(s) + 1, Append(s, b))
<1> DEFINE n == Len(s)
           w == Append(s, b)
<1>1. n \in Nat /\ Len(w) = n + 1 /\ w[n + 1] = b /\ \A i \in 1..n : w[i] = s[i]
  OBVIOUS
<1> HIDE DEF w
<1>2. k \in 0..n /\ (k # 0 => s[k] = "nl") /\ \A i \in 1..n : s[i] = "nl" => i <= k
  BY DEF IsLast
<1> HIDE DEF n
<1>3. \A i \in 1..(n + 1) : i \in 1..n \/ i = n + 1
  BY <1>1
<1>4. b # "nl" => IsLast(k, w)
  BY <1>1, <1>2, <1>3 DEF IsLast
<1>5. b = "nl" => IsLast(n + 1, w)
  BY <1>1, <1>2, <1>3 DEF IsLast
<1> QED
  BY <1>4, <1>5 DEF n, w

LEMMA SuffixIs ==
  ASSUME NEW T, NEW s \in Seq(T), IsSuffix(<<"u1", "u2">>, s)
  PROVE  Len(s) >= 2 /\ s[Len(s)] = "u2" /\ s[Len(s) - 1] = "u1"
<1> DEFINE p == <<"u1", "u2">>
           n == Len(s)
           r == Reverse(s)
           q == Reverse(p)
<1>1. n \in Nat /\ Len(p) = 2 /\ p[1] = "u1" /\ p[2] = "u2"
  OBVIOUS
<1>2. Len(q) = 2 /\ q[1] = "u2" /\ q[2] = "u1"
  <2>1. q = [i \in 1..2 |-> p[(2 - i) + 1]]
    BY <1>1 DEF Reverse
  <2>2. Len(q) = 2
    BY <2>1
  <2>3. q[1] = p[2] /\ q[2] = p[1]
    BY <2>1
  <2> QED
    BY <1>1, <2>2, <2>3
<1>3. /\ Len(r) = n /\ (n >= 1 => r[1] = s[n]) /\ (n >= 2 => r[2] = s[n - 1])
      /\ r \in Seq(T)
  <2>1. r = [i \in 1..n |-> s[(n - i) + 1]]
    BY DEF Reverse
  <2>2. \A i \in 1..n : (n - i) + 1 \in 1..n
    BY <1>1
  <2>3. \A i \in 1..n : s[(n - i) + 1] \in T
    BY <2>2
  <2>4. r \in Seq(T) /\ Len(r) = n
    BY <1>1, <2>1, <2>3
  <2>5. (n >= 1 => r[1] = s[(n - 1) + 1]) /\ (n >= 2 => r[2] = s[(n - 2) + 1])
    BY <1>1, <2>1
  <2> QED
    BY <1>1, <2>4, <2>5
<1>4. Len(q) <= Len(r) /\ SubSeq(q, 1, Len(q)) = SubSeq(r, 1, Len(q))
  BY DEF IsSuffix, IsPrefix
<1> HIDE DEF p, q, r, n
<1>5. n >= 2 /\ SubSeq(q, 1, 2) = SubSeq(r, 1, 2)
  BY <1>2, <1>3, <1>4
<1>6. r[1] = q[1] /\ r[2] = q[2]
  <2>1. SubSeq(r, 1, 2)[1] = r[1] /\ SubSeq(r, 1, 2)[2] = r[2]
    BY <1>3, <1>5
  <2>2. q \in Seq({"u1", "u2"})
    BY <1>2 DEF p, q, Reverse
  <2>3. SubSeq(q, 1, 2)[1] = q[1] /\ SubSeq(q, 1, 2)[2] = q[2]
    BY <1>2, <2>2
  <2> QED
    BY <1>5, <2>1, <2>3
<1> QED
  BY <1>1, <1>2, <1>3, <1>5, <1>6 DEF n

\* Backspace: what is left ends no earlier than the line begins.
LEMMA LastErased ==
  ASSUME NEW T, NEW s \in Seq(T), NEW k, IsLast(k, s), Len(s) > k
  PROVE  /\ SubSeq(s, 1, Len(s) - LastRune(s)) \in Seq(T)
         /\ IsLast(k, SubSeq(s, 1, Len(s) - LastRune(s)))
<1> DEFINE n == Len(s)
           m == n - LastRune(s)
           w == SubSeq(s, 1, m)
<1>1. n \in Nat /\ k \in 0..n /\ k < n /\ (k # 0 => s[k] = "nl")
      /\ \A i \in 1..n : s[i] = "nl" => i <= k
  BY DEF IsLast
<1>2. m \in 0..n /\ k <= m
  <2>1. CASE IsSuffix(<<"u1", "u2">>, s)
    <3>1. LastRune(s) = 2
      BY <2>1 DEF LastRune
    <3>2. n >= 2 /\ s[n] = "u2" /\ s[n - 1] = "u1"
      BY <2>1, SuffixIs
    <3>3. k # n /\ k # n - 1
      BY <1>1, <3>2
    <3> HIDE DEF n
    <3> QED
      BY <1>1, <3>1, <3>2, <3>3
  <2>2. CASE ~ IsSuffix(<<"u1", "u2">>, s)
    <3>1. LastRune(s) = 1
      BY <2>2 DEF LastRune
    <3> HIDE DEF n
    <3> QED
      BY <1>1, <3>1
  <2> QED
    BY <2>1, <2>2
<1>3. m <= n
  BY <1>1, <1>2
<1> HIDE DEF m
<1>4. w \in Seq(T) /\ Len(w) = m /\ \A i \in 1..m : w[i] = s[i]
  BY <1>1, <1>2, <1>3
<1> HIDE DEF w, n
<1>5. \A i \in 1..m : i \in 1..n
  BY <1>1, <1>2, <1>3
<1>6. IsLast(k, w)
  BY <1>1, <1>2, <1>4, <1>5 DEF IsLast
<1> QED
  BY <1>4, <1>6 DEF w, m, n

LEMMA NormalisedType ==
  ASSUME NEW text \in Seq(Sent)
  PROVE  Normalised(text) \in Seq(Sent)
<1> DEFINE piece(i) == IF text[i] # "cr" THEN <<text[i]>>
                       ELSE IF i < Len(text) /\ text[i + 1] = "nl" THEN <<>> ELSE <<"nl">>
           F == [i \in DOMAIN text |-> piece(i)]
           n == Len(text)
           S == Seq(Sent)
<1>1. n \in Nat /\ DOMAIN text = 1..n /\ \A i \in 1..n : text[i] \in Sent
  OBVIOUS
<1>2. "nl" \in Sent
  BY DEF Sent
<1>3. \A i \in 1..n : piece(i) \in S
  BY <1>1, <1>2
<1>4. Normalised(text) = FlattenSeq(F)
  BY DEF Normalised
<1> HIDE DEF S, piece, n
<1>5. F \in Seq(S)
  BY <1>1, <1>3
<1> QED
  BY <1>4, <1>5, JoinedType DEF S

LEMMA LonePrefix ==
  ASSUME NEW content \in Seq(Sent), IsSuffix(PasteEnd, content)
  PROVE  SubSeq(content, 1, Len(content) - Len(PasteEnd)) \in Seq(Sent)
<1>1. Len(PasteEnd) = 4
  BY DEF PasteEnd, Csi
<1>2. Len(Reverse(PasteEnd)) = 4
  BY <1>1 DEF Reverse
<1>3. Len(Reverse(content)) = Len(content)
  BY DEF Reverse
<1>4. Len(content) \in Nat /\ 4 <= Len(content)
  BY <1>2, <1>3 DEF IsSuffix, IsPrefix
<1> QED
  BY <1>1, <1>4

--------------------------------------------------------------------------------
(* The invariant: what a call reads and keeps, and where its line begins.  *)

Reading ==
  /\ speaks \in DOMAIN KeysOf
  /\ arrived \in Seq(Sent) /\ stdin \in Seq(Sent) /\ Len(stdin) <= BufSize
  /\ pending \in Seq(Sent) /\ buf \in Seq(Sent)
  /\ reader \in {"idle", "reading", "escape", "csi", "paste", "plain"}
  /\ raw = (reader \notin {"idle", "plain"})

LineBegins == IsLast(lineStart, buf)

TInv == Reading /\ LineBegins

LEMMA TermInitTInv == TermInit => TInv
<1> SUFFICES ASSUME TermInit PROVE TInv
  OBVIOUS
<1>1. <<>> \in Seq(Sent) /\ Len(<<>>) = 0 /\ 0 <= BufSize
  BY TermAssumption
<1>2. /\ speaks \in DOMAIN KeysOf /\ arrived = <<>> /\ stdin = <<>> /\ pending = <<>>
      /\ buf = <<>> /\ lineStart = 0 /\ reader = "idle" /\ raw = FALSE
  BY DEF TermInit
<1>3. Reading
  BY <1>1, <1>2 DEF Reading
<1>4. LineBegins
  BY <1>2, LastNone DEF LineBegins
<1> QED
  BY <1>3, <1>4 DEF TInv

LEMMA InputTInv == TInv /\ (Press \/ HangUp) => TInv'
<1> SUFFICES ASSUME TInv, Press \/ HangUp PROVE TInv'
  OBVIOUS
<1>1. arrived' \in Seq(Sent)
  <2>1. CASE Press
    <3>1. PICK k \in KeysOf[speaks] : arrived' = arrived \o Bytes(k)
      BY <2>1 DEF Press
    <3>2. Bytes(k) \in Seq(Sent) /\ arrived \in Seq(Sent)
      BY BytesType DEF TInv, Reading
    <3> QED
      BY <3>1, <3>2
  <2>2. CASE HangUp
    BY <2>2 DEF HangUp, TInv, Reading
  <2> QED
    BY <2>1, <2>2
<1> QED
  BY <1>1 DEF TInv, Reading, LineBegins, Press, HangUp, lineVars

LEMMA ReadLineTInv == TInv /\ ReadLine => TInv'
<1> SUFFICES ASSUME TInv, ReadLine PROVE TInv'
  OBVIOUS
<1>1. LineBegins'
  BY LastNone DEF ReadLine, LineBegins
<1> QED
  BY <1>1 DEF TInv, Reading, ReadLine, inputVars

LEMMA FillTInv == TInv /\ Fill => TInv'
<1> SUFFICES ASSUME TInv, Fill PROVE TInv'
  OBVIOUS
<1> DEFINE a == Len(arrived)
           n == IF a < BufSize THEN a ELSE BufSize
<1>1. a \in Nat /\ BufSize \in Nat /\ arrived \in Seq(Sent)
  BY TermAssumption DEF TInv, Reading
<1>2. stdin' = SubSeq(arrived, 1, n) /\ arrived' = SubSeq(arrived, n + 1, a)
  BY DEF Fill
<1>3. n \in 0..a /\ n <= BufSize /\ n <= a
  <2> HIDE DEF a
  <2> QED
    BY <1>1
<1> HIDE DEF n
<1>4. stdin' \in Seq(Sent) /\ Len(stdin') = n /\ arrived' \in Seq(Sent)
  BY <1>1, <1>2, <1>3
<1>5. Len(stdin') <= BufSize
  BY <1>3, <1>4
<1> QED
  BY <1>4, <1>5 DEF TInv, Reading, LineBegins, Fill, lineVars

LEMMA TakeKeeps ==
  ASSUME TInv, Take
  PROVE  /\ stdin' \in Seq(Sent) /\ Len(stdin') <= BufSize /\ Byte \in Sent
<1>1. stdin \in Seq(Sent) /\ stdin # <<>> /\ stdin' = Tail(stdin) /\ Len(stdin) <= BufSize
  BY DEF TInv, Reading, Take
<1>2. Len(stdin) \in Nat /\ Len(stdin) # 0 /\ BufSize \in Nat
  BY <1>1, TermAssumption
<1>3. Tail(stdin) \in Seq(Sent) /\ Len(Tail(stdin)) = Len(stdin) - 1 /\ Head(stdin) \in Sent
  BY <1>1
<1>4. Len(stdin) - 1 <= BufSize
  BY <1>1, <1>2
<1> QED
  BY <1>1, <1>3, <1>4 DEF Byte

\* A call returns with the terminal restored.
LEMMA ReturnsTInv ==
  ASSUME TInv, UNCHANGED <<inputVars, lineVars>>, stdin' \in Seq(Sent), Len(stdin') <= BufSize,
         NEW text, NEW err, Return(text, err)
  PROVE  TInv'
<1>1. reader' = "idle" /\ raw' = FALSE /\ pending' = <<>>
  BY DEF Return
<1>2. /\ speaks' = speaks /\ arrived' = arrived /\ buf' = buf /\ lineStart' = lineStart
  BY DEF inputVars, lineVars
<1>3. /\ speaks \in DOMAIN KeysOf /\ arrived \in Seq(Sent) /\ buf \in Seq(Sent)
      /\ <<>> \in Seq(Sent)
  BY DEF TInv, Reading
<1>4. Reading'
  BY <1>1, <1>2, <1>3 DEF Reading
<1>5. LineBegins'
  BY <1>2 DEF TInv, LineBegins
<1> QED
  BY <1>4, <1>5 DEF TInv

LEMMA EndOfInputTInv == TInv /\ EndOfInput => TInv'
<1> SUFFICES ASSUME TInv, EndOfInput PROVE TInv'
  OBVIOUS
<1>1. Return(Trimmed(buf), "none") \/ Return(<<>>, "EOF")
  BY DEF EndOfInput
<1>2. UNCHANGED <<inputVars, lineVars>> /\ stdin' \in Seq(Sent) /\ Len(stdin') <= BufSize
  BY DEF EndOfInput, TInv, Reading
<1> QED
  BY <1>1, <1>2, ReturnsTInv

LEMMA ControlTInv == TInv /\ Control => TInv'
<1> SUFFICES ASSUME TInv, Control PROVE TInv'
  OBVIOUS
<1>1. stdin' \in Seq(Sent) /\ Len(stdin') <= BufSize /\ UNCHANGED <<inputVars, lineVars>>
  BY TakeKeeps DEF Control
<1>2. \/ Return(<<>>, "interrupted") \/ Return(<<>>, "EOF") \/ Return(buf, "none")
      \/ UNCHANGED <<reader, raw, pending, results>>
  BY DEF Control
<1>3. CASE UNCHANGED <<reader, raw, pending, results>>
  BY <1>1, <1>3 DEF TInv, Reading, LineBegins, inputVars, lineVars
<1> QED
  BY <1>1, <1>2, <1>3, ReturnsTInv

LEMMA EditTInv == TInv /\ Edit => TInv'
<1> SUFFICES ASSUME TInv, Edit PROVE TInv'
  OBVIOUS
<1>1. /\ stdin' \in Seq(Sent) /\ Len(stdin') <= BufSize /\ Byte \in Sent
      /\ UNCHANGED <<inputVars, reader, raw, pending, lineStart>>
  BY TakeKeeps DEF Edit
<1>2. buf \in Seq(Sent) /\ IsLast(lineStart, buf)
  BY DEF TInv, Reading, LineBegins
<1>3. buf' \in Seq(Sent) /\ IsLast(lineStart, buf')
  <2>1. CASE Len(buf) > lineStart /\ buf' = SubSeq(buf, 1, Len(buf) - LastRune(buf))
    BY <1>2, <2>1, LastErased
  <2>2. CASE UNCHANGED buf
    BY <1>2, <2>2
  <2>3. CASE Byte \notin Controls /\ buf' = Append(buf, Byte)
    <3>1. Byte # "nl"
      BY <2>3 DEF Controls, LineEnds
    <3>2. IsLast(lineStart, Append(buf, Byte))
      BY <1>1, <1>2, <3>1, LastAppend
    <3>3. Append(buf, Byte) \in Seq(Sent)
      BY <1>1, <1>2
    <3> QED
      BY <2>3, <3>2, <3>3
  <2> QED
    BY <2>1, <2>2, <2>3 DEF Edit
<1> QED
  BY <1>1, <1>3 DEF TInv, Reading, LineBegins, inputVars

LEMMA EscapeTInv == TInv /\ (Escape \/ EscapeByte) => TInv'
<1> SUFFICES ASSUME TInv, Escape \/ EscapeByte PROVE TInv'
  OBVIOUS
<1>1. stdin' \in Seq(Sent) /\ Len(stdin') <= BufSize
  BY TakeKeeps DEF Escape, EscapeByte
<1>2. /\ UNCHANGED <<inputVars, raw, lineVars>> /\ raw = TRUE
      /\ reader' \in {"reading", "escape", "csi"} /\ pending' \in {pending, <<>>}
  BY DEF Escape, EscapeByte, TInv, Reading
<1>3. <<>> \in Seq(Sent)
  OBVIOUS
<1>4. pending' \in Seq(Sent)
  BY <1>2, <1>3 DEF TInv, Reading
<1> QED
  BY <1>1, <1>2, <1>4 DEF TInv, Reading, LineBegins, inputVars, lineVars

LEMMA CsiByteTInv == TInv /\ CsiByte => TInv'
<1> SUFFICES ASSUME TInv, CsiByte PROVE TInv'
  OBVIOUS
<1>1. /\ stdin' \in Seq(Sent) /\ Len(stdin') <= BufSize /\ Byte \in Sent
      /\ UNCHANGED <<inputVars, raw>> /\ raw = TRUE
  BY TakeKeeps DEF CsiByte, TInv, Reading
<1>2. buf \in Seq(Sent) /\ IsLast(lineStart, buf) /\ pending \in Seq(Sent)
  BY DEF TInv, Reading, LineBegins
<1>3. reader' \in {"csi", "reading", "paste"}
  BY DEF CsiByte
<1>4. pending' \in Seq(Sent)
  <2>1. Append(pending, Byte) \in Seq(Sent) /\ <<>> \in Seq(Sent)
    BY <1>1, <1>2
  <2> QED
    BY <2>1 DEF CsiByte
<1>5. buf' \in Seq(Sent) /\ IsLast(lineStart', buf')
  <2>1. CASE UNCHANGED lineVars
    BY <1>2, <2>1 DEF lineVars
  <2>2. CASE buf' = Append(buf, "nl") /\ lineStart' = Len(buf) + 1
    <3>1. "nl" \in Sent
      BY DEF Sent
    <3>2. Append(buf, "nl") \in Seq(Sent)
      BY <1>2, <3>1
    <3>3. IsLast(Len(buf) + 1, Append(buf, "nl"))
      BY <1>2, <3>1, LastAppend
    <3> QED
      BY <2>2, <3>2, <3>3
  <2> QED
    BY <2>1, <2>2 DEF CsiByte
<1> QED
  BY <1>1, <1>3, <1>4, <1>5 DEF TInv, Reading, LineBegins, inputVars

LEMMA PasteByteTInv == TInv /\ PasteByte => TInv'
<1> SUFFICES ASSUME TInv, PasteByte PROVE TInv'
  OBVIOUS
<1>1. /\ stdin' \in Seq(Sent) /\ Len(stdin') <= BufSize /\ Byte \in Sent
      /\ UNCHANGED <<inputVars, raw>> /\ raw = TRUE /\ reader = "paste"
  BY TakeKeeps DEF PasteByte, TInv, Reading
<1>2. buf \in Seq(Sent) /\ IsLast(lineStart, buf) /\ pending \in Seq(Sent)
  BY DEF TInv, Reading, LineBegins
<1> DEFINE content == Append(pending, Byte)
           text == SubSeq(content, 1, Len(content) - Len(PasteEnd))
<1>3. content \in Seq(Sent)
  BY <1>1, <1>2
<1>4. CASE IsSuffix(PasteEnd, content)
  <2>1. /\ buf' = buf \o Normalised(text) /\ lineStart' = AfterLastNewline(buf')
        /\ reader' = "reading" /\ pending' = <<>>
    BY <1>4 DEF PasteByte
  <2>2. text \in Seq(Sent)
    <3> HIDE DEF content
    <3> QED
      BY <1>3, <1>4, LonePrefix
  <2> HIDE DEF text
  <2>3. buf' \in Seq(Sent)
    <3>1. Normalised(text) \in Seq(Sent)
      BY <2>2, NormalisedType
    <3> QED
      BY <1>2, <2>1, <3>1
  <2>4. \A w \in Seq(Sent) : IsLast(AfterLastNewline(w), w)
    <3> SUFFICES ASSUME NEW w \in Seq(Sent) PROVE IsLast(AfterLastNewline(w), w)
      OBVIOUS
    <3>1. AfterLastNewline(w) \in Nat
      BY LastNat
    <3> QED
      BY <3>1, LastIs
  <2>5. IsLast(lineStart', buf')
    BY <2>1, <2>3, <2>4
  <2>6. pending' \in Seq(Sent)
    BY <2>1
  <2> QED
    BY <1>1, <2>1, <2>3, <2>5, <2>6 DEF TInv, Reading, LineBegins, inputVars
<1>5. CASE ~ IsSuffix(PasteEnd, content)
  <2>1. pending' = content /\ UNCHANGED <<reader, lineVars>>
    BY <1>5 DEF PasteByte
  <2> HIDE DEF content
  <2> QED
    BY <1>1, <1>3, <2>1 DEF TInv, Reading, LineBegins, inputVars, lineVars
<1> QED
  BY <1>4, <1>5

LEMMA PlainByteTInv == TInv /\ PlainByte => TInv'
<1> SUFFICES ASSUME TInv, PlainByte PROVE TInv'
  OBVIOUS
<1>1. /\ stdin' \in Seq(Sent) /\ Len(stdin') <= BufSize /\ Byte \in Sent
      /\ UNCHANGED <<inputVars, lineStart>>
  BY TakeKeeps DEF PlainByte
<1>2. buf \in Seq(Sent) /\ IsLast(lineStart, buf)
  BY DEF TInv, Reading, LineBegins
<1>3. CASE Byte = "nl"
  <2>1. Return(Trimmed(buf), "none") /\ UNCHANGED <<inputVars, lineVars>>
    BY <1>1, <1>3 DEF PlainByte, lineVars
  <2> QED
    BY <1>1, <2>1, ReturnsTInv
<1>4. CASE Byte # "nl"
  <2>1. buf' = Append(buf, Byte) /\ UNCHANGED <<reader, raw, pending>>
    BY <1>4 DEF PlainByte
  <2>2. buf' \in Seq(Sent)
    BY <1>1, <1>2, <2>1
  <2>3. IsLast(lineStart, Append(buf, Byte))
    BY <1>1, <1>2, <1>4, LastAppend
  <2> QED
    BY <1>1, <2>1, <2>2, <2>3 DEF TInv, Reading, LineBegins, inputVars
<1> QED
  BY <1>3, <1>4

LEMMA TermStutterTInv == TInv /\ UNCHANGED termVars => TInv'
BY DEF TInv, Reading, LineBegins, termVars, inputVars, lineVars

\* The invariant of ReadLine holds always.
THEOREM TermInductive == TermSpec => []TInv
<1>1. TInv /\ [TermNext]_termVars => TInv'
  BY InputTInv, ReadLineTInv, FillTInv, EndOfInputTInv, ControlTInv, EditTInv, EscapeTInv,
     CsiByteTInv, PasteByteTInv, PlainByteTInv, TermStutterTInv
  DEF TermNext
<1> QED
  BY TermInitTInv, <1>1, PTL DEF TermSpec

LEMMA TInvGives == TInv => TermTypeOK /\ LineStartIsLine
<1> SUFFICES ASSUME TInv PROVE TermTypeOK /\ LineStartIsLine
  OBVIOUS
<1>1. buf \in Seq(Sent) /\ IsLast(lineStart, buf)
  BY DEF TInv, Reading, LineBegins
<1>2. lineStart \in 0..Len(buf) /\ lineStart \in Nat
  BY <1>1 DEF IsLast
<1>3. lineStart = AfterLastNewline(buf)
  BY <1>1, <1>2, LastIs
<1>4. lineStart = SelectLastInSeq(buf, LAMBDA b : b = "nl")
  BY <1>3 DEF AfterLastNewline
<1>5. TermTypeOK
  BY <1>2 DEF TInv, Reading, TermTypeOK
<1> QED
  BY <1>4, <1>5 DEF LineStartIsLine

\* The terminal is in raw mode exactly while a call reads from it, whatever way the
\* call ends, and the place backspace stops at lies within the submission.
THEOREM RawWhileReading == TermSpec => []TermTypeOK
BY TermInductive, TInvGives, PTL

\* Backspace never eats past a newline, typed, pasted or put in by shift+enter:
\* lineStart is behind the last newline of the submission, however garbled.
THEOREM BackspaceStaysInLine == TermSpec => []LineStartIsLine
BY TermInductive, TInvGives, PTL

--------------------------------------------------------------------------------
(* Keys, their bytes and their meaning.                                    *)

PasteCode == Csi("200", "~") \o Pasted \o Csi("201", "~")

\* The bytes c can come from key k.
Sends(k, c) ==
  \/ k = "a" /\ c = <<"a">>
  \/ k = "u" /\ c = <<"u1", "u2">>
  \/ k = "enter" /\ c = <<"nl">>
  \/ k = "crlf" /\ c = <<"cr", "nl">> /\ speaks = "pipe"
  \/ /\ speaks # "pipe"
     /\ \/ k = "enter" /\ c = <<"cr">>
        \/ k = "backspace" /\ c = <<"del">>
        \/ k = "tab" /\ c = <<"tab">>
        \/ k = "ctrl+c" /\ c = <<"etx">>
        \/ k = "ctrl+d" /\ c = <<"eot">>
        \/ k = "escape" /\ c \in {<<"ESC">>, <<"esc", "[", "27", "u">>}
        \/ k = "arrow" /\ c = <<"esc", "[", "A">>
        \/ k = "shift+enter" /\ c \in {<<"esc", "[", "13_2", "u">>, <<"esc", "[", "27_2_13", "~">>}
        \/ k = "paste" /\ c = PasteCode

LEMMA JoinIs ==
  ASSUME NEW T, NEW s \in Seq(T), NEW t \in Seq(T)
  PROVE  /\ s \o t \in Seq(T) /\ Len(s \o t) = Len(s) + Len(t)
         /\ \A i \in 1..Len(s) : (s \o t)[i] = s[i]
         /\ \A i \in 1..Len(t) : (s \o t)[Len(s) + i] = t[i]
OBVIOUS

LEMMA PasteIs ==
  /\ Len(PasteCode) = 12
  /\ PasteCode[1] = "esc" /\ PasteCode[2] = "[" /\ PasteCode[3] = "200" /\ PasteCode[4] = "~"
  /\ PasteCode[5] = "a" /\ PasteCode[6] = "cr" /\ PasteCode[7] = "nl" /\ PasteCode[8] = "a"
  /\ PasteCode[9] = "esc" /\ PasteCode[10] = "[" /\ PasteCode[11] = "201" /\ PasteCode[12] = "~"
<1> DEFINE x == <<"esc", "[", "200", "~">>
           y == <<"a", "cr", "nl", "a">>
           z == <<"esc", "[", "201", "~">>
           v == x \o y
<1>1. PasteCode = v \o z
  BY DEF PasteCode, Csi, Pasted
<1>2. x \in Seq(Sent) /\ y \in Seq(Sent) /\ z \in Seq(Sent)
  BY DEF Sent
<1>3. /\ v \in Seq(Sent) /\ Len(v) = 8
      /\ v[1] = "esc" /\ v[2] = "[" /\ v[3] = "200" /\ v[4] = "~"
      /\ v[5] = "a" /\ v[6] = "cr" /\ v[7] = "nl" /\ v[8] = "a"
  BY <1>2
<1>4. /\ Len(z) = 4 /\ z[1] = "esc" /\ z[2] = "[" /\ z[3] = "201" /\ z[4] = "~"
  OBVIOUS
<1> DEFINE w == v \o z
<1>5. PasteCode = w
  BY <1>1
<1> HIDE DEF v, z
<1>6. /\ Len(w) = Len(v) + Len(z)
      /\ \A i \in 1..Len(v) : w[i] = v[i]
      /\ \A i \in 1..Len(z) : w[Len(v) + i] = z[i]
  <2>1. v \in Seq(Sent) /\ z \in Seq(Sent)
    BY <1>2, <1>3 DEF z
  <2> QED
    BY <2>1, JoinIs
<1> HIDE DEF w
<1>7. w[8 + 1] = z[1] /\ w[8 + 2] = z[2] /\ w[8 + 3] = z[3] /\ w[8 + 4] = z[4]
  BY <1>3, <1>4, <1>6
<1>8. Len(w) = 12 /\ \A i \in 1..8 : w[i] = v[i]
  BY <1>3, <1>4, <1>6
<1> QED
  BY <1>3, <1>4, <1>5, <1>7, <1>8

LEMMA PressSends ==
  ASSUME Decodable(KeysOf), TInv, NEW k \in KeysOf[speaks],
         raw \/ k \in {"a", "enter"} \/ speaks = "pipe",
         speaks = "pipe" => ~raw
  PROVE  Sends(k, Bytes(k))
<1>1. speaks \in DOMAIN KeysOf /\ raw \in BOOLEAN
  BY DEF TInv, Reading
<1>2. CASE speaks = "pipe"
  <2>1. k \in {"a", "u", "enter", "crlf"}
    BY <1>1, <1>2 DEF Decodable
  <2> QED
    BY <1>2, <2>1 DEF Bytes, Sends
<1>3. CASE speaks \in {"kitty", "xterm"}
  <2>1. k \in {"a", "u", "enter", "backspace", "tab", "arrow", "escape", "paste", "shift+enter"}
    BY <1>1, <1>3 DEF Decodable
  <2>2. CASE k = "paste"
    BY <1>3, <2>2 DEF Bytes, Sends, PasteCode
  <2>3. CASE k = "shift+enter"
    BY <1>3, <2>3 DEF Bytes, Sends, Modified, Csi
  <2>4. CASE k = "escape"
    BY <1>3, <2>4 DEF Bytes, Sends, Csi
  <2>5. CASE k \in {"a", "u", "enter", "backspace", "tab", "arrow"}
    BY <1>3, <2>5 DEF Bytes, Sends
  <2> QED
    BY <2>1, <2>2, <2>3, <2>4, <2>5
<1>4. CASE speaks \notin {"pipe", "kitty", "xterm"}
  <2>1. k \in {"a", "u", "enter", "backspace", "tab", "arrow", "escape", "paste", "ctrl+c", "ctrl+d"}
    BY <1>1, <1>4 DEF Decodable
  <2>2. CASE k = "paste"
    BY <1>4, <2>2 DEF Bytes, Sends, PasteCode
  <2>3. CASE k \in {"ctrl+c", "ctrl+d"}
    BY <1>4, <2>3 DEF Bytes, Sends, Modified
  <2>4. CASE k \in {"a", "u", "enter", "backspace", "tab", "arrow", "escape"}
    BY <1>4, <2>4 DEF Bytes, Sends
  <2> QED
    BY <2>1, <2>2, <2>3, <2>4
<1> QED
  BY <1>2, <1>3, <1>4

\* A submission as keys make it: a rune is whole, and a pipe's lines are apart.
Text(s) ==
  /\ s \in Seq(Sent)
  /\ \A i \in 1..Len(s) : s[i] = "u2" => i > 1 /\ s[i - 1] = "u1"
  /\ speaks = "pipe" => \A i \in 1..Len(s) : s[i] \notin LineEnds

LEMMA TextNone == Text(<<>>)
BY DEF Text

LEMMA TextAdds ==
  ASSUME NEW s, Text(s), NEW b \in Sent \ {"u2"}, speaks = "pipe" => b \notin LineEnds
  PROVE  Text(Append(s, b))
<1> DEFINE w == Append(s, b)
           n == Len(s)
<1>1. /\ n \in Nat /\ w \in Seq(Sent) /\ Len(w) = n + 1 /\ w[n + 1] = b
      /\ \A i \in 1..n : w[i] = s[i]
  BY DEF Text
<1>2. \A i \in 1..n : s[i] = "u2" => i > 1 /\ s[i - 1] = "u1"
  BY DEF Text
<1>3. speaks = "pipe" => \A i \in 1..n : s[i] \notin LineEnds
  BY DEF Text
<1> HIDE DEF w, n
<1>4. ASSUME NEW i \in 1..(n + 1) PROVE i \in 1..n \/ i = n + 1
  BY <1>1
<1>5. \A i \in 1..(n + 1) : w[i] = "u2" => i > 1 /\ w[i - 1] = "u1"
  <2> SUFFICES ASSUME NEW i \in 1..(n + 1), w[i] = "u2" PROVE i > 1 /\ w[i - 1] = "u1"
    OBVIOUS
  <2>1. i \in 1..n
    BY <1>1, <1>4
  <2>2. i > 1 /\ s[i - 1] = "u1" /\ i - 1 \in 1..n
    BY <1>1, <1>2, <2>1
  <2> QED
    BY <1>1, <2>2
<1>6. speaks = "pipe" => \A i \in 1..(n + 1) : w[i] \notin LineEnds
  BY <1>1, <1>3, <1>4
<1> QED
  BY <1>1, <1>5, <1>6 DEF Text, w

\* The second byte of a rune comes behind the first.
LEMMA TextRune ==
  ASSUME NEW s, Text(s)
  PROVE  Text(Append(Append(s, "u1"), "u2"))
<1> DEFINE v == Append(s, "u1")
           w == Append(v, "u2")
           n == Len(s)
<1>1. "u1" \in Sent \ {"u2"} /\ "u1" \notin LineEnds /\ "u2" \in Sent /\ "u2" \notin LineEnds
  BY DEF Sent, LineEnds
<1>2. Text(v)
  BY <1>1, TextAdds
<1>3. n \in Nat /\ v \in Seq(Sent) /\ Len(v) = n + 1 /\ v[n + 1] = "u1"
  BY <1>2 DEF Text
<1> HIDE DEF v, n
<1>4. /\ w \in Seq(Sent) /\ Len(w) = n + 2 /\ w[n + 2] = "u2"
      /\ \A i \in 1..(n + 1) : w[i] = v[i]
  BY <1>1, <1>3
<1>5. \A i \in 1..(n + 1) : v[i] = "u2" => i > 1 /\ v[i - 1] = "u1"
  BY <1>2, <1>3 DEF Text
<1>6. speaks = "pipe" => \A i \in 1..(n + 1) : v[i] \notin LineEnds
  BY <1>2, <1>3 DEF Text
<1> HIDE DEF w
<1>7. ASSUME NEW i \in 1..(n + 2) PROVE i \in 1..(n + 1) \/ i = n + 2
  BY <1>3
<1>8. \A i \in 1..(n + 2) : w[i] = "u2" => i > 1 /\ w[i - 1] = "u1"
  <2> SUFFICES ASSUME NEW i \in 1..(n + 2), w[i] = "u2" PROVE i > 1 /\ w[i - 1] = "u1"
    OBVIOUS
  <2>1. CASE i \in 1..(n + 1)
    <3>1. i > 1 /\ v[i - 1] = "u1" /\ i - 1 \in 1..(n + 1)
      BY <1>3, <1>4, <1>5, <2>1
    <3> QED
      BY <1>4, <3>1
  <2>2. CASE i = n + 2
    <3>1. n + 1 \in 1..(n + 1) /\ i - 1 = n + 1 /\ i > 1
      BY <1>3, <2>2
    <3> QED
      BY <1>3, <1>4, <3>1
  <2> QED
    BY <1>7, <2>1, <2>2
<1>9. speaks = "pipe" => \A i \in 1..(n + 2) : w[i] \notin LineEnds
  BY <1>1, <1>4, <1>6, <1>7
<1> QED
  BY <1>4, <1>8, <1>9 DEF Text, v, w

LEMMA TextCut ==
  ASSUME NEW s, Text(s), NEW m \in 0..Len(s)
  PROVE  Text(SubSeq(s, 1, m))
<1> DEFINE n == Len(s)
           w == SubSeq(s, 1, m)
<1>1. /\ n \in Nat /\ m \in Nat /\ m <= n /\ s \in Seq(Sent)
      /\ \A i \in 1..n : s[i] = "u2" => i > 1 /\ s[i - 1] = "u1"
      /\ speaks = "pipe" => \A i \in 1..n : s[i] \notin LineEnds
  BY DEF Text
<1>2. w \in Seq(Sent) /\ Len(w) = m /\ \A i \in 1..m : w[i] = s[i]
  BY <1>1
<1> HIDE DEF w, n
<1>3. \A i \in 1..m : i \in 1..n
  BY <1>1
<1>4. ASSUME NEW i \in 1..m, w[i] = "u2" PROVE i > 1 /\ w[i - 1] = "u1"
  <2>1. i > 1 /\ s[i - 1] = "u1" /\ i - 1 \in 1..m
    BY <1>1, <1>2, <1>3, <1>4
  <2> QED
    BY <1>2, <2>1
<1>5. speaks = "pipe" => \A i \in 1..m : w[i] \notin LineEnds
  BY <1>1, <1>2, <1>3
<1> QED
  BY <1>2, <1>4, <1>5 DEF Text, w

\* What is a suffix, place by place.
LEMMA SuffixOf ==
  ASSUME NEW T, NEW s \in Seq(T), NEW t \in Seq(T)
  PROVE  IsSuffix(s, t) <=>
           /\ Len(s) <= Len(t)
           /\ \A i \in 1..Len(s) : s[i] = t[(Len(t) - Len(s)) + i]
<1> DEFINE n == Len(s)
           m == Len(t)
           rs == Reverse(s)
           rt == Reverse(t)
<1>1. n \in Nat /\ m \in Nat /\ (\A i \in 1..n : s[i] \in T) /\ \A i \in 1..m : t[i] \in T
  OBVIOUS
<1>2. rs = [i \in 1..n |-> s[(n - i) + 1]] /\ rt = [i \in 1..m |-> t[(m - i) + 1]]
  BY DEF Reverse
<1>3. IsSuffix(s, t) <=> Len(rs) <= Len(rt) /\ SubSeq(rs, 1, Len(rs)) = SubSeq(rt, 1, Len(rs))
  BY DEF IsSuffix, IsPrefix
<1> HIDE DEF rs, rt, n, m
<1>4. (\A i \in 1..n : (n - i) + 1 \in 1..n) /\ \A i \in 1..m : (m - i) + 1 \in 1..m
  BY <1>1
<1>5. rs \in Seq(T) /\ Len(rs) = n /\ rt \in Seq(T) /\ Len(rt) = m
  BY <1>1, <1>2, <1>4
<1>6. n <= m => (SubSeq(rs, 1, n) = SubSeq(rt, 1, n) <=> \A i \in 1..n : rs[i] = rt[i])
  <2> SUFFICES ASSUME n <= m PROVE SubSeq(rs, 1, n) = SubSeq(rt, 1, n) <=> \A i \in 1..n : rs[i] = rt[i]
    OBVIOUS
  <2> DEFINE x == SubSeq(rs, 1, n)
             y == SubSeq(rt, 1, n)
  <2>1. /\ x \in Seq(T) /\ Len(x) = n /\ \A i \in 1..n : x[i] = rs[i]
        /\ y \in Seq(T) /\ Len(y) = n /\ \A i \in 1..n : y[i] = rt[i]
    BY <1>1, <1>5
  <2> HIDE DEF x, y
  <2>2. x = y <=> \A i \in 1..n : x[i] = y[i]
    BY <2>1
  <2> QED
    BY <2>1, <2>2 DEF x, y
<1>7. n <= m =>
        ((\A i \in 1..n : rs[i] = rt[i]) <=> \A i \in 1..n : s[i] = t[(m - n) + i])
  <2> SUFFICES ASSUME n <= m
               PROVE  (\A i \in 1..n : rs[i] = rt[i]) <=> \A i \in 1..n : s[i] = t[(m - n) + i]
    OBVIOUS
  <2>1. \A i \in 1..n : i \in 1..m
    BY <1>1
  <2>2. \A i \in 1..n : rs[i] = s[(n - i) + 1] /\ rt[i] = t[(m - i) + 1]
    BY <1>2, <2>1
  <2>3. ASSUME \A i \in 1..n : rs[i] = rt[i], NEW i \in 1..n PROVE s[i] = t[(m - n) + i]
    <3> DEFINE j == (n - i) + 1
    <3>1. j \in 1..n /\ (n - j) + 1 = i /\ (m - j) + 1 = (m - n) + i
      <4>1. n \in Nat /\ m \in Nat /\ i \in Nat /\ 1 <= i /\ i <= n
        BY <1>1
      <4> QED
        BY <4>1
    <3> HIDE DEF j
    <3> QED
      BY <2>2, <2>3, <3>1
  <2>4. ASSUME \A i \in 1..n : s[i] = t[(m - n) + i], NEW i \in 1..n PROVE rs[i] = rt[i]
    <3> DEFINE j == (n - i) + 1
    <3>1. j \in 1..n /\ (m - n) + j = (m - i) + 1
      BY <1>1
    <3>2. s[j] = t[(m - n) + j]
      BY <2>4, <3>1
    <3> QED
      BY <2>2, <3>1, <3>2
  <2> QED
    BY <2>3, <2>4
<1> QED
  BY <1>1, <1>3, <1>5, <1>6, <1>7 DEF n, m

LEMMA RuneIs ==
  ASSUME NEW s, Text(s), s # <<>>
  PROVE  /\ LastRune(s) = IF Last(s) = "u2" THEN 2 ELSE 1
         /\ Len(s) - LastRune(s) \in 0..Len(s)
<1> DEFINE n == Len(s)
           r == <<"u1", "u2">>
<1>1. /\ s \in Seq(Sent) /\ r \in Seq(Sent) /\ n \in Nat /\ n # 0
      /\ \A i \in 1..n : s[i] = "u2" => i > 1 /\ s[i - 1] = "u1"
  <2>1. "u1" \in Sent /\ "u2" \in Sent
    BY DEF Sent
  <2> QED
    BY <2>1 DEF Text
<1>2. Len(r) = 2 /\ r[1] = "u1" /\ r[2] = "u2" /\ Last(s) = s[n]
  BY DEF Last
<1>3. IsSuffix(r, s) <=> Len(r) <= n /\ \A i \in 1..Len(r) : r[i] = s[(n - Len(r)) + i]
  BY <1>1, SuffixOf
<1>4. LastRune(s) = IF IsSuffix(r, s) THEN 2 ELSE 1
  BY DEF LastRune
<1> HIDE DEF r, n
<1>5. n \in 1..n /\ \A i \in 1..2 : i = 1 \/ i = 2
  BY <1>1
<1>6. IsSuffix(r, s) <=> n >= 2 /\ s[n] = "u2" /\ s[n - 1] = "u1"
  <2>1. n >= 2 => (n - 2) + 1 = n - 1 /\ (n - 2) + 2 = n
    BY <1>1
  <2>2. (\A i \in 1..2 : r[i] = s[(n - 2) + i]) <=> r[1] = s[(n - 2) + 1] /\ r[2] = s[(n - 2) + 2]
    BY <1>5
  <2> QED
    BY <1>1, <1>2, <1>3, <2>1, <2>2
<1>7. s[n] = "u2" => n >= 2 /\ s[n - 1] = "u1"
  BY <1>1, <1>5
<1> QED
  BY <1>1, <1>2, <1>4, <1>6, <1>7 DEF n

LEMMA TrimsTo ==
  ASSUME NEW T, NEW s \in Seq(T), NEW m \in 0..Len(s),
         \A i \in 1..Len(s) : s[i] \notin LineEnds <=> i <= m
  PROVE  Trimmed(s) = SubSeq(s, 1, m)
<1> DEFINE n == Len(s)
           I == {i \in 1..n : s[i] \notin LineEnds}
           x == IF I # {} THEN Max(I) ELSE 0
<1>1. Trimmed(s) = SubSeq(s, 1, x)
  BY DEF Trimmed, SelectLastInSeq
<1>2. n \in Nat /\ I = 1..m /\ m \in Nat /\ m <= n
  OBVIOUS
<1>3. x = m
  <2>1. CASE m = 0
    BY <1>2, <2>1
  <2>2. CASE m # 0
    <3> HIDE DEF I
    <3>1. m \in I /\ I # {} /\ I \in SUBSET (0..m)
      <4>1. 1..m \in SUBSET (0..m) /\ m \in 1..m
        BY <1>2, <2>2
      <4> QED
        BY <1>2, <4>1
    <3>2. Max(I) \in I /\ \A j \in I : j <= Max(I)
      BY <1>2, <3>1, Greatest
    <3> DEFINE y == Max(I)
    <3>3. x = y /\ y \in I /\ m <= y
      BY <3>1, <3>2
    <3> HIDE DEF y, x
    <3> QED
      BY <1>2, <3>3
  <2> QED
    BY <2>1, <2>2
<1> QED
  BY <1>1, <1>3

\* What a pipe's line is without its end.
LEMMA TrimmedIs ==
  ASSUME speaks = "pipe", NEW s, Text(s)
  PROVE  Trimmed(s) = s /\ Trimmed(Append(s, "cr")) = s
<1> DEFINE n == Len(s)
           w == Append(s, "cr")
<1>1. s \in Seq(Sent) /\ n \in Nat /\ n \in 0..n /\ \A i \in 1..n : s[i] \notin LineEnds
  BY DEF Text
<1>2. Trimmed(s) = s
  <2>1. SubSeq(s, 1, n) = s
    BY <1>1
  <2>2. \A i \in 1..n : s[i] \notin LineEnds <=> i <= n
    BY <1>1
  <2> QED
    BY <1>1, <2>1, <2>2, TrimsTo
<1>3. /\ w \in Seq(Sent) /\ Len(w) = n + 1 /\ w[n + 1] = "cr" /\ "cr" \in LineEnds
      /\ \A i \in 1..n : w[i] = s[i]
  <2>1. "cr" \in Sent
    BY DEF Sent
  <2> QED
    BY <1>1, <2>1 DEF LineEnds
<1>4. Trimmed(w) = SubSeq(w, 1, n)
  <2> HIDE DEF w, n
  <2>1. n \in 0..(n + 1)
    BY <1>1
  <2>2. \A i \in 1..(n + 1) : w[i] \notin LineEnds <=> i <= n
    <3>1. \A i \in 1..(n + 1) : i \in 1..n \/ i = n + 1
      BY <1>1
    <3> QED
      BY <1>1, <1>3, <3>1
  <2> QED
    BY <1>3, <2>1, <2>2, TrimsTo
<1>5. SubSeq(w, 1, n) = s
  <2> DEFINE v == SubSeq(w, 1, n)
  <2> HIDE DEF w
  <2>1. v \in Seq(Sent) /\ Len(v) = n /\ \A i \in 1..n : v[i] = w[i]
    BY <1>1, <1>3
  <2> HIDE DEF v
  <2>2. \A i \in 1..n : v[i] = s[i]
    BY <1>3, <2>1
  <2>3. v = s
    BY <1>1, <2>1, <2>2
  <2> QED
    BY <2>3 DEF v
<1> QED
  BY <1>2, <1>4, <1>5

LEMMA CutIs ==
  ASSUME NEW T, NEW s \in Seq(T), NEW b \in Nat, b <= Len(s), NEW a \in Nat, 1 <= a, a <= b + 1
  PROVE  /\ SubSeq(s, a, b) \in Seq(T) /\ Len(SubSeq(s, a, b)) = (b - a) + 1
         /\ \A i \in 1..((b - a) + 1) : SubSeq(s, a, b)[i] = s[(a - 1) + i]
<1>1. Len(s) \in Nat
  OBVIOUS
<1>2. SubSeq(s, a, b) \in Seq(T) /\ Len(SubSeq(s, a, b)) = (b - a) + 1
  BY <1>1
<1>3. ASSUME NEW i \in 1..((b - a) + 1) PROVE SubSeq(s, a, b)[i] = s[(a - 1) + i]
  BY <1>1, <1>3
<1> QED
  BY <1>2, <1>3

LEMMA PasteType == PasteCode \in Seq(Sent)
<1>1. "200" \in Sent /\ "201" \in Sent /\ "~" \in Sent /\ "a" \in Sent /\ "cr" \in Sent /\ "nl" \in Sent
  BY DEF Sent
<1>2. Csi("200", "~") \in Seq(Sent) /\ Csi("201", "~") \in Seq(Sent)
  BY <1>1, CsiType
<1>3. Pasted \in Seq(Sent)
  BY <1>1 DEF Pasted
<1> QED
  BY <1>2, <1>3 DEF PasteCode

\* A paste ends at the last byte of its code, and nowhere before.
LEMMA PasteEnds ==
  ASSUME NEW p \in 5..12
  PROVE  /\ SubSeq(PasteCode, 5, p) \in Seq(Sent) /\ Len(SubSeq(PasteCode, 5, p)) = p - 4
         /\ IsSuffix(PasteEnd, SubSeq(PasteCode, 5, p)) <=> p = 12
<1> DEFINE c == PasteCode
           s == SubSeq(c, 5, p)
           e == PasteEnd
<1>1. c \in Seq(Sent) /\ Len(c) = 12
  BY PasteType, PasteIs
<1>2. e \in Seq(Sent) /\ Len(e) = 4 /\ e[1] = "esc" /\ e[2] = "[" /\ e[3] = "201" /\ e[4] = "~"
  <2>1. "esc" \in Sent /\ "[" \in Sent /\ "201" \in Sent /\ "~" \in Sent
    BY DEF Sent
  <2> QED
    BY <2>1 DEF PasteEnd, Csi
<1> HIDE DEF e, c
<1>3. s \in Seq(Sent) /\ Len(s) = p - 4 /\ \A i \in 1..(p - 4) : s[i] = c[4 + i]
  <2>1. p \in Nat /\ p <= Len(c) /\ 5 \in Nat /\ 1 <= 5 /\ 5 <= p + 1
    BY <1>1
  <2>2. /\ s \in Seq(Sent) /\ Len(s) = (p - 5) + 1
        /\ \A i \in 1..((p - 5) + 1) : s[i] = c[(5 - 1) + i]
    BY <1>1, <2>1, CutIs
  <2>3. (p - 5) + 1 = p - 4 /\ 5 - 1 = 4
    OBVIOUS
  <2> QED
    BY <2>2, <2>3
<1> HIDE DEF s
<1>4. IsSuffix(e, s) <=> Len(e) <= Len(s) /\ \A i \in 1..Len(e) : e[i] = s[(Len(s) - Len(e)) + i]
  BY <1>2, <1>3, SuffixOf
<1>5. IsSuffix(e, s) <=> 4 <= p - 4 /\ \A i \in 1..4 : e[i] = s[((p - 4) - 4) + i]
  BY <1>2, <1>3, <1>4
<1>6. 4 <= p - 4 => \A i \in 1..4 : s[((p - 4) - 4) + i] = c[(p - 4) + i]
  <2> SUFFICES ASSUME 4 <= p - 4, NEW i \in 1..4 PROVE s[((p - 4) - 4) + i] = c[(p - 4) + i]
    OBVIOUS
  <2>1. ((p - 4) - 4) + i \in 1..(p - 4) /\ 4 + (((p - 4) - 4) + i) = (p - 4) + i
    OBVIOUS
  <2> QED
    BY <1>3, <2>1
<1>7. IsSuffix(e, s) <=> 4 <= p - 4 /\ \A i \in 1..4 : e[i] = c[(p - 4) + i]
  BY <1>5, <1>6
<1>8. CASE p = 12
  <2>1. c[8 + 1] = "esc" /\ c[8 + 2] = "[" /\ c[8 + 3] = "201" /\ c[8 + 4] = "~"
    BY PasteIs DEF c
  <2>2. \A i \in 1..4 : i = 1 \/ i = 2 \/ i = 3 \/ i = 4
    OBVIOUS
  <2>3. \A i \in 1..4 : e[i] = c[8 + i]
    BY <1>2, <2>1, <2>2
  <2>4. p - 4 = 8
    BY <1>8
  <2> QED
    BY <1>3, <1>7, <1>8, <2>3, <2>4 DEF s, c, e
<1>9. CASE p # 12
  <2>1. p \in {5, 6, 7, 8, 9, 10, 11}
    BY <1>9
  <2>2. c[p] # "~"
    BY <2>1, PasteIs DEF c
  <2>3. 4 \in 1..4 /\ (p - 4) + 4 = p
    OBVIOUS
  <2>4. ~ IsSuffix(e, s)
    BY <1>2, <1>7, <2>2, <2>3
  <2> QED
    BY <1>3, <1>9, <2>4 DEF s, c, e
<1> QED
  BY <1>8, <1>9

LEMMA PasteHas ==
  /\ Len(PasteEnd) = 4
  /\ Normalised(SubSeq(SubSeq(PasteCode, 5, 12), 1, 4)) = <<"a", "nl", "a">>
<1> DEFINE c == PasteCode
           s == SubSeq(c, 5, 12)
           t == SubSeq(s, 1, 4)
           piece(i) == IF t[i] # "cr" THEN <<t[i]>>
                       ELSE IF i < Len(t) /\ t[i + 1] = "nl" THEN <<>> ELSE <<"nl">>
           F == [i \in DOMAIN t |-> piece(i)]
<1>1. Len(PasteEnd) = 4
  BY DEF PasteEnd, Csi
<1>2. c \in Seq(Sent) /\ Len(c) = 12 /\ c[5] = "a" /\ c[6] = "cr" /\ c[7] = "nl" /\ c[8] = "a"
  BY PasteType, PasteIs
<1> HIDE DEF c
<1>3. s \in Seq(Sent) /\ Len(s) = 8 /\ \A i \in 1..8 : s[i] = c[4 + i]
  <2>1. 12 \in Nat /\ 12 <= Len(c) /\ 5 \in Nat /\ 1 <= 5 /\ 5 <= 12 + 1
    BY <1>2
  <2>2. /\ s \in Seq(Sent) /\ Len(s) = (12 - 5) + 1
        /\ \A i \in 1..((12 - 5) + 1) : s[i] = c[(5 - 1) + i]
    BY <1>2, <2>1, CutIs
  <2>3. (12 - 5) + 1 = 8 /\ 5 - 1 = 4
    OBVIOUS
  <2> QED
    BY <2>2, <2>3
<1> HIDE DEF s
<1>4. t \in Seq(Sent) /\ Len(t) = 4 /\ \A i \in 1..4 : t[i] = s[i]
  <2>1. 4 \in Nat /\ 4 <= Len(s) /\ 1 \in Nat /\ 1 <= 1 /\ 1 <= 4 + 1
    BY <1>3
  <2>2. /\ t \in Seq(Sent) /\ Len(t) = (4 - 1) + 1
        /\ \A i \in 1..((4 - 1) + 1) : t[i] = s[(1 - 1) + i]
    BY <1>3, <2>1, CutIs
  <2>3. (4 - 1) + 1 = 4 /\ \A i \in 1..4 : (1 - 1) + i = i
    OBVIOUS
  <2> QED
    BY <2>2, <2>3
<1> HIDE DEF t
<1>5. t[1] = "a" /\ t[2] = "cr" /\ t[3] = "nl" /\ t[4] = "a"
  <2>1. t[1] = c[4 + 1] /\ t[2] = c[4 + 2] /\ t[3] = c[4 + 3] /\ t[4] = c[4 + 4]
    BY <1>3, <1>4
  <2> QED
    BY <1>2, <2>1
<1>6. F[1] = <<"a">> /\ F[2] = <<>> /\ F[3] = <<"nl">> /\ F[4] = <<"a">> /\ Len(F) = 4
  <2>1. DOMAIN t = 1..4 /\ DOMAIN F = 1..4
    BY <1>4
  <2>2. F[1] = piece(1) /\ F[2] = piece(2) /\ F[3] = piece(3) /\ F[4] = piece(4)
    BY <2>1
  <2>3. piece(1) = <<"a">> /\ piece(3) = <<"nl">> /\ piece(4) = <<"a">>
    BY <1>5
  <2>4. piece(2) = <<>>
    BY <1>4, <1>5
  <2>5. Len(F) = 4
    BY <2>1
  <2> QED
    BY <2>2, <2>3, <2>4, <2>5
<1>7. Normalised(t) = FlattenSeq(F)
  BY DEF Normalised
<1> HIDE DEF F
<1> DEFINE K == CHOOSE joined : IsJoined(joined, F, 4)
<1>8. FlattenSeq(F) = K[4]
  BY <1>6 DEF FlattenSeq, IsJoined, NextJoined
<1>9. IsJoined(K, F, 4)
  BY JoinedExists
<1> HIDE DEF K
<1>10. \A n \in 1..4 : K[n] = NextJoined(F, n, K[n - 1])
  BY <1>9 DEF IsJoined
<1>11. K[1] = <<"a">>
  BY <1>6, <1>10 DEF NextJoined
<1>12. K[2] = K[1] \o F[2] /\ K[3] = K[2] \o F[3] /\ K[4] = K[3] \o F[4]
  <2>1. /\ K[2] = NextJoined(F, 2, K[2 - 1]) /\ K[3] = NextJoined(F, 3, K[3 - 1])
        /\ K[4] = NextJoined(F, 4, K[4 - 1])
    BY <1>10
  <2>2. 2 - 1 = 1 /\ 3 - 1 = 2 /\ 4 - 1 = 3
    OBVIOUS
  <2>3. K[2 - 1] = K[1] /\ K[3 - 1] = K[2] /\ K[4 - 1] = K[3]
    BY <2>2
  <2>4. /\ NextJoined(F, 2, K[2 - 1]) = K[2 - 1] \o F[2]
        /\ NextJoined(F, 3, K[3 - 1]) = K[3 - 1] \o F[3]
        /\ NextJoined(F, 4, K[4 - 1]) = K[4 - 1] \o F[4]
    BY DEF NextJoined
  <2> QED
    BY <2>1, <2>3, <2>4
<1>13. K[2] = <<"a">>
  BY <1>6, <1>11, <1>12
<1>14. K[3] = <<"a">> \o <<"nl">> /\ K[4] = K[3] \o <<"a">>
  BY <1>6, <1>12, <1>13
<1>15. K[4] = <<"a", "nl", "a">>
  <2> DEFINE C == {"a", "nl"}
             z == <<"a", "nl", "a">>
  <2>1. K[3] \in Seq(C) /\ Len(K[3]) = 2 /\ K[3][1] = "a" /\ K[3][2] = "nl"
    BY <1>14
  <2>2. K[4] \in Seq(C) /\ Len(K[4]) = 3 /\ K[4][1] = "a" /\ K[4][2] = "nl" /\ K[4][3] = "a"
    BY <1>14, <2>1
  <2>3. z \in Seq(C) /\ Len(z) = 3 /\ z[1] = "a" /\ z[2] = "nl" /\ z[3] = "a"
    OBVIOUS
  <2>4. \A i \in 1..3 : i = 1 \/ i = 2 \/ i = 3
    OBVIOUS
  <2> HIDE DEF z, C
  <2>5. \A i \in 1..3 : K[4][i] = z[i]
    BY <2>2, <2>3, <2>4
  <2>6. K[4] = z
    BY <2>2, <2>3, <2>5
  <2> QED
    BY <2>6 DEF z
<1> QED
  BY <1>1, <1>7, <1>8, <1>15 DEF t, s, c

LEMMA AppendIs ==
  ASSUME NEW T, NEW s \in Seq(T), NEW x \in T, NEW y \in T, NEW z \in T
  PROVE  /\ s \o <<x>> = Append(s, x)
         /\ s \o <<x, y>> = Append(Append(s, x), y)
         /\ s \o <<x, y, z>> = Append(Append(Append(s, x), y), z)
OBVIOUS

Is(m, done, now) == m.done = done /\ m.now = now

LEMMA AfterIs ==
  ASSUME NEW m, NEW k, Text(m.now)
  PROVE  LET x == After(m, k) IN
         /\ k \in {"enter", "crlf"} => Is(x, Append(m.done, <<m.now, "none">>), <<>>)
         /\ k = "ctrl+c" => Is(x, Append(m.done, <<<<>>, "interrupted">>), <<>>)
         /\ k = "ctrl+d" => IF m.now = <<>> THEN Is(x, Append(m.done, <<<<>>, "EOF">>), <<>>)
                            ELSE x = m
         /\ k = "a" => Is(x, m.done, Append(m.now, "a"))
         /\ k = "u" => Is(x, m.done, Append(Append(m.now, "u1"), "u2"))
         /\ k = "shift+enter" => Is(x, m.done, Append(m.now, "nl"))
         /\ k = "paste" => Is(x, m.done, m.now \o <<"a", "nl", "a">>)
         /\ k = "backspace" => IF Len(m.now) > AfterLastNewline(m.now)
                               THEN Is(x, m.done, SubSeq(m.now, 1, Len(m.now) - LastRune(m.now)))
                               ELSE x = m
         /\ k \in {"tab", "arrow", "escape"} => x = m
<1> DEFINE x == After(m, k)
<1>1. m.now \in Seq(Sent) /\ "a" \in Sent /\ "u1" \in Sent /\ "u2" \in Sent
  BY DEF Text, Sent
<1>2. m.now \o <<"a">> = Append(m.now, "a") /\ m.now \o <<"u1", "u2">> = Append(Append(m.now, "u1"), "u2")
  BY <1>1, AppendIs
<1>3. k \in {"enter", "crlf"} => Is(x, Append(m.done, <<m.now, "none">>), <<>>)
  BY DEF After, Is
<1>4. k = "ctrl+c" => Is(x, Append(m.done, <<<<>>, "interrupted">>), <<>>)
  BY DEF After, Is
<1>5. k = "ctrl+d" => IF m.now = <<>> THEN Is(x, Append(m.done, <<<<>>, "EOF">>), <<>>)
                      ELSE x = m
  BY DEF After, Is
<1>6. k = "a" => Is(x, m.done, Append(m.now, "a"))
  BY <1>2 DEF After, Is
<1>7. k = "u" => Is(x, m.done, Append(Append(m.now, "u1"), "u2"))
  BY <1>2 DEF After, Is
<1>8. k = "shift+enter" => Is(x, m.done, Append(m.now, "nl"))
  BY DEF After, Is
<1>9. k = "paste" => Is(x, m.done, m.now \o <<"a", "nl", "a">>)
  BY DEF After, Is
<1>10. k = "backspace" => IF Len(m.now) > AfterLastNewline(m.now)
                          THEN Is(x, m.done, SubSeq(m.now, 1, Len(m.now) - LastRune(m.now)))
                          ELSE x = m
  <2> SUFFICES ASSUME k = "backspace"
               PROVE  IF Len(m.now) > AfterLastNewline(m.now)
                      THEN Is(x, m.done, SubSeq(m.now, 1, Len(m.now) - LastRune(m.now)))
                      ELSE x = m
    OBVIOUS
  <2>1. AfterLastNewline(m.now) = SelectLastInSeq(m.now, LAMBDA b : b = "nl")
    BY DEF AfterLastNewline
  <2>2. CASE Len(m.now) > AfterLastNewline(m.now)
    <3>1. m.now # <<>>
      <4>1. AfterLastNewline(m.now) \in Nat
        BY <1>1, LastNat
      <4> QED
        BY <2>2, <4>1
    <3>2. LastRune(m.now) = IF Last(m.now) = "u2" THEN 2 ELSE 1
      BY <3>1, RuneIs
    <3> QED
      BY <2>1, <2>2, <3>2 DEF After, Is
  <2>3. CASE ~(Len(m.now) > AfterLastNewline(m.now))
    BY <2>1, <2>3 DEF After
  <2> QED
    BY <2>2, <2>3
<1>11. k \in {"tab", "arrow", "escape"} => x = m
  BY DEF After
<1> QED
  BY <1>3, <1>4, <1>5, <1>6, <1>7, <1>8, <1>9, <1>10, <1>11

LEMMA AfterText ==
  ASSUME NEW m, NEW k, NEW c, Sends(k, c), Text(m.now)
  PROVE  Text(After(m, k).now)
<1> DEFINE x == After(m, k)
<1>1. /\ {"a", "u1", "nl"} \subseteq Sent \ {"u2"} /\ "a" \notin LineEnds
      /\ m.now \in Seq(Sent)
  BY DEF Sent, LineEnds, Text
<1>2. CASE k \in {"enter", "crlf", "ctrl+c"}
  <2>1. x.now = <<>>
    BY <1>2, AfterIs DEF Is
  <2> QED
    BY <2>1, TextNone
<1>3. CASE k = "ctrl+d"
  <2>1. x.now = <<>> \/ x = m
    BY <1>3, AfterIs DEF Is
  <2> QED
    BY <2>1, TextNone
<1>4. CASE k = "a"
  <2>1. x.now = Append(m.now, "a")
    BY <1>4, AfterIs DEF Is
  <2> QED
    BY <1>1, <2>1, TextAdds
<1>5. CASE k = "u"
  <2>1. x.now = Append(Append(m.now, "u1"), "u2")
    BY <1>5, AfterIs DEF Is
  <2> QED
    BY <2>1, TextRune
<1>6. CASE k = "shift+enter"
  <2>1. x.now = Append(m.now, "nl")
    BY <1>6, AfterIs DEF Is
  <2>2. speaks # "pipe"
    BY <1>6 DEF Sends
  <2> QED
    BY <1>1, <2>1, <2>2, TextAdds
<1>7. CASE k = "paste"
  <2>1. x.now = m.now \o <<"a", "nl", "a">>
    BY <1>7, AfterIs DEF Is
  <2>2. speaks # "pipe"
    BY <1>7 DEF Sends
  <2>3. m.now \o <<"a", "nl", "a">> = Append(Append(Append(m.now, "a"), "nl"), "a")
    <3>1. "a" \in Sent /\ "nl" \in Sent
      BY <1>1
    <3> QED
      BY <1>1, <3>1, AppendIs
  <2>4. "a" \in Sent \ {"u2"} /\ "nl" \in Sent \ {"u2"}
    BY <1>1
  <2>5. Text(Append(m.now, "a"))
    BY <2>2, <2>4, TextAdds
  <2>6. Text(Append(Append(m.now, "a"), "nl"))
    BY <2>2, <2>4, <2>5, TextAdds
  <2>7. Text(Append(Append(Append(m.now, "a"), "nl"), "a"))
    BY <2>2, <2>4, <2>6, TextAdds
  <2> QED
    BY <2>1, <2>3, <2>7
<1>8. CASE k = "backspace"
  <2>1. x = m \/ (Len(m.now) > AfterLastNewline(m.now)
                  /\ x.now = SubSeq(m.now, 1, Len(m.now) - LastRune(m.now)))
    BY <1>8, AfterIs DEF Is
  <2>2. ASSUME Len(m.now) > AfterLastNewline(m.now) PROVE Len(m.now) - LastRune(m.now) \in 0..Len(m.now)
    <3>1. AfterLastNewline(m.now) \in Nat
      BY <1>1, LastNat
    <3>2. m.now # <<>>
      BY <2>2, <3>1
    <3> QED
      BY <3>2, RuneIs
  <2> QED
    BY <2>1, <2>2, TextCut
<1>9. CASE k \in {"tab", "arrow", "escape"}
  BY <1>9, AfterIs
<1> QED
  BY <1>2, <1>3, <1>4, <1>5, <1>6, <1>7, <1>8, <1>9 DEF Sends

--------------------------------------------------------------------------------
(* Where ReadLine stands, by how much it has read of a key whose bytes are *)
(* c: m is what the keys before it mean.                                   *)

Between(m) ==
  /\ results = m.done /\ reader \in {"idle", "reading", "plain"}
  /\ IF reader = "idle" THEN m.now = <<>> ELSE buf = m.now

InSequence(c, p) ==
  \/ p = 1 /\ reader = "escape"
  \/ p = 2 /\ reader = "csi" /\ pending = <<>>
  \/ p = 3 /\ reader = "csi" /\ pending = <<c[3]>>
  \/ p = 4 /\ reader = "paste" /\ pending = <<>>
  \/ p >= 5 /\ reader = "paste" /\ pending = SubSeq(c, 5, p)

Within(m, c, p) ==
  /\ results = m.done
  /\ IF speaks = "pipe" THEN reader = "plain" /\ buf = Append(m.now, c[1])
     ELSE IF c[1] = "u1" THEN reader = "reading" /\ buf = Append(m.now, "u1")
     ELSE buf = m.now /\ InSequence(c, p)

Place(m, c, p) == IF p = 0 THEN Between(m) ELSE Within(m, c, p)

\* Behind byte p + 1 of a key's c.
Moved(m, k, c, p) == IF p + 1 < Len(c) THEN Within(m, c, p + 1) ELSE Between(After(m, k))

\* A pipe is read by readLinePlain, a terminal never.
PipePlain ==
  IF speaks = "pipe" THEN reader \in {"idle", "plain"} ELSE reader # "plain"

LEMMA PipeByte ==
  ASSUME speaks = "pipe", PlainByte, NEW m, Text(m.now), NEW k, NEW c, Sends(k, c),
         NEW p \in Nat, p < Len(c), Place(m, c, p), Byte = c[p + 1]
  PROVE  Moved(m, k, c, p)'
<1>1. reader = "plain" /\ speaks' = speaks /\ results = m.done
  BY DEF PlainByte, inputVars, Place, Between, Within
<1>2. p = 0 => buf = m.now
  BY <1>1 DEF Place, Between
<1>3. Byte = "nl" => results' = Append(m.done, <<Trimmed(buf), "none">>) /\ reader' = "idle"
  BY <1>1 DEF PlainByte, Return
<1>4. Byte # "nl" => buf' = Append(buf, Byte) /\ reader' = "plain" /\ results' = m.done
  BY <1>1 DEF PlainByte
<1> DEFINE x == After(m, k)
<1>5. CASE k = "a"
  <2>1. c = <<"a">>
    BY <1>5 DEF Sends
  <2>2. Len(c) = 1 /\ c[1] = "a"
    BY <2>1
  <2>3. p = 0 /\ Byte = "a"
    BY <2>2
  <2>4. Is(x, m.done, Append(m.now, "a"))
    BY <1>5, AfterIs
  <2>5. Between(x)'
    BY <1>2, <1>4, <2>3, <2>4 DEF Between, Is
  <2> QED
    BY <2>2, <2>3, <2>5 DEF Moved
<1>6. CASE k = "enter"
  <2>1. c = <<"nl">>
    BY <1>6 DEF Sends
  <2>2. Len(c) = 1 /\ c[1] = "nl"
    BY <2>1
  <2>3. p = 0 /\ Byte = "nl"
    BY <2>2
  <2>4. Is(x, Append(m.done, <<m.now, "none">>), <<>>)
    BY <1>6, AfterIs
  <2>5. Trimmed(buf) = m.now
    BY <1>2, <2>3, TrimmedIs
  <2>6. Between(x)'
    BY <1>3, <2>3, <2>4, <2>5 DEF Between, Is
  <2> QED
    BY <2>2, <2>3, <2>6 DEF Moved
<1>7. CASE k = "u"
  <2>1. c = <<"u1", "u2">>
    BY <1>7 DEF Sends
  <2>2. Len(c) = 2 /\ c[1] = "u1" /\ c[2] = "u2"
    BY <2>1
  <2>3. CASE p = 0
    <3>1. Byte = "u1"
      BY <2>2, <2>3
    <3>2. Within(m, c, 1)'
      BY <1>1, <1>2, <1>4, <2>2, <2>3, <3>1 DEF Within
    <3> QED
      BY <2>2, <2>3, <3>2 DEF Moved
  <2>4. CASE p = 1
    <3>1. Byte = "u2" /\ buf = Append(m.now, "u1")
      BY <1>1, <2>2, <2>4 DEF Place, Within
    <3>2. Is(x, m.done, Append(Append(m.now, "u1"), "u2"))
      BY <1>7, AfterIs
    <3>3. Between(x)'
      BY <1>4, <3>1, <3>2 DEF Between, Is
    <3> QED
      BY <2>2, <2>4, <3>3 DEF Moved
  <2> QED
    BY <2>2, <2>3, <2>4
<1>8. CASE k = "crlf"
  <2>1. c = <<"cr", "nl">>
    BY <1>8 DEF Sends
  <2>2. Len(c) = 2 /\ c[1] = "cr" /\ c[2] = "nl"
    BY <2>1
  <2>3. CASE p = 0
    <3>1. Byte = "cr"
      BY <2>2, <2>3
    <3>2. Within(m, c, 1)'
      BY <1>1, <1>2, <1>4, <2>2, <2>3, <3>1 DEF Within
    <3> QED
      BY <2>2, <2>3, <3>2 DEF Moved
  <2>4. CASE p = 1
    <3>1. Byte = "nl" /\ buf = Append(m.now, "cr")
      BY <1>1, <2>2, <2>4 DEF Place, Within
    <3>2. Is(x, Append(m.done, <<m.now, "none">>), <<>>)
      BY <1>8, AfterIs
    <3>3. Trimmed(buf) = m.now
      BY <3>1, TrimmedIs
    <3>4. Between(x)'
      BY <1>3, <3>1, <3>2, <3>3 DEF Between, Is
    <3> QED
      BY <2>2, <2>4, <3>4 DEF Moved
  <2> QED
    BY <2>2, <2>3, <2>4
<1> QED
  BY <1>5, <1>6, <1>7, <1>8 DEF Sends

\* The bytes of a sequence, one by one.
Sequence(k, c) ==
  /\ c[1] = "esc" /\ c[2] = "["
  /\ \/ k = "arrow" /\ Len(c) = 3 /\ c[3] = "A"
     \/ k = "escape" /\ Len(c) = 4 /\ c[3] = "27" /\ c[4] = "u"
     \/ k = "shift+enter" /\ Len(c) = 4 /\ c[3] = "13_2" /\ c[4] = "u"
     \/ k = "shift+enter" /\ Len(c) = 4 /\ c[3] = "27_2_13" /\ c[4] = "~"
     \/ k = "paste" /\ Len(c) = 12 /\ c[3] = "200" /\ c[4] = "~"

Alone(k, c) ==
  /\ Len(c) \in {1, 2} /\ c[1] # "esc"
  /\ c[1] = "ESC" <=> k = "escape"
  /\ c[1] = "u1" => k = "u"
  /\ Len(c) = 2 => k \in {"u", "crlf"}
  /\ k \notin {"arrow", "shift+enter", "paste"}

LEMMA CodeIs ==
  ASSUME NEW k, NEW c, Sends(k, c)
  PROVE  Sequence(k, c) \/ Alone(k, c)
<1>1. CASE k = "u" \/ k = "crlf"
  <2>1. (k = "u" /\ c = <<"u1", "u2">>) \/ (k = "crlf" /\ c = <<"cr", "nl">>)
    BY <1>1 DEF Sends
  <2>2. Len(c) = 2 /\ c[1] \notin {"esc", "ESC"} /\ (k = "crlf" => c[1] # "u1")
    BY <2>1
  <2> QED
    BY <1>1, <2>2 DEF Alone
<1>2. CASE k \in {"a", "enter", "backspace", "tab", "ctrl+c", "ctrl+d"}
  <2>1. c \in {<<"a">>, <<"nl">>, <<"cr">>, <<"del">>, <<"tab">>, <<"etx">>, <<"eot">>}
    BY <1>2 DEF Sends
  <2>2. Len(c) = 1 /\ c[1] \notin {"esc", "ESC", "u1"}
    BY <2>1
  <2> QED
    BY <1>2, <2>2 DEF Alone
<1>3. CASE k = "escape"
  <2>1. c = <<"ESC">> \/ c = <<"esc", "[", "27", "u">>
    BY <1>3 DEF Sends
  <2>2. CASE c = <<"ESC">>
    <3>1. Len(c) = 1 /\ c[1] = "ESC"
      BY <2>2
    <3> QED
      BY <1>3, <3>1 DEF Alone
  <2>3. CASE c = <<"esc", "[", "27", "u">>
    <3>1. Len(c) = 4 /\ c[1] = "esc" /\ c[2] = "[" /\ c[3] = "27" /\ c[4] = "u"
      BY <2>3
    <3> QED
      BY <1>3, <3>1 DEF Sequence
  <2> QED
    BY <2>1, <2>2, <2>3
<1>4. CASE k = "arrow"
  <2>1. c = <<"esc", "[", "A">>
    BY <1>4 DEF Sends
  <2>2. Len(c) = 3 /\ c[1] = "esc" /\ c[2] = "[" /\ c[3] = "A"
    BY <2>1
  <2> QED
    BY <1>4, <2>2 DEF Sequence
<1>5. CASE k = "shift+enter"
  <2>1. c = <<"esc", "[", "13_2", "u">> \/ c = <<"esc", "[", "27_2_13", "~">>
    BY <1>5 DEF Sends
  <2>2. CASE c = <<"esc", "[", "13_2", "u">>
    <3>1. Len(c) = 4 /\ c[1] = "esc" /\ c[2] = "[" /\ c[3] = "13_2" /\ c[4] = "u"
      BY <2>2
    <3> QED
      BY <1>5, <3>1 DEF Sequence
  <2>3. CASE c = <<"esc", "[", "27_2_13", "~">>
    <3>1. Len(c) = 4 /\ c[1] = "esc" /\ c[2] = "[" /\ c[3] = "27_2_13" /\ c[4] = "~"
      BY <2>3
    <3> QED
      BY <1>5, <3>1 DEF Sequence
  <2> QED
    BY <2>1, <2>2, <2>3
<1>6. CASE k = "paste"
  <2>1. c = PasteCode
    BY <1>6 DEF Sends
  <2>2. Len(c) = 12 /\ c[1] = "esc" /\ c[2] = "[" /\ c[3] = "200" /\ c[4] = "~"
    BY <2>1, PasteIs
  <2> QED
    BY <1>6, <2>1, <2>2 DEF Sequence
<1> QED
  BY <1>1, <1>2, <1>3, <1>4, <1>5, <1>6 DEF Sends

LEMMA CodeType ==
  ASSUME NEW k, NEW c, Sends(k, c)
  PROVE  c \in Seq(Sent) /\ Len(c) \in 1..12
<1>1. {"a", "u1", "u2", "nl", "cr", "del", "tab", "etx", "eot", "ESC", "esc", "[", "27", "u", "A",
        "13_2", "27_2_13", "~"} \subseteq Sent
  BY DEF Sent
<1>2. CASE c = PasteCode
  BY <1>2, PasteIs, PasteType
<1>3. ASSUME NEW x \in Sent PROVE <<x>> \in Seq(Sent) /\ Len(<<x>>) = 1
  OBVIOUS
<1>4. ASSUME NEW x \in Sent, NEW y \in Sent PROVE <<x, y>> \in Seq(Sent) /\ Len(<<x, y>>) = 2
  OBVIOUS
<1>5. ASSUME NEW x \in Sent, NEW y \in Sent, NEW z \in Sent
      PROVE  <<x, y, z>> \in Seq(Sent) /\ Len(<<x, y, z>>) = 3
  OBVIOUS
<1>6. ASSUME NEW w \in Sent, NEW x \in Sent, NEW y \in Sent, NEW z \in Sent
      PROVE  <<w, x, y, z>> \in Seq(Sent) /\ Len(<<w, x, y, z>>) = 4
  OBVIOUS
<1>7. CASE \E x \in Sent : c = <<x>>
  BY <1>3, <1>7
<1>8. CASE \E x, y \in Sent : c = <<x, y>>
  BY <1>4, <1>8
<1>9. CASE \E x, y, z \in Sent : c = <<x, y, z>>
  BY <1>5, <1>9
<1>10. CASE \E w, x, y, z \in Sent : c = <<w, x, y, z>>
  BY <1>6, <1>10
<1>11. \/ c \in {<<"a">>, <<"nl">>, <<"cr">>, <<"del">>, <<"tab">>, <<"etx">>, <<"eot">>, <<"ESC">>}
       \/ c \in {<<"u1", "u2">>, <<"cr", "nl">>, <<"esc", "[", "A">>}
       \/ c \in {<<"esc", "[", "27", "u">>, <<"esc", "[", "13_2", "u">>, <<"esc", "[", "27_2_13", "~">>}
       \/ c = PasteCode
  BY DEF Sends
<1>12. c \in {<<"a">>, <<"nl">>, <<"cr">>, <<"del">>, <<"tab">>, <<"etx">>, <<"eot">>, <<"ESC">>}
         => \E x \in Sent : c = <<x>>
  BY <1>1
<1>13. c = <<"u1", "u2">> \/ c = <<"cr", "nl">> => \E x, y \in Sent : c = <<x, y>>
  BY <1>1
<1>14. c = <<"esc", "[", "A">> => \E x, y, z \in Sent : c = <<x, y, z>>
  BY <1>1
<1>15. c \in {<<"esc", "[", "27", "u">>, <<"esc", "[", "13_2", "u">>, <<"esc", "[", "27_2_13", "~">>}
         => \E w, x, y, z \in Sent : c = <<w, x, y, z>>
  BY <1>1
<1> QED
  BY <1>2, <1>7, <1>8, <1>9, <1>10, <1>11, <1>12, <1>13, <1>14, <1>15

\* A key of one byte, and a rune of two.
LEMMA KeyByte ==
  ASSUME speaks # "pipe", reader = "reading", TInv, Control \/ Edit, NEW m, Text(m.now),
         NEW k, NEW c, Sends(k, c), NEW p \in Nat, p < Len(c), Place(m, c, p), Byte = c[p + 1]
  PROVE  Moved(m, k, c, p)'
<1> DEFINE x == After(m, k)
<1>1. /\ speaks' = speaks /\ results = m.done
      /\ Byte \notin {"esc", "ESC"}
  BY DEF Control, Edit, inputVars, Place, Between, Within, Controls, LineEnds
<1>2. p = 0 => buf = m.now
  BY DEF Place, Between
<1>3. p # 0 => c[1] = "u1" /\ buf = Append(m.now, "u1")
  BY DEF Place, Within, InSequence
<1>4. Byte \in LineEnds => results' = Append(m.done, <<buf, "none">>) /\ reader' = "idle"
  BY <1>1 DEF Control, Edit, Return, Controls, LineEnds
<1>5. Byte = "etx" => results' = Append(m.done, <<<<>>, "interrupted">>) /\ reader' = "idle"
  BY <1>1 DEF Control, Edit, Return, Controls, LineEnds
<1>6. Byte = "eot" /\ buf = <<>> => results' = Append(m.done, <<<<>>, "EOF">>) /\ reader' = "idle"
  BY <1>1 DEF Control, Edit, Return, Controls, LineEnds
<1>7. Byte = "eot" /\ buf # <<>> => results' = m.done /\ reader' = "reading" /\ buf' = buf
  BY <1>1 DEF Control, Edit, lineVars, Controls, LineEnds
<1>8. Byte = "del" =>
        /\ results' = m.done /\ reader' = "reading"
        /\ buf' = IF Len(buf) > AfterLastNewline(buf) THEN SubSeq(buf, 1, Len(buf) - LastRune(buf))
                  ELSE buf
  <2> SUFFICES ASSUME Byte = "del"
               PROVE  /\ results' = m.done /\ reader' = "reading"
                      /\ buf' = IF Len(buf) > AfterLastNewline(buf)
                                THEN SubSeq(buf, 1, Len(buf) - LastRune(buf)) ELSE buf
    OBVIOUS
  <2>1. Edit
    BY DEF Control, LineEnds
  <2>2. results' = m.done /\ reader' = "reading"
    BY <1>1, <2>1 DEF Edit
  <2>3. lineStart = AfterLastNewline(buf) /\ lineStart \in Nat /\ Len(buf) \in Nat
    <3>1. buf \in Seq(Sent) /\ IsLast(lineStart, buf)
      BY DEF TInv, Reading, LineBegins
    <3>2. lineStart \in Nat /\ Len(buf) \in Nat
      BY <3>1 DEF IsLast
    <3> QED
      BY <3>1, <3>2, LastIs
  <2>4. \/ Len(buf) > lineStart /\ buf' = SubSeq(buf, 1, Len(buf) - LastRune(buf))
        \/ Len(buf) <= lineStart /\ buf' = buf
    BY <2>1 DEF Edit, Controls
  <2> QED
    BY <2>2, <2>3, <2>4
<1>9. Byte \notin Controls => results' = m.done /\ reader' = "reading" /\ buf' = Append(buf, Byte)
  BY <1>1 DEF Control, Edit, Controls, LineEnds
<1>10. Byte = "tab" => results' = m.done /\ reader' = "reading" /\ buf' = buf
  BY <1>1 DEF Control, Edit, Controls, LineEnds
<1>11. CASE k = "u"
  <2>1. c = <<"u1", "u2">>
    BY <1>11 DEF Sends
  <2>2. Len(c) = 2 /\ c[1] = "u1" /\ c[2] = "u2"
    BY <2>1
  <2>3. CASE p = 0
    <3>1. Byte = "u1"
      BY <2>2, <2>3
    <3>2. Within(m, c, 1)'
      BY <1>1, <1>2, <1>9, <2>2, <2>3, <3>1 DEF Within, Controls, LineEnds
    <3> QED
      BY <2>2, <2>3, <3>2 DEF Moved
  <2>4. CASE p = 1
    <3>1. Byte = "u2" /\ buf = Append(m.now, "u1")
      BY <1>3, <2>2, <2>4
    <3>2. Is(x, m.done, Append(Append(m.now, "u1"), "u2"))
      BY <1>11, AfterIs
    <3>3. Between(x)'
      BY <1>9, <3>1, <3>2 DEF Between, Is, Controls, LineEnds
    <3> QED
      BY <2>2, <2>4, <3>3 DEF Moved
  <2> QED
    BY <2>2, <2>3, <2>4
<1>12. CASE k # "u"
  <2>1. p = 0
    <3>1. c[1] # "u1"
      BY <1>12, CodeIs DEF Alone, Sequence
    <3> QED
      BY <1>3, <3>1
  <2>2. c[1] = Byte /\ buf = m.now
    BY <1>2, <2>1
  <2>3. CASE k = "a"
    <3>1. c = <<"a">>
      BY <2>3 DEF Sends
    <3>2. Len(c) = 1 /\ c[1] = "a"
      BY <3>1
    <3>3. Is(x, m.done, Append(m.now, "a"))
      BY <2>3, AfterIs
    <3>4. Between(x)'
      BY <1>9, <2>2, <3>2, <3>3 DEF Between, Is, Controls, LineEnds
    <3> QED
      BY <2>1, <3>2, <3>4 DEF Moved
  <2>4. CASE k = "enter"
    <3>1. c \in {<<"nl">>, <<"cr">>}
      BY <2>4 DEF Sends
    <3>2. Len(c) = 1 /\ c[1] \in LineEnds
      BY <3>1 DEF LineEnds
    <3>3. Is(x, Append(m.done, <<m.now, "none">>), <<>>)
      BY <2>4, AfterIs
    <3>4. Between(x)'
      BY <1>4, <2>2, <3>2, <3>3 DEF Between, Is
    <3> QED
      BY <2>1, <3>2, <3>4 DEF Moved
  <2>5. CASE k = "backspace"
    <3>1. c = <<"del">>
      BY <2>5 DEF Sends
    <3>2. Len(c) = 1 /\ c[1] = "del"
      BY <3>1
    <3>3. IF Len(m.now) > AfterLastNewline(m.now)
          THEN Is(x, m.done, SubSeq(m.now, 1, Len(m.now) - LastRune(m.now))) ELSE x = m
      BY <2>5, AfterIs
    <3>4. Between(x)'
      BY <1>8, <2>2, <3>2, <3>3 DEF Between, Is
    <3> QED
      BY <2>1, <3>2, <3>4 DEF Moved
  <2>6. CASE k = "ctrl+c"
    <3>1. c = <<"etx">>
      BY <2>6 DEF Sends
    <3>2. Len(c) = 1 /\ c[1] = "etx"
      BY <3>1
    <3>3. Is(x, Append(m.done, <<<<>>, "interrupted">>), <<>>)
      BY <2>6, AfterIs
    <3>4. Between(x)'
      BY <1>5, <2>2, <3>2, <3>3 DEF Between, Is
    <3> QED
      BY <2>1, <3>2, <3>4 DEF Moved
  <2>7. CASE k = "ctrl+d"
    <3>1. c = <<"eot">>
      BY <2>7 DEF Sends
    <3>2. Len(c) = 1 /\ c[1] = "eot"
      BY <3>1
    <3>3. IF m.now = <<>> THEN Is(x, Append(m.done, <<<<>>, "EOF">>), <<>>) ELSE x = m
      BY <2>7, AfterIs
    <3>4. Between(x)'
      BY <1>6, <1>7, <2>2, <3>2, <3>3 DEF Between, Is
    <3> QED
      BY <2>1, <3>2, <3>4 DEF Moved
  <2>8. CASE k \in {"escape", "arrow", "shift+enter", "paste"}
    <3>1. c[1] \in {"esc", "ESC"}
      BY <2>8, CodeIs DEF Alone, Sequence
    <3> QED
      BY <1>1, <2>2, <3>1
  <2>9. CASE k = "tab"
    <3>1. c = <<"tab">>
      BY <2>9 DEF Sends
    <3>2. Len(c) = 1 /\ c[1] = "tab"
      BY <3>1
    <3>3. x = m
      BY <2>9, AfterIs
    <3>4. Between(x)'
      BY <1>10, <2>2, <3>2, <3>3 DEF Between
    <3> QED
      BY <2>1, <3>2, <3>4 DEF Moved
  <2> QED
    BY <1>12, <2>3, <2>4, <2>5, <2>6, <2>7, <2>8, <2>9 DEF Sends
<1> QED
  BY <1>11, <1>12

\* A sequence that begins with ESC. A step that garbles it is none of these.
LEMMA SequenceByte ==
  ASSUME speaks # "pipe", TInv, ~garbled', Escape \/ EscapeByte \/ CsiByte \/ PasteByte,
         NEW m, Text(m.now), NEW k, NEW c, Sends(k, c), NEW p \in Nat, p < Len(c),
         Place(m, c, p), Byte = c[p + 1]
  PROVE  Moved(m, k, c, p)'
<1> DEFINE x == After(m, k)
<1>1. /\ speaks' = speaks /\ results = m.done /\ results' = m.done
  BY DEF Escape, EscapeByte, CsiByte, PasteByte, inputVars, Place, Between, Within
<1>2. buf \in Seq(Sent) /\ Len(c) \in Nat
  BY CodeType DEF TInv, Reading
<1>3. CASE Escape
  <2>1. reader = "reading" /\ Byte \in {"esc", "ESC"} /\ buf' = buf
    BY <1>3 DEF Escape, lineVars
  <2>2. p = 0
    <3> SUFFICES ASSUME p # 0 PROVE FALSE
      OBVIOUS
    <3>1. c[1] = "u1"
      BY <2>1 DEF Place, Within, InSequence
    <3>2. k = "u"
      BY <3>1, CodeIs DEF Alone, Sequence
    <3>3. c = <<"u1", "u2">>
      BY <3>2 DEF Sends
    <3>4. c[2] = "u2" /\ Len(c) = 2
      BY <3>3
    <3>5. p + 1 = 2
      BY <3>4
    <3> QED
      BY <2>1, <3>4, <3>5
  <2>3. c[1] = Byte /\ buf = m.now
    BY <2>1, <2>2 DEF Place, Between
  <2>4. CASE Byte = "esc"
    <3>1. reader' = "escape"
      BY <1>3, <2>4 DEF Escape
    <3>2. Len(c) > 1
      BY <1>2, <2>3, <2>4, CodeIs DEF Alone, Sequence
    <3>3. Within(m, c, 1)'
      BY <1>1, <2>1, <2>3, <2>4, <3>1 DEF Within, InSequence
    <3> QED
      BY <2>2, <3>2, <3>3 DEF Moved
  <2>5. CASE Byte = "ESC"
    <3>1. reader' = "reading"
      BY <1>3, <2>5 DEF Escape
    <3>2. k = "escape" /\ Len(c) = 1
      BY <1>2, <2>3, <2>5, CodeIs DEF Alone, Sequence
    <3>3. x = m
      BY <3>2, AfterIs
    <3>4. Between(x)'
      BY <1>1, <2>1, <2>3, <3>1, <3>3 DEF Between
    <3> QED
      BY <2>2, <3>2, <3>4 DEF Moved
  <2> QED
    BY <2>1, <2>4, <2>5
<1>4. CASE ~Escape
  <2>1. reader \in {"escape", "csi", "paste"}
    BY <1>4 DEF EscapeByte, CsiByte, PasteByte
  <2>2. p # 0 /\ c[1] # "u1" /\ buf = m.now /\ InSequence(c, p)
    BY <2>1 DEF Place, Between, Within
  <2>3. Sequence(k, c)
    <3> SUFFICES ASSUME Alone(k, c) PROVE FALSE
      BY CodeIs
    <3>1. Len(c) = 2
      BY <1>2, <2>2 DEF Alone
    <3>2. k = "u"
      <4>1. k \in {"u", "crlf"} /\ (k = "crlf" => speaks = "pipe")
        BY <3>1 DEF Alone, Sends
      <4> QED
        BY <4>1
    <3>3. c = <<"u1", "u2">>
      BY <3>2 DEF Sends
    <3> QED
      BY <2>2, <3>3
  <2>4. CASE p = 1
    <3>1. reader = "escape"
      BY <2>2, <2>4 DEF InSequence
    <3>2. reader' = "csi" /\ pending' = <<>> /\ buf' = buf
      BY <1>4, <2>3, <2>4, <3>1 DEF Sequence, EscapeByte, CsiByte, PasteByte, lineVars
    <3>3. 2 < Len(c)
      BY <2>3 DEF Sequence
    <3>4. Within(m, c, 2)'
      BY <1>1, <2>2, <3>2 DEF Within, InSequence
    <3> QED
      BY <2>4, <3>3, <3>4 DEF Moved
  <2>5. CASE p = 2
    <3>1. reader = "csi" /\ pending = <<>> /\ Byte = c[3]
      BY <2>2, <2>5 DEF InSequence
    <3>2. CsiByte
      BY <1>4, <3>1 DEF EscapeByte, PasteByte
    <3>3. CASE k = "arrow"
      <4>1. Len(c) = 3 /\ c[3] = "A" /\ x = m
        BY <2>3, <3>3, AfterIs DEF Sequence
      <4>2. reader' = "reading" /\ buf' = buf
        BY <3>1, <3>2, <4>1 DEF CsiByte, Finals, ShiftEnter, lineVars
      <4>3. Between(x)'
        BY <1>1, <2>2, <4>1, <4>2 DEF Between
      <4> QED
        BY <2>5, <4>1, <4>3 DEF Moved
    <3>4. CASE k # "arrow"
      <4>1. c[3] \in {"27", "13_2", "27_2_13", "200"} /\ 3 < Len(c)
        BY <2>3, <3>4 DEF Sequence
      <4>2. reader' = "csi" /\ pending' = Append(<<>>, c[3]) /\ buf' = buf
        BY <3>1, <3>2, <4>1 DEF CsiByte, Finals, lineVars
      <4>3. pending' = <<c[3]>>
        BY <4>2
      <4>4. Within(m, c, 3)'
        BY <1>1, <2>2, <4>2, <4>3 DEF Within, InSequence
      <4> QED
        BY <2>5, <4>1, <4>4 DEF Moved
    <3> QED
      BY <3>3, <3>4
  <2>6. CASE p = 3
    <3>1. reader = "csi" /\ pending = <<c[3]>> /\ Byte = c[4]
      BY <2>2, <2>6 DEF InSequence
    <3>2. CsiByte
      BY <1>4, <3>1 DEF EscapeByte, PasteByte
    <3>3. Len(c) > 3
      BY <2>6
    <3>4. Head(pending) = c[3] /\ pending # <<>>
      BY <3>1
    <3>5. CASE k = "escape"
      <4>1. Len(c) = 4 /\ c[3] = "27" /\ c[4] = "u" /\ x = m
        BY <2>3, <3>5, AfterIs DEF Sequence
      <4>2. reader' = "reading" /\ buf' = buf
        BY <3>1, <3>2, <3>4, <4>1 DEF CsiByte, Finals, ShiftEnter, lineVars
      <4>3. Between(x)'
        BY <1>1, <2>2, <4>1, <4>2 DEF Between
      <4> QED
        BY <2>6, <4>1, <4>3 DEF Moved
    <3>6. CASE k = "shift+enter"
      <4>1. /\ Len(c) = 4 /\ Is(x, m.done, Append(m.now, "nl"))
            /\ ((c[3] = "13_2" /\ c[4] = "u") \/ (c[3] = "27_2_13" /\ c[4] = "~"))
        BY <2>3, <3>6, AfterIs DEF Sequence
      <4>2. ShiftEnter(Byte)
        BY <3>1, <3>4, <4>1 DEF ShiftEnter
      <4>3. Byte \in Finals /\ ~(Byte = "~" /\ pending = <<"200">>)
        <5>1. Head(<<"200">>) = "200"
          OBVIOUS
        <5> QED
          BY <3>1, <3>4, <4>1, <5>1 DEF Finals
      <4>4. reader' = "reading" /\ buf' = Append(buf, "nl")
        BY <3>2, <4>2, <4>3 DEF CsiByte
      <4>5. Between(x)'
        BY <1>1, <2>2, <4>1, <4>4 DEF Between, Is
      <4> QED
        BY <2>6, <4>1, <4>5 DEF Moved
    <3>7. CASE k = "paste"
      <4>1. Len(c) = 12 /\ c[3] = "200" /\ c[4] = "~"
        BY <2>3, <3>7 DEF Sequence
      <4>2. ~ShiftEnter(Byte)
        <5>1. Head(<<"27_2_13">>) = "27_2_13"
          OBVIOUS
        <5> QED
          BY <3>1, <3>4, <4>1, <5>1 DEF ShiftEnter
      <4>3. Byte = "~" /\ pending = <<"200">> /\ Byte \in Finals
        BY <3>1, <4>1 DEF Finals
      <4>4. reader' = "paste" /\ pending' = <<>> /\ buf' = buf
        BY <3>2, <4>2, <4>3 DEF CsiByte, lineVars
      <4>5. Within(m, c, 4)'
        BY <1>1, <2>2, <4>4 DEF Within, InSequence
      <4> QED
        BY <2>6, <4>1, <4>5 DEF Moved
    <3>8. Len(c) # 3
      <4> DEFINE n == Len(c)
      <4>1. n \in Nat /\ n > 3
        BY <1>2, <3>3
      <4> HIDE DEF n
      <4>2. n # 3
        BY <4>1
      <4> QED
        BY <4>2 DEF n
    <3> QED
      BY <2>3, <3>5, <3>6, <3>7, <3>8 DEF Sequence
  <2>7. CASE p >= 4
    <3>1. reader = "paste" /\ ((p = 4 /\ pending = <<>>) \/ (p >= 5 /\ pending = SubSeq(c, 5, p)))
      BY <2>2, <2>7 DEF InSequence
    <3>2. PasteByte
      BY <1>4, <3>1 DEF EscapeByte, CsiByte
    <3>3. k = "paste" /\ c = PasteCode /\ Len(c) = 12
      <4>1. k = "paste" /\ Len(c) = 12
        BY <2>3, <2>7 DEF Sequence
      <4> QED
        BY <4>1 DEF Sends
    <3>4. p + 1 \in 5..12
      BY <2>7, <3>3
    <3> DEFINE content == Append(pending, Byte)
    <3>5. content = SubSeq(c, 5, p + 1)
      <4>1. c \in Seq(Sent) /\ p + 1 <= Len(c) /\ Byte = c[p + 1]
        BY <3>3, <3>4, PasteType
      <4>2. CASE p = 4
        <5>1. content = <<c[5]>>
          BY <3>1, <4>1, <4>2
        <5>2. SubSeq(c, 5, 5) = <<c[5]>>
          <6> DEFINE s == SubSeq(c, 5, 5)
                     t == <<c[5]>>
          <6>1. 5 \in Nat /\ 5 <= Len(c) /\ 1 <= 5 /\ 5 <= 5 + 1 /\ (5 - 5) + 1 = 1 /\ (5 - 1) + 1 = 5
            BY <3>3
          <6>2. s \in Seq(Sent) /\ Len(s) = 1 /\ s[1] = c[5]
            BY <4>1, <6>1, CutIs
          <6>3. t \in Seq(Sent) /\ Len(t) = 1 /\ t[1] = c[5]
            <7>1. c[5] \in Sent
              BY <3>3, PasteIs DEF Sent
            <7> QED
              BY <7>1
          <6> HIDE DEF s, t
          <6>4. s = t
            BY <6>2, <6>3
          <6> QED
            BY <6>4 DEF s, t
        <5> QED
          BY <4>2, <5>1, <5>2
      <4>3. CASE p >= 5
        <5>1. content = Append(SubSeq(c, 5, p), c[p + 1])
          BY <3>1, <4>1, <4>3
        <5>2. SubSeq(c, 5, p + 1) = Append(SubSeq(c, 5, p), c[p + 1])
          BY <3>3, <3>4, <4>1, <4>3
        <5> QED
          BY <5>1, <5>2
      <4> QED
        BY <3>1, <4>2, <4>3
    <3> HIDE DEF content
    <3>6. IsSuffix(PasteEnd, content) <=> p + 1 = 12
      BY <3>3, <3>4, <3>5, PasteEnds
    <3>7. CASE p + 1 = 12
      <4>1. /\ buf' = buf \o Normalised(SubSeq(content, 1, Len(content) - Len(PasteEnd)))
            /\ reader' = "reading"
        BY <3>2, <3>6, <3>7 DEF PasteByte, content
      <4>2. content = SubSeq(PasteCode, 5, 12) /\ Len(content) = 8
        <5>1. content = SubSeq(PasteCode, 5, 12)
          BY <3>3, <3>5, <3>7
        <5>2. 12 \in 5..12 /\ 12 - 4 = 8
          OBVIOUS
        <5> QED
          BY <5>1, <5>2, PasteEnds
      <4>3. Len(PasteEnd) = 4 /\ 8 - 4 = 4
        BY PasteHas
      <4>4. buf' = m.now \o <<"a", "nl", "a">>
        BY <2>2, <4>1, <4>2, <4>3, PasteHas
      <4>5. Is(x, m.done, m.now \o <<"a", "nl", "a">>)
        BY <3>3, AfterIs
      <4>6. Between(x)'
        BY <1>1, <4>1, <4>4, <4>5 DEF Between, Is
      <4> QED
        BY <3>3, <3>7, <4>6 DEF Moved
    <3>8. CASE p + 1 # 12
      <4>1. pending' = content /\ reader' = "paste" /\ buf' = buf
        BY <3>2, <3>6, <3>8 DEF PasteByte, content, lineVars
      <4>2. p + 1 >= 5 /\ p + 1 < Len(c)
        BY <3>3, <3>4, <3>8
      <4>3. Within(m, c, p + 1)'
        BY <1>1, <2>2, <3>5, <4>1, <4>2 DEF Within, InSequence
      <4> QED
        BY <4>2, <4>3 DEF Moved
    <3> QED
      BY <3>7, <3>8
  <2> QED
    BY <2>2, <2>4, <2>5, <2>6, <2>7
<1> QED
  BY <1>3, <1>4

--------------------------------------------------------------------------------
(* What was sent, and how much of it is not read yet.                      *)

Unread(sent, q) ==
  /\ sent \in Seq(Sent) /\ q \in 0..Len(sent)
  /\ stdin \in Seq(Sent) /\ arrived \in Seq(Sent)
  /\ Len(sent) = q + Len(stdin) + Len(arrived)
  /\ \A i \in 1..Len(stdin) : stdin[i] = sent[q + i]
  /\ \A i \in 1..Len(arrived) : arrived[i] = sent[q + Len(stdin) + i]

LEMMA TakeUnread ==
  ASSUME NEW sent, NEW q, Unread(sent, q), Take, arrived' = arrived
  PROVE  q + 1 \in 1..Len(sent) /\ Byte = sent[q + 1] /\ Unread(sent, q + 1)'
<1> DEFINE s == Len(stdin)
           a == Len(arrived)
           n == Len(sent)
           t == Tail(stdin)
<1>1. /\ sent \in Seq(Sent) /\ stdin \in Seq(Sent) /\ arrived \in Seq(Sent)
      /\ stdin # <<>> /\ stdin' = t
  BY DEF Unread, Take
<1>2. s \in Nat /\ s # 0 /\ a \in Nat /\ n \in Nat /\ q \in Nat /\ n = q + s + a
  BY <1>1 DEF Unread
<1>3. /\ t \in Seq(Sent) /\ Len(t) = s - 1 /\ Head(stdin) = stdin[1]
      /\ \A i \in 1..(s - 1) : t[i] = stdin[i + 1]
  BY <1>1
<1>4. \A i \in 1..s : stdin[i] = sent[q + i]
  BY DEF Unread
<1>5. \A i \in 1..a : arrived[i] = sent[q + s + i]
  BY DEF Unread
<1> HIDE DEF s, a, n, t
<1>6. q + 1 \in 1..n /\ q + 1 \in 0..n /\ n = (q + 1) + (s - 1) + a /\ 1 \in 1..s
  BY <1>2
<1>7. Byte = sent[q + 1]
  BY <1>3, <1>4, <1>6 DEF Byte
<1>8. ASSUME NEW i \in 1..(s - 1) PROVE t[i] = sent[(q + 1) + i]
  <2>1. i + 1 \in 1..s /\ q + (i + 1) = (q + 1) + i
    BY <1>2
  <2> QED
    BY <1>3, <1>4, <2>1
<1>9. ASSUME NEW i \in 1..a PROVE arrived[i] = sent[(q + 1) + (s - 1) + i]
  <2>1. q + s + i = (q + 1) + (s - 1) + i
    BY <1>2
  <2> QED
    BY <1>5, <2>1
<1>10. /\ stdin' \in Seq(Sent) /\ arrived' \in Seq(Sent) /\ Len(stdin') = s - 1 /\ Len(arrived') = a
       /\ arrived' = arrived
  BY <1>1, <1>3 DEF a
<1>11. Unread(sent, q + 1)'
  <2>1. q + 1 \in 0..Len(sent) /\ Len(sent) = (q + 1) + (s - 1) + a
    BY <1>6 DEF n
  <2> QED
    BY <1>1, <1>8, <1>9, <1>10, <2>1 DEF Unread
<1> QED
  BY <1>6, <1>7, <1>11 DEF n

LEMMA FillUnread ==
  ASSUME NEW sent, NEW q, Unread(sent, q), Fill
  PROVE  Unread(sent, q)'
<1> DEFINE a == Len(arrived)
           n == IF a < BufSize THEN a ELSE BufSize
           x == SubSeq(arrived, 1, n)
           y == SubSeq(arrived, n + 1, a)
<1>1. /\ sent \in Seq(Sent) /\ arrived \in Seq(Sent) /\ stdin = <<>> /\ q \in 0..Len(sent)
      /\ stdin' = x /\ arrived' = y /\ a \in Nat
  BY DEF Unread, Fill
<1>2. Len(sent) = q + Len(stdin) + a /\ Len(sent) \in Nat /\ Len(stdin) = 0 /\ q \in Nat
  BY <1>1 DEF Unread
<1>3. \A i \in 1..a : arrived[i] = sent[q + i]
  <2>1. \A i \in 1..a : arrived[i] = sent[q + Len(stdin) + i]
    BY DEF Unread
  <2>2. \A i \in 1..a : q + Len(stdin) + i = q + i
    BY <1>2
  <2> QED
    BY <2>1, <2>2
<1>4. n \in Nat /\ n <= a
  <2> HIDE DEF a
  <2> QED
    BY <1>1, TermAssumption
<1> HIDE DEF n
<1>5. x \in Seq(Sent) /\ Len(x) = n /\ \A i \in 1..n : x[i] = arrived[i]
  BY <1>1, <1>4
<1>6. y \in Seq(Sent) /\ Len(y) = a - n /\ \A i \in 1..(a - n) : y[i] = arrived[n + i]
  BY <1>1, <1>4
<1> HIDE DEF a, x, y
<1>7. ASSUME NEW i \in 1..n PROVE x[i] = sent[q + i]
  <2>1. i \in 1..a
    BY <1>1, <1>4
  <2> QED
    BY <1>3, <1>5, <2>1
<1>8. ASSUME NEW i \in 1..(a - n) PROVE y[i] = sent[q + n + i]
  <2>1. n + i \in 1..a /\ q + (n + i) = q + n + i
    BY <1>1, <1>2, <1>4
  <2> QED
    BY <1>3, <1>6, <2>1
<1>9. Len(sent) = q + n + (a - n)
  BY <1>1, <1>2, <1>4
<1> QED
  BY <1>1, <1>5, <1>6, <1>7, <1>8, <1>9 DEF Unread

LEMMA PressUnread ==
  ASSUME NEW sent, NEW q, Unread(sent, q), NEW b \in Seq(Sent),
         arrived' = arrived \o b, stdin' = stdin
  PROVE  Unread(sent \o b, q)'
<1> DEFINE s == Len(stdin)
           a == Len(arrived)
           n == Len(sent)
           l == Len(b)
           w == sent \o b
           v == arrived \o b
<1>1. /\ sent \in Seq(Sent) /\ stdin \in Seq(Sent) /\ arrived \in Seq(Sent)
  BY DEF Unread
<1>2. s \in Nat /\ a \in Nat /\ n \in Nat /\ l \in Nat /\ q \in Nat /\ n = q + s + a
  BY <1>1 DEF Unread
<1>3. /\ w \in Seq(Sent) /\ Len(w) = n + l
      /\ \A i \in 1..n : w[i] = sent[i]
      /\ \A i \in 1..l : w[n + i] = b[i]
  BY <1>1, JoinIs
<1>4. /\ v \in Seq(Sent) /\ Len(v) = a + l
      /\ \A i \in 1..a : v[i] = arrived[i]
      /\ \A i \in 1..l : v[a + i] = b[i]
  BY <1>1, JoinIs
<1>5. \A i \in 1..s : stdin[i] = sent[q + i]
  BY DEF Unread
<1>6. \A i \in 1..a : arrived[i] = sent[q + s + i]
  BY DEF Unread
<1>7. arrived' = v
  OBVIOUS
<1> HIDE DEF s, a, n, l, w, v
<1>8. ASSUME NEW i \in 1..s PROVE stdin[i] = w[q + i]
  <2>1. q + i \in 1..n
    BY <1>2
  <2> QED
    BY <1>3, <1>5, <2>1
<1>9. ASSUME NEW i \in 1..(a + l) PROVE v[i] = w[q + s + i]
  <2>1. CASE i \in 1..a
    <3>1. q + s + i \in 1..n
      BY <1>2, <2>1
    <3> QED
      BY <1>3, <1>4, <1>6, <2>1, <3>1
  <2>2. CASE i \notin 1..a
    <3> DEFINE j == i - a
    <3>1. j \in 1..l /\ a + j = i /\ n + j = q + s + i
      BY <1>2, <2>2
    <3> HIDE DEF j
    <3> QED
      BY <1>3, <1>4, <3>1
  <2> QED
    BY <2>1, <2>2
<1>10. q \in 0..(n + l) /\ n + l = q + s + (a + l)
  BY <1>2
<1>11. Unread(w, q)'
  <2>1. /\ stdin' = stdin /\ Len(stdin') = s /\ Len(arrived') = a + l
    BY <1>4, <1>7 DEF s
  <2> QED
    BY <1>1, <1>3, <1>4, <1>7, <1>8, <1>9, <1>10, <2>1 DEF Unread
<1> QED
  BY <1>11 DEF w

--------------------------------------------------------------------------------
(* The story of the keys: the bytes each came as, where those end in what  *)
(* was sent, and what the keys so far mean.                                *)

Pressable == UNION {KeysOf[s] : s \in DOMAIN KeysOf}

Spelt(k, c, sent, from, to) ==
  /\ Sends(k, c) /\ to = from + Len(c)
  /\ \A j \in 1..Len(c) : sent[from + j] = c[j]

NextMeant(ks, n, before) == IF n = 0 THEN Begun ELSE After(before, ks[n])

Meant(ks, ms) == ms = [n \in 0..Len(ks) |-> NextMeant(ks, n, ms[n - 1])]

Story(ks, sent, ends, codes, ms) ==
  /\ ks \in Seq(Pressable) /\ sent \in Seq(Sent)
  /\ \A i \in 0..Len(ks) : ends[i] \in 0..Len(sent)
  /\ ends[0] = 0 /\ ends[Len(ks)] = Len(sent)
  /\ \A i \in 1..Len(ks) : Spelt(ks[i], codes[i], sent, ends[i - 1], ends[i])
  /\ Meant(ks, ms)
  /\ \A i \in 0..Len(ks) : Text(ms[i].now)

LEMMA StoryBegins ==
  \E ends, codes, ms :
    Story(<<>>, <<>>, ends, codes, ms) /\ ends[0] = 0 /\ ms[0] = Begun
<1> DEFINE ends == [i \in {0} |-> 0]
           ms == [i \in {0} |-> Begun]
<1>1. <<>> \in Seq(Pressable) /\ <<>> \in Seq(Sent) /\ Len(<<>>) = 0 /\ 0..0 = {0} /\ 1..0 = {}
  OBVIOUS
<1>2. ends[0] = 0 /\ ms[0] = Begun /\ ms = [n \in {0} |-> NextMeant(<<>>, n, ms[n - 1])]
  BY DEF NextMeant
<1>3. Text(ms[0].now)
  BY TextNone DEF Begun
<1> HIDE DEF ends, ms
<1>4. Meant(<<>>, ms)
  BY <1>1, <1>2 DEF Meant
<1>5. Story(<<>>, <<>>, ends, <<>>, ms)
  BY <1>1, <1>2, <1>3, <1>4 DEF Story
<1> QED
  BY <1>2, <1>5

\* Another key.
Longer(ks, k, sent, c, ends, codes, ms, e, d, m) ==
  /\ Story(Append(ks, k), sent \o c, e, d, m)
  /\ \A i \in 0..Len(ks) : e[i] = ends[i] /\ m[i] = ms[i]
  /\ \A i \in 1..Len(ks) : d[i] = codes[i]

LEMMA StoryGrows ==
  ASSUME NEW ks, NEW sent, NEW ends, NEW codes, NEW ms, Story(ks, sent, ends, codes, ms),
         NEW k \in Pressable, NEW c, Sends(k, c)
  PROVE  \E e, d, m : Longer(ks, k, sent, c, ends, codes, ms, e, d, m)
<1> DEFINE n == Len(ks)
           l == Len(sent)
           b == Len(c)
           kt == Append(ks, k)
           w == sent \o c
           e == [i \in 0..(n + 1) |-> IF i = n + 1 THEN l + b ELSE ends[i]]
           d == [i \in 1..(n + 1) |-> IF i = n + 1 THEN c ELSE codes[i]]
           m == [i \in 0..(n + 1) |-> IF i = n + 1 THEN After(ms[n], k) ELSE ms[i]]
<1>1. /\ ks \in Seq(Pressable) /\ sent \in Seq(Sent) /\ c \in Seq(Sent)
      /\ n \in Nat /\ l \in Nat /\ b \in Nat
  BY CodeType DEF Story
<1>2. /\ \A i \in 0..n : ends[i] \in 0..l
      /\ ends[0] = 0 /\ ends[n] = l
      /\ \A i \in 1..n : Spelt(ks[i], codes[i], sent, ends[i - 1], ends[i])
      /\ \A i \in 0..n : Text(ms[i].now)
  BY DEF Story
<1>3. ms = [i \in 0..n |-> NextMeant(ks, i, ms[i - 1])]
  BY DEF Story, Meant
<1>4. /\ w \in Seq(Sent) /\ Len(w) = l + b
      /\ \A i \in 1..l : w[i] = sent[i]
      /\ \A i \in 1..b : w[l + i] = c[i]
  BY <1>1, JoinIs
<1>5. /\ kt \in Seq(Pressable) /\ Len(kt) = n + 1 /\ kt[n + 1] = k
      /\ \A i \in 1..n : kt[i] = ks[i]
  BY <1>1
<1> HIDE DEF n, l, b, kt, w
<1>6. /\ \A i \in 0..n : i # n + 1 /\ i \in 0..(n + 1)
      /\ \A i \in 1..n : i # n + 1 /\ i \in 1..(n + 1) /\ i \in 0..n /\ i - 1 \in 0..n
      /\ n + 1 \in 0..(n + 1) /\ n + 1 \in 1..(n + 1) /\ (n + 1) - 1 = n /\ n \in 0..n
      /\ n + 1 # 0 /\ 0 \in 0..n
  BY <1>1
<1>7. /\ \A i \in 0..n : e[i] = ends[i] /\ m[i] = ms[i]
      /\ e[n + 1] = l + b /\ m[n + 1] = After(ms[n], k)
  BY <1>6
<1>8. (\A i \in 1..n : d[i] = codes[i]) /\ d[n + 1] = c
  BY <1>6
<1>9. m = [i \in 0..(n + 1) |-> m[i]]
  OBVIOUS
<1> HIDE DEF e, d, m
<1>10. \A i \in 0..(n + 1) : i \in 0..n \/ i = n + 1
  BY <1>1
<1>11. \A i \in 1..(n + 1) : i \in 1..n \/ i = n + 1
  BY <1>1
<1>12. \A i \in 0..(n + 1) : e[i] \in 0..(l + b)
  <2>1. ASSUME NEW i \in 0..n PROVE e[i] \in 0..(l + b)
    <3>1. ends[i] \in 0..l
      BY <1>2
    <3> QED
      BY <1>1, <1>7, <3>1
  <2>2. e[n + 1] \in 0..(l + b)
    BY <1>1, <1>7
  <2> QED
    BY <1>10, <2>1, <2>2
<1>13. \A i \in 1..(n + 1) : Spelt(kt[i], d[i], w, e[i - 1], e[i])
  <2>1. ASSUME NEW i \in 1..n PROVE Spelt(kt[i], d[i], w, e[i - 1], e[i])
    <3>1. kt[i] = ks[i] /\ d[i] = codes[i] /\ e[i] = ends[i] /\ e[i - 1] = ends[i - 1]
      BY <1>5, <1>6, <1>7, <1>8
    <3>2. Spelt(ks[i], codes[i], sent, ends[i - 1], ends[i])
      BY <1>2
    <3> DEFINE x == ends[i - 1]
               y == ends[i]
               f == codes[i]
               g == Len(f)
    <3>3. Sends(ks[i], f) /\ y = x + g /\ \A j \in 1..g : sent[x + j] = f[j]
      BY <3>2 DEF Spelt
    <3>4. x \in Nat /\ y \in Nat /\ y <= l
      <4>1. x \in 0..l /\ y \in 0..l
        BY <1>2, <1>6
      <4> HIDE DEF x, y
      <4> QED
        BY <1>1, <4>1
    <3>5. g \in Nat
      BY <3>3, CodeType
    <3> HIDE DEF x, y, f, g
    <3>6. \A j \in 1..g : w[x + j] = f[j]
      <4>1. \A j \in 1..g : x + j \in 1..l
        BY <1>1, <3>3, <3>4, <3>5
      <4> QED
        BY <1>4, <3>3, <4>1
    <3>7. Spelt(ks[i], f, w, x, y)
      BY <3>3, <3>6 DEF Spelt, g
    <3> QED
      BY <3>1, <3>7 DEF x, y, f
  <2>2. Spelt(k, c, w, l, l + b)
    BY <1>4 DEF Spelt, b
  <2>3. Spelt(kt[n + 1], d[n + 1], w, e[(n + 1) - 1], e[n + 1])
    <3>1. e[(n + 1) - 1] = l
      BY <1>2, <1>6, <1>7
    <3> QED
      BY <1>5, <1>7, <1>8, <2>2, <3>1
  <2> QED
    BY <1>11, <2>1, <2>3
<1>14. m = [i \in 0..(n + 1) |-> NextMeant(kt, i, m[i - 1])]
  <2>1. ASSUME NEW i \in 0..(n + 1) PROVE m[i] = NextMeant(kt, i, m[i - 1])
    <3>1. CASE i = 0
      <4>1. m[0] = ms[0] /\ ms[0] = NextMeant(ks, 0, ms[0 - 1])
        BY <1>3, <1>6, <1>7
      <4> QED
        BY <3>1, <4>1 DEF NextMeant
    <3>2. CASE i \in 1..n
      <4>1. m[i] = ms[i] /\ m[i - 1] = ms[i - 1] /\ kt[i] = ks[i] /\ i # 0
        BY <1>1, <1>5, <1>6, <1>7, <3>2
      <4>2. ms[i] = NextMeant(ks, i, ms[i - 1])
        BY <1>3, <1>6, <3>2
      <4> QED
        BY <4>1, <4>2 DEF NextMeant
    <3>3. CASE i = n + 1
      <4>1. m[i] = After(ms[n], k) /\ m[i - 1] = ms[n] /\ kt[i] = k /\ i # 0
        BY <1>5, <1>6, <1>7, <3>3
      <4> QED
        BY <4>1 DEF NextMeant
    <3>4. i = 0 \/ i \in 1..n \/ i = n + 1
      BY <1>1
    <3> QED
      BY <3>1, <3>2, <3>3, <3>4
  <2> QED
    BY <1>9, <2>1
<1>15. \A i \in 0..(n + 1) : Text(m[i].now)
  <2>1. \A i \in 0..n : Text(m[i].now)
    BY <1>2, <1>7
  <2>2. Text(m[n + 1].now)
    BY <1>2, <1>6, <1>7, AfterText
  <2> QED
    BY <1>10, <2>1, <2>2
<1>16. Story(kt, w, e, d, m)
  <2>1. Meant(kt, m)
    BY <1>5, <1>14 DEF Meant
  <2>2. e[0] = 0 /\ e[n + 1] = l + b
    BY <1>2, <1>6, <1>7
  <2> QED
    BY <1>4, <1>5, <1>12, <1>13, <1>15, <2>1, <2>2 DEF Story
<1>17. Longer(ks, k, sent, c, ends, codes, ms, e, d, m)
  BY <1>7, <1>8, <1>16 DEF Longer, kt, w, n
<1> QED
  BY <1>17

\* What the keys mean is where their story ends.
LEMMA StoryMeans ==
  ASSUME keys \in Seq(Pressable), NEW ms, Meant(keys, ms)
  PROVE  Meaning = ms[Len(keys)]
<1> DEFINE K == CHOOSE f : Meant(keys, f)
           L == Len(keys)
<1>1. L \in Nat /\ Meant(keys, K)
  OBVIOUS
<1>2. Meaning = K[L]
  BY DEF Meaning, Meant, NextMeant
<1> HIDE DEF K, L
<1>3. /\ \A n \in 0..L : K[n] = NextMeant(keys, n, K[n - 1])
      /\ \A n \in 0..L : ms[n] = NextMeant(keys, n, ms[n - 1])
  BY <1>1 DEF Meant, L
<1> DEFINE Bad == {n \in 0..L : K[n] # ms[n]}
<1>4. Bad = {}
  <2> SUFFICES ASSUME Bad # {} PROVE FALSE
    OBVIOUS
  <2>1. PICK n \in Bad : \A i \in Bad : n <= i
    <3>1. Bad \in SUBSET Nat
      BY <1>1
    <3> HIDE DEF Bad
    <3> QED
      BY <3>1, Least
  <2>2. n \in 0..L /\ K[n] # ms[n]
    OBVIOUS
  <2>3. CASE n = 0
    BY <1>3, <2>2, <2>3 DEF NextMeant
  <2>4. CASE n # 0
    <3>1. n - 1 \in 0..L /\ ~(n <= n - 1)
      BY <1>1, <2>2, <2>4
    <3>2. K[n - 1] = ms[n - 1]
      BY <2>1, <3>1
    <3> QED
      BY <1>3, <2>2, <3>2
  <2> QED
    BY <2>3, <2>4
<1>5. L \in 0..L
  BY <1>1
<1> QED
  BY <1>2, <1>4, <1>5 DEF L

--------------------------------------------------------------------------------
(* The invariant of the decoder: it has read q of the bytes sent, which is *)
(* n keys and p bytes of the next, and is where that leaves it.            *)

Told(sent, ends, codes, ms, q, n, p) ==
  /\ Story(keys, sent, ends, codes, ms) /\ Unread(sent, q)
  /\ n \in 0..Len(keys) /\ p \in Nat /\ q = ends[n] + p
  /\ p # 0 => n < Len(keys) /\ p < Len(codes[n + 1])
  /\ Place(ms[n], codes[n + 1], p)

Decoded ==
  ~closed /\ ~garbled => \E sent, ends, codes, ms, q, n, p : Told(sent, ends, codes, ms, q, n, p)

ByteTaken == Control \/ Edit \/ Escape \/ EscapeByte \/ CsiByte \/ PasteByte \/ PlainByte

\* As long as bytes are unread the next of them is one of the next key.
LEMMA NextByte ==
  ASSUME NEW sent, NEW ends, NEW codes, NEW ms, NEW q, NEW n, NEW p,
         Told(sent, ends, codes, ms, q, n, p), q < Len(sent)
  PROVE  /\ n + 1 \in 1..Len(keys) /\ Sends(keys[n + 1], codes[n + 1]) /\ Len(codes[n + 1]) \in Nat
         /\ p < Len(codes[n + 1]) /\ sent[q + 1] = codes[n + 1][p + 1]
         /\ ends[n + 1] = ends[n] + Len(codes[n + 1]) /\ ends[n] \in Nat
<1> DEFINE K == Len(keys)
           c == codes[n + 1]
           b == Len(c)
           from == ends[n]
           l == Len(sent)
<1>1. K \in Nat /\ l \in Nat /\ n \in 0..K /\ p \in Nat /\ q = from + p /\ ends[K] = l
  BY DEF Told, Story
<1>2. p # 0 => n < K /\ p < b
  BY DEF Told
<1>3. from \in 0..l /\ q < l
  BY <1>1 DEF Told, Story
<1>4. n + 1 \in 1..K
  <2>1. n # K
    <3> SUFFICES ASSUME n = K PROVE FALSE
      OBVIOUS
    <3>1. p = 0 /\ from = l
      <4> HIDE DEF K, l, b
      <4>1. ~(n < K)
        BY <1>1
      <4>2. p = 0
        BY <1>2, <4>1
      <4> QED
        BY <1>1, <4>2
    <3> HIDE DEF K, l, b, from
    <3> QED
      BY <1>1, <1>3, <3>1
  <2> HIDE DEF K
  <2> QED
    BY <1>1, <2>1
<1>5. (n + 1) - 1 = n
  BY <1>1
<1>6. Spelt(keys[n + 1], c, sent, from, ends[n + 1])
  <2>1. \A i \in 1..K : Spelt(keys[i], codes[i], sent, ends[i - 1], ends[i])
    BY DEF Told, Story
  <2> QED
    BY <1>4, <1>5, <2>1
<1>7. /\ Sends(keys[n + 1], c) /\ ends[n + 1] = from + b
      /\ \A j \in 1..b : sent[from + j] = c[j]
  BY <1>6 DEF Spelt
<1>8. b \in Nat /\ b # 0
  <2>1. b \in 1..12
    BY <1>7, CodeType
  <2> HIDE DEF b
  <2> QED
    BY <2>1
<1> HIDE DEF K, c, b, from, l
<1>9. p < b
  BY <1>1, <1>2, <1>8
<1>10. p + 1 \in 1..b /\ from + (p + 1) = q + 1 /\ from \in Nat
  BY <1>1, <1>3, <1>8, <1>9
<1>11. sent[q + 1] = c[p + 1]
  BY <1>7, <1>10
<1> QED
  BY <1>4, <1>7, <1>8, <1>9, <1>10, <1>11 DEF K, c, b, from

\* Whichever action takes the byte, it does to the line what the byte is for.
LEMMA ByteMoves ==
  ASSUME TInv, PipePlain, ByteTaken, ~garbled', NEW m, Text(m.now), NEW k, NEW c, Sends(k, c),
         NEW p \in Nat, p < Len(c), Place(m, c, p), Byte = c[p + 1]
  PROVE  Moved(m, k, c, p)'
<1>1. CASE PlainByte
  <2>1. speaks = "pipe"
    BY <1>1 DEF PlainByte, PipePlain
  <2> QED
    BY <1>1, <2>1, PipeByte
<1>2. CASE Control \/ Edit
  <2>1. reader = "reading" /\ speaks # "pipe"
    BY <1>2 DEF Control, Edit, PipePlain
  <2> QED
    BY <1>2, <2>1, KeyByte
<1>3. CASE Escape \/ EscapeByte \/ CsiByte \/ PasteByte
  <2>1. speaks # "pipe"
    BY <1>3 DEF Escape, EscapeByte, CsiByte, PasteByte, PipePlain
  <2> QED
    BY <1>3, <2>1, SequenceByte
<1> QED
  BY <1>1, <1>2, <1>3 DEF ByteTaken

LEMMA StoryStays ==
  ASSUME NEW ks, NEW sent, NEW ends, NEW codes, NEW ms, Story(ks, sent, ends, codes, ms),
         keys' = ks, speaks' = speaks
  PROVE  Story(keys, sent, ends, codes, ms)'
<1>1. ASSUME NEW s, Text(s) PROVE Text(s)'
  BY <1>1 DEF Text
<1>2. ASSUME NEW k, NEW c, Sends(k, c) PROVE Sends(k, c)'
  BY <1>2 DEF Sends
<1>3. ASSUME NEW k, NEW c, NEW from, NEW to, Spelt(k, c, sent, from, to)
      PROVE  Spelt(k, c, sent, from, to)'
  BY <1>2, <1>3 DEF Spelt
<1>4. \A i \in 1..Len(keys') : Spelt(ks[i], codes[i], sent, ends[i - 1], ends[i])'
  BY <1>3 DEF Story
<1>5. \A i \in 0..Len(keys') : Text(ms[i].now)'
  BY <1>1 DEF Story
<1>6. Meant(keys, ms)'
  BY DEF Story, Meant, NextMeant
<1>7. \A i \in 1..Len(keys') : Spelt(keys[i], codes[i], sent, ends[i - 1], ends[i])'
  BY <1>4 DEF Spelt, Sends
<1> QED
  BY <1>5, <1>6, <1>7 DEF Story

LEMMA ByteTold ==
  ASSUME TInv, PipePlain, ByteTaken, ~garbled',
         NEW sent, NEW ends, NEW codes, NEW ms, NEW q, NEW n, NEW p,
         Told(sent, ends, codes, ms, q, n, p)
  PROVE  \E i, j : Told(sent, ends, codes, ms, q + 1, i, j)'
<1> PICK k : k = keys[n + 1]
  OBVIOUS
<1> DEFINE c == codes[n + 1]
           m == ms[n]
           b == Len(c)
           K == Len(keys)
<1>1. Take /\ keys' = keys /\ speaks' = speaks /\ arrived' = arrived
  BY DEF ByteTaken, Control, Edit, Escape, EscapeByte, CsiByte, PasteByte, PlainByte, inputVars
<1>2. Unread(sent, q) /\ Story(keys, sent, ends, codes, ms) /\ n \in 0..K /\ p \in Nat
  BY DEF Told
<1>3. q + 1 \in 1..Len(sent) /\ Byte = sent[q + 1] /\ Unread(sent, q + 1)'
  BY <1>1, <1>2, TakeUnread
<1>4. q < Len(sent)
  <2>1. q \in Nat /\ Len(sent) \in Nat
    BY <1>2 DEF Unread
  <2> QED
    BY <1>3, <2>1
<1>5. /\ n + 1 \in 1..K /\ Sends(k, c) /\ b \in Nat
      /\ p < b /\ sent[q + 1] = c[p + 1]
      /\ ends[n + 1] = ends[n] + b /\ ends[n] \in Nat
  BY <1>4, NextByte
<1>6. Text(m.now) /\ Place(m, c, p) /\ q = ends[n] + p
  BY DEF Told, Story
<1>7. Moved(m, k, c, p)'
  BY <1>2, <1>3, <1>5, <1>6, ByteMoves
<1>8. ms[n + 1] = After(m, k)
  <2>1. \A i \in 0..K : ms[i] = NextMeant(keys, i, ms[i - 1])
    BY <1>2 DEF Story, Meant
  <2>2. n + 1 \in 0..K /\ (n + 1) - 1 = n /\ n + 1 # 0
    BY <1>2, <1>5
  <2> QED
    BY <2>1, <2>2 DEF NextMeant
<1>9. Story(keys, sent, ends, codes, ms)'
  BY <1>1, <1>2, StoryStays
<1>10. K' = K
  BY <1>1
<1>11. CASE p + 1 < b
  <2>1. Within(m, c, p + 1)'
    BY <1>7, <1>11 DEF Moved
  <2>2. p + 1 \in Nat /\ p + 1 # 0 /\ n < K /\ q + 1 = ends[n] + (p + 1)
    <3> HIDE DEF K, b
    <3>1. n \in Nat /\ K \in Nat /\ q = ends[n] + p
      BY <1>2, <1>5, <1>6 DEF Story, K
    <3> QED
      BY <1>2, <1>5, <3>1
  <2>3. Place(m, c, p + 1)'
    BY <2>1, <2>2 DEF Place
  <2>4. Told(sent, ends, codes, ms, q + 1, n, p + 1)'
    BY <1>1, <1>2, <1>3, <1>9, <1>11, <2>2, <2>3 DEF Told
  <2> QED
    BY <2>4
<1>12. CASE ~(p + 1 < b)
  <2>1. Between(ms[n + 1])'
    BY <1>7, <1>8, <1>12 DEF Moved
  <2>2. q + 1 = ends[n + 1] + 0 /\ n + 1 \in 0..K
    <3> HIDE DEF K, b
    <3>1. K \in Nat
      BY <1>2 DEF Story, K
    <3>2. p + 1 = b
      BY <1>2, <1>5, <1>12
    <3> QED
      BY <1>2, <1>5, <1>6, <3>1, <3>2
  <2>3. Place(ms[n + 1], codes[(n + 1) + 1], 0)'
    BY <2>1 DEF Place
  <2>4. Told(sent, ends, codes, ms, q + 1, n + 1, 0)'
    BY <1>1, <1>3, <1>9, <2>2, <2>3 DEF Told
  <2> QED
    BY <2>4
<1> QED
  BY <1>11, <1>12

LEMMA DecodedInit == TermInit => PipePlain /\ Decoded
<1> SUFFICES ASSUME TermInit PROVE PipePlain /\ Decoded
  OBVIOUS
<1>1. /\ keys = <<>> /\ arrived = <<>> /\ stdin = <<>> /\ reader = "idle" /\ results = <<>>
  BY DEF TermInit
<1>2. PICK ends, codes, ms :
        Story(<<>>, <<>>, ends, codes, ms) /\ ends[0] = 0 /\ ms[0] = Begun
  BY StoryBegins
<1>3. <<>> \in Seq(Sent) /\ Len(<<>>) = 0 /\ 0 \in 0..0 /\ 0 = 0 + 0 + 0 /\ 1..0 = {} /\ 0 = 0 + 0
  OBVIOUS
<1>4. Unread(<<>>, 0)
  BY <1>1, <1>3 DEF Unread
<1>5. Place(ms[0], codes[0 + 1], 0)
  BY <1>1, <1>2 DEF Place, Between, Begun
<1>6. Told(<<>>, ends, codes, ms, 0, 0, 0)
  BY <1>1, <1>2, <1>3, <1>4, <1>5 DEF Told
<1>7. PipePlain
  BY <1>1 DEF PipePlain
<1> QED
  BY <1>6, <1>7 DEF Decoded

LEMMA PipePlainStep == PipePlain /\ [TermNext]_termVars => PipePlain'
<1> SUFFICES ASSUME PipePlain, [TermNext]_termVars PROVE PipePlain'
  OBVIOUS
<1>1. CASE Press \/ HangUp \/ Fill
  BY <1>1 DEF Press, HangUp, Fill, PipePlain
<1>2. CASE ReadLine
  BY <1>2 DEF ReadLine, inputVars, PipePlain
<1>3. CASE EndOfInput
  BY <1>3 DEF EndOfInput, Return, inputVars, PipePlain
<1>4. CASE Control
  BY <1>4 DEF Control, Return, inputVars, PipePlain
<1>5. CASE PlainByte
  BY <1>5 DEF PlainByte, Return, inputVars, PipePlain
<1>6. CASE Edit \/ Escape \/ EscapeByte \/ CsiByte \/ PasteByte
  <2>1. speaks' = speaks /\ reader \notin {"idle", "plain"} /\ reader' # "plain"
    <3>1. reader \in {"reading", "escape", "csi", "paste"}
      BY <1>6 DEF Edit, Escape, EscapeByte, CsiByte, PasteByte
    <3>2. CASE Edit \/ Escape \/ EscapeByte
      BY <3>1, <3>2 DEF Edit, Escape, EscapeByte, inputVars
    <3>3. CASE CsiByte
      BY <3>1, <3>3 DEF CsiByte, inputVars
    <3>4. CASE PasteByte
      BY <3>1, <3>4 DEF PasteByte, inputVars
    <3> QED
      BY <1>6, <3>1, <3>2, <3>3, <3>4
  <2> QED
    BY <2>1 DEF PipePlain
<1>7. CASE UNCHANGED termVars
  BY <1>7 DEF termVars, inputVars, PipePlain
<1> QED
  BY <1>1, <1>2, <1>3, <1>4, <1>5, <1>6, <1>7 DEF TermNext

\* What is read stays where it was.
LEMMA StaysTold ==
  ASSUME NEW sent, NEW ends, NEW codes, NEW ms, NEW q, NEW n, NEW p,
         Told(sent, ends, codes, ms, q, n, p), Unread(sent, q)',
         UNCHANGED <<keys, speaks, reader, pending, buf, results>>
  PROVE  Told(sent, ends, codes, ms, q, n, p)'
<1>1. Story(keys, sent, ends, codes, ms)'
  BY StoryStays DEF Told
<1>2. Place(ms[n], codes[n + 1], p)'
  BY DEF Told, Place, Between, Within, InSequence
<1> QED
  BY <1>1, <1>2 DEF Told

LEMMA PressTold ==
  ASSUME Decodable(KeysOf), TInv, PipePlain, Press,
         NEW sent, NEW ends, NEW codes, NEW ms, NEW q, NEW n, NEW p,
         Told(sent, ends, codes, ms, q, n, p)
  PROVE  \E t, e, d, m : Told(t, e, d, m, q, n, p)'
<1>1. PICK k \in KeysOf[speaks] :
        /\ raw \/ k \in {"a", "enter"} \/ speaks = "pipe"
        /\ keys' = Append(keys, k) /\ arrived' = arrived \o Bytes(k)
  BY DEF Press
<1>2. /\ UNCHANGED <<speaks, stdin, reader, pending, buf, results>>
  BY DEF Press, lineVars
<1>3. speaks = "pipe" => ~raw
  BY DEF TInv, Reading, PipePlain
<1>4. PICK c : c = Bytes(k)
  OBVIOUS
<1>5. Sends(k, c) /\ c \in Seq(Sent)
  BY <1>1, <1>3, <1>4, PressSends, CodeType
<1>6. k \in Pressable
  BY <1>1 DEF Pressable, TInv, Reading
<1>7. /\ Story(keys, sent, ends, codes, ms) /\ Unread(sent, q)
      /\ n \in 0..Len(keys) /\ p \in Nat /\ q = ends[n] + p
  BY DEF Told
<1>8. PICK ks : ks = keys
  OBVIOUS
<1>9. PICK e, d, m : Longer(ks, k, sent, c, ends, codes, ms, e, d, m)
  BY <1>5, <1>6, <1>7, <1>8, StoryGrows
<1>10. Story(keys, sent \o c, e, d, m)'
  BY <1>1, <1>2, <1>8, <1>9, StoryStays DEF Longer
<1>11. Unread(sent \o c, q)'
  BY <1>1, <1>2, <1>4, <1>5, <1>7, PressUnread
<1>12. e[n] = ends[n] /\ m[n] = ms[n]
  BY <1>7, <1>8, <1>9 DEF Longer
<1>13. p # 0 => n < Len(keys) /\ p < Len(codes[n + 1]) /\ d[n + 1] = codes[n + 1]
  <2> SUFFICES ASSUME p # 0 PROVE n < Len(keys) /\ p < Len(codes[n + 1]) /\ d[n + 1] = codes[n + 1]
    OBVIOUS
  <2>1. n < Len(keys) /\ p < Len(codes[n + 1])
    BY DEF Told
  <2>2. n + 1 \in 1..Len(keys)
    BY <1>7, <2>1 DEF Story
  <2> QED
    BY <1>8, <1>9, <2>1, <2>2 DEF Longer
<1>14. Place(m[n], d[n + 1], p)'
  <2>1. CASE p = 0
    <3>1. Between(m[n])
      BY <1>12, <2>1 DEF Told, Place
    <3> QED
      BY <1>2, <2>1, <3>1 DEF Place, Between
  <2>2. CASE p # 0
    <3>1. Within(m[n], d[n + 1], p)
      BY <1>12, <1>13, <2>2 DEF Told, Place
    <3> QED
      BY <1>2, <2>2, <3>1 DEF Place, Within, InSequence
  <2> QED
    BY <2>1, <2>2
<1>15. Len(keys') = Len(keys) + 1 /\ n \in 0..Len(keys') /\ (n < Len(keys) => n < Len(keys'))
  <2>1. Len(keys') = Len(keys) + 1 /\ Len(keys) \in Nat
    BY <1>1, <1>7 DEF Story
  <2> QED
    BY <1>7, <2>1
<1>16. Told(sent \o c, e, d, m, q, n, p)'
  BY <1>7, <1>10, <1>11, <1>12, <1>13, <1>14, <1>15 DEF Told
<1> QED
  BY <1>16

LEMMA ReadLineTold ==
  ASSUME ReadLine, NEW sent, NEW ends, NEW codes, NEW ms, NEW q, NEW n, NEW p,
         Told(sent, ends, codes, ms, q, n, p)
  PROVE  Told(sent, ends, codes, ms, q, n, p)'
<1>1. /\ reader = "idle" /\ reader' \in {"reading", "plain"} /\ buf' = <<>>
      /\ UNCHANGED <<keys, speaks, arrived, stdin, results>>
  BY DEF ReadLine, inputVars
<1>2. p = 0
  BY <1>1 DEF Told, Place, Within, InSequence
<1>3. Place(ms[n], codes[n + 1], p)'
  BY <1>1, <1>2 DEF Told, Place, Between
<1>4. Story(keys, sent, ends, codes, ms)'
  BY <1>1, StoryStays DEF Told
<1>5. Unread(sent, q)'
  BY <1>1 DEF Told, Unread
<1> QED
  BY <1>1, <1>3, <1>4, <1>5 DEF Told

LEMMA DecodedStep ==
  Decodable(KeysOf) /\ TInv /\ PipePlain /\ Decoded /\ [TermNext]_termVars => Decoded'
<1> SUFFICES ASSUME Decodable(KeysOf), TInv, PipePlain, Decoded, [TermNext]_termVars, ~closed', ~garbled'
             PROVE  (\E sent, ends, codes, ms, q, n, p : Told(sent, ends, codes, ms, q, n, p))'
  BY DEF Decoded
<1>1. ~HangUp
  BY DEF HangUp
<1>2. ~EndOfInput
  BY DEF EndOfInput, AtEOF, inputVars
<1>3. ~closed
  BY <1>1, <1>2 DEF TermNext, termVars, inputVars, Press, ReadLine, Fill, Control, Edit, Escape,
     EscapeByte, CsiByte, PasteByte, PlainByte
<1>4. ~garbled
  <2>1. garbled' = garbled \/ Escape
    BY <1>1, <1>2 DEF TermNext, termVars, Press, ReadLine, Fill, Control, Edit,
       EscapeByte, CsiByte, PasteByte, PlainByte
  <2>2. Escape => ~garbled
    BY Zenon DEF Escape
  <2> QED
    BY <2>1, <2>2
<1>5. PICK sent, ends, codes, ms, q, n, p : Told(sent, ends, codes, ms, q, n, p)
  BY <1>3, <1>4 DEF Decoded
<1>6. CASE Press
  BY <1>5, <1>6, PressTold
<1>7. CASE ReadLine
  BY <1>5, <1>7, ReadLineTold
<1>8. CASE Fill
  <2>1. Unread(sent, q)'
    BY <1>5, <1>8, FillUnread DEF Told
  <2>2. UNCHANGED <<keys, speaks, reader, pending, buf, results>>
    BY <1>8 DEF Fill, lineVars
  <2> QED
    BY <1>5, <2>1, <2>2, StaysTold
<1>9. CASE ByteTaken
  BY <1>5, <1>9, ByteTold
<1>10. CASE UNCHANGED termVars
  <2>1. UNCHANGED <<keys, speaks, reader, pending, buf, results>> /\ UNCHANGED <<stdin, arrived>>
    BY <1>10 DEF termVars, inputVars, lineVars
  <2>2. Unread(sent, q)'
    BY <1>5, <2>1 DEF Told, Unread
  <2> QED
    BY <1>5, <2>1, <2>2, StaysTold
<1> QED
  BY <1>1, <1>2, <1>6, <1>7, <1>8, <1>9, <1>10 DEF TermNext, ByteTaken

LEMMA DecodedGives == Decoded => DecodesKeys
<1> SUFFICES ASSUME Decoded, Consumed, ~closed, ~garbled
             PROVE  /\ results = Meaning.done
                    /\ buf = Meaning.now \/ reader = "idle"
                    /\ reader \in {"idle", "reading", "plain"}
  BY DEF DecodesKeys
<1>1. PICK sent, ends, codes, ms, q, n, p : Told(sent, ends, codes, ms, q, n, p)
  BY DEF Decoded
<1>2. q = Len(sent) /\ Len(sent) \in Nat
  BY <1>1 DEF Told, Unread, Consumed
<1>3. n = Len(keys) /\ p = 0
  <2>1. n \in 0..Len(keys) /\ p \in Nat /\ q = ends[n] + p /\ Len(keys) \in Nat
    BY <1>1 DEF Told, Story
  <2>2. n = Len(keys)
    <3> SUFFICES ASSUME n # Len(keys) PROVE FALSE
      OBVIOUS
    <3> DEFINE b == Len(codes[n + 1])
               x == ends[n]
               y == ends[n + 1]
               l == Len(sent)
    <3>1. n + 1 \in 1..Len(keys) /\ (n + 1) - 1 = n /\ n + 1 \in 0..Len(keys)
      BY <2>1
    <3>2. Spelt(keys[n + 1], codes[n + 1], sent, x, y) /\ y \in 0..l
      <4>1. Spelt(keys[n + 1], codes[n + 1], sent, ends[(n + 1) - 1], y) /\ y \in 0..l
        BY <1>1, <3>1 DEF Told, Story
      <4> QED
        BY <3>1, <4>1
    <3>3. y = x + b /\ b \in Nat /\ b # 0
      <4>1. y = x + b /\ b \in 1..12
        BY <3>2, CodeType DEF Spelt
      <4> HIDE DEF b, x, y, l
      <4> QED
        BY <4>1
    <3>4. p # 0 => p < b
      BY <1>1 DEF Told
    <3>5. x \in Nat /\ q = x + p
      BY <1>1, <2>1 DEF Told, Story
    <3> HIDE DEF b, x, y, l
    <3>6. l = x + p /\ y <= l /\ l \in Nat
      BY <1>2, <3>2, <3>5 DEF l
    <3> QED
      BY <2>1, <3>3, <3>4, <3>5, <3>6
  <2>3. p = 0
    <3>1. p # 0 => n < Len(keys)
      BY <1>1 DEF Told
    <3> QED
      BY <2>1, <2>2, <3>1
  <2> QED
    BY <2>2, <2>3
<1>4. Between(ms[Len(keys)])
  BY <1>1, <1>3 DEF Told, Place
<1>5. Meaning = ms[Len(keys)]
  BY <1>1, StoryMeans DEF Told, Story
<1> QED
  BY <1>4, <1>5 DEF Between

\* Every terminal whose keys can be told apart is decoded: however the bytes of the
\* keys are cut into reads and spread over calls, and whatever the size of the
\* reader, the calls return the submissions the keys mean, and between two keys the
\* line is the one they mean.
THEOREM KeysAreDecoded ==
  ASSUME Decodable(KeysOf)
  PROVE  TermSpec => []DecodesKeys
<1>1. TInv /\ PipePlain /\ Decoded /\ [TermNext]_termVars => (PipePlain /\ Decoded)'
  BY PipePlainStep, DecodedStep
<1> QED
  BY TermInductive, DecodedInit, <1>1, DecodedGives, PTL DEF TermSpec
================================================================================
