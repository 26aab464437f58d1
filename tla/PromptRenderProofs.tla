-------------------------- MODULE PromptRenderProofs --------------------------
(***************************************************************************)
(* prompt.Render and RenderStrict for any templates and any params, in     *)
(* whatever order the params are visited: which calls render, what is      *)
(* reported as unbound, that the two renderings differ in white space      *)
(* only, and that values are not scanned again.                            *)
(***************************************************************************)
EXTENDS PromptRender, FiniteSetTheorems, SequenceTheorems, WellFoundedInduction,
        TLAPS

--------------------------------------------------------------------------------
LEMMA Least ==
  ASSUME NEW I \in SUBSET Nat, I # {}
  PROVE  \E m \in I : \A j \in I : m <= j
<1>1. PICK m \in I : \A j \in I : ~ (<<j, m>> \in OpToRel(<, Nat))
  BY NatLessThanWellFounded, WFMin, Zenon
<1>2. ASSUME NEW j \in I PROVE ~ (j < m)
  <2>1. <<j, m>> \in Nat \X Nat /\ <<j, m>>[1] = j /\ <<j, m>>[2] = m
    OBVIOUS
  <2> QED
    BY <1>1, <2>1, Zenon DEF OpToRel
<1>3. \A j \in I : m <= j
  BY <1>2
<1> QED
  BY <1>3

--------------------------------------------------------------------------------
(* The loop of leftovers.                                                  *)

\* The keys of s up to n, each once, when before holds those up to n - 1.
NextFirst(s, keys, n, before) ==
  IF n = 0 THEN <<>>
  ELSE IF s[n] \in keys \ Range(before) THEN Append(before, s[n])
  ELSE before

IsOrder(order, s, keys, n) == order = [m \in 0..n |-> NextFirst(s, keys, m, order[m - 1])]

LEMMA OrderExists ==
  ASSUME NEW s, NEW keys, NEW L \in Nat
  PROVE  \E order : IsOrder(order, s, keys, L)
<1> DEFINE Missing == {n \in Nat : ~ \E order : IsOrder(order, s, keys, n)}
<1> SUFFICES ASSUME Missing # {} PROVE FALSE
  OBVIOUS
<1>1. PICK n \in Missing : \A m \in Missing : n <= m
  <2> HIDE DEF Missing
  <2>1. Missing \in SUBSET Nat
    BY DEF Missing
  <2> QED
    BY <2>1, Least
<1>2. n \in Nat /\ ~ \E order : IsOrder(order, s, keys, n)
  OBVIOUS
<1>3. CASE n = 0
  <2> DEFINE k == [m \in 0..0 |-> <<>>]
  <2>1. \A m \in 0..0 : k[m] = NextFirst(s, keys, m, k[m - 1])
    BY DEF NextFirst
  <2>2. k = [m \in 0..0 |-> NextFirst(s, keys, m, k[m - 1])]
    BY <2>1
  <2> HIDE DEF k
  <2> QED
    BY <1>2, <1>3, <2>2 DEF IsOrder
<1>4. CASE n # 0
  <2>1. n - 1 \in Nat /\ ~(n <= n - 1)
    BY <1>2, <1>4
  <2>2. PICK k : IsOrder(k, s, keys, n - 1)
    BY <1>1, <2>1
  <2> DEFINE h == [m \in 0..n |-> IF m < n THEN k[m] ELSE NextFirst(s, keys, n, k[n - 1])]
  <2>3. ASSUME NEW m \in 0..n PROVE h[m] = NextFirst(s, keys, m, h[m - 1])
    <3>1. CASE m = 0
      <4>1. h[m] = k[0]
        BY <1>4, <3>1
      <4>2. k[0] = NextFirst(s, keys, 0, k[0 - 1])
        BY <2>1, <2>2 DEF IsOrder
      <4> QED
        BY <3>1, <4>1, <4>2 DEF NextFirst
    <3>2. CASE m # 0 /\ m < n
      <4>1. m \in 0..(n - 1) /\ m - 1 \in 0..n /\ m - 1 < n
        BY <1>2, <3>2
      <4>2. h[m] = k[m] /\ h[m - 1] = k[m - 1]
        BY <3>2, <4>1
      <4> QED
        BY <2>2, <4>1, <4>2 DEF IsOrder
    <3>3. CASE m = n
      <4>1. n - 1 \in 0..n /\ n - 1 < n /\ ~(m < n)
        BY <1>2, <2>1, <3>3
      <4> QED
        BY <3>3, <4>1
    <3> QED
      BY <1>2, <3>1, <3>2, <3>3
  <2>4. h = [m \in 0..n |-> NextFirst(s, keys, m, h[m - 1])]
    <3>1. h = [m \in 0..n |-> h[m]]
      OBVIOUS
    <3> HIDE DEF h
    <3> QED
      BY <2>3, <3>1
  <2> HIDE DEF h
  <2> QED
    BY <1>2, <2>4 DEF IsOrder
<1> QED
  BY <1>3, <1>4

\* What the loop has after the first n tokens of s.
FirstOf(u, s, keys, n) ==
  /\ u \in Seq(Range(s))
  /\ Range(u) = {s[a] : a \in 1..n} \cap keys
  /\ IsInjective(u)
  /\ \A i, j \in DOMAIN u : i < j => \E a \in 1..n : s[a] = u[i] /\ \A b \in 1..a : s[b] # u[j]

LEMMA FirstStep ==
  ASSUME NEW s, s \in Seq(Range(s)), NEW keys, NEW n \in 1..Len(s), NEW u,
         FirstOf(u, s, keys, n - 1)
  PROVE  FirstOf(NextFirst(s, keys, n, u), s, keys, n)
<1> DEFINE R == Range(s)
           x == s[n]
           w == NextFirst(s, keys, n, u)
           S(m) == {s[a] : a \in 1..m}
<1>1. n \in Nat /\ n # 0 /\ n \in DOMAIN s /\ x \in R /\ Len(s) \in Nat
  BY DEF Range
<1>2. S(n) = S(n - 1) \cup {x} /\ (1..(n - 1)) \subseteq 1..n
  <2>1. 1..n = (1..(n - 1)) \cup {n}
    BY <1>1
  <2> QED
    BY <2>1
<1>3. /\ u \in Seq(R) /\ Range(u) = S(n - 1) \cap keys /\ IsInjective(u)
      /\ \A i, j \in DOMAIN u : i < j =>
           \E a \in 1..(n - 1) : s[a] = u[i] /\ \A b \in 1..a : s[b] # u[j]
  BY DEF FirstOf
<1>4. CASE x \notin keys \ Range(u)
  <2>1. w = u
    BY <1>1, <1>4 DEF NextFirst
  <2>2. Range(u) = S(n) \cap keys
    BY <1>2, <1>3, <1>4
  <2>3. ASSUME NEW i \in DOMAIN u, NEW j \in DOMAIN u, i < j
        PROVE  \E a \in 1..n : s[a] = u[i] /\ \A b \in 1..a : s[b] # u[j]
    BY <1>2, <1>3, <2>3
  <2>4. FirstOf(u, s, keys, n)
    BY <1>3, <2>2, <2>3 DEF FirstOf
  <2> QED
    BY <2>1, <2>4
<1>5. CASE x \in keys \ Range(u)
  <2>1. w = Append(u, x)
    BY <1>1, <1>5 DEF NextFirst
  <2> DEFINE m == Len(u)
  <2>2. m \in Nat /\ DOMAIN u = 1..m
    BY <1>3
  <2> HIDE DEF R, S, x, w
  <2>3. /\ w \in Seq(R) /\ DOMAIN w = 1..(m + 1) /\ w[m + 1] = x
        /\ \A i \in 1..m : w[i] = u[i]
    BY <1>1, <1>3, <2>1
  <2> HIDE DEF m
  <2>4. \A i \in 1..(m + 1) : i \in 1..m \/ i = m + 1
    BY <2>2
  <2>5. Range(w) = Range(u) \cup {x}
    <3>1. m + 1 \in 1..(m + 1) /\ 1..m \subseteq 1..(m + 1)
      BY <2>2
    <3> QED
      BY <2>2, <2>3, <2>4, <3>1 DEF Range
  <2>6. Range(w) = S(n) \cap keys
    BY <1>2, <1>3, <1>5, <2>5
  <2>7. \A i \in 1..m : w[i] # x
    BY <1>5, <2>2, <2>3 DEF Range
  <2>8. IsInjective(w)
    <3>1. \A i, j \in 1..m : w[i] = w[j] => i = j
      BY <1>3, <2>2, <2>3 DEF IsInjective
    <3> QED
      BY <2>3, <2>4, <2>7, <3>1 DEF IsInjective
  <2>9. ASSUME NEW i \in DOMAIN w, NEW j \in DOMAIN w, i < j
        PROVE  \E a \in 1..n : s[a] = w[i] /\ \A b \in 1..a : s[b] # w[j]
    <3>1. i \in 1..m
      BY <2>2, <2>3, <2>9
    <3>2. CASE j \in 1..m
      <4>1. PICK a \in 1..(n - 1) : s[a] = u[i] /\ \A b \in 1..a : s[b] # u[j]
        BY <1>3, <2>2, <2>9, <3>1, <3>2
      <4>2. w[i] = u[i] /\ w[j] = u[j]
        BY <2>3, <3>1, <3>2
      <4> QED
        BY <1>2, <4>1, <4>2
    <3>3. CASE j = m + 1
      <4>1. w[i] \in Range(u) /\ w[i] = u[i] /\ w[j] = x
        BY <2>2, <2>3, <3>1, <3>3 DEF Range
      <4>2. PICK a \in 1..(n - 1) : s[a] = w[i]
        BY <1>3, <4>1 DEF S
      <4>3. x \notin S(n - 1)
        BY <1>3, <1>5
      <4>4. \A b \in 1..a : b \in 1..(n - 1)
        BY <1>1
      <4>5. \A b \in 1..a : s[b] # x
        BY <4>3, <4>4 DEF S
      <4> QED
        BY <1>2, <4>1, <4>2, <4>5
    <3> QED
      BY <2>3, <2>4, <3>2, <3>3
  <2> QED
    BY <2>3, <2>6, <2>8, <2>9 DEF FirstOf, w, S, R
<1> QED
  BY <1>4, <1>5

\* Where the loop is, after every prefix of the template.
LEMMA FirstAlways ==
  ASSUME NEW s, s \in Seq(Range(s)), NEW keys, NEW order, IsOrder(order, s, keys, Len(s))
  PROVE  \A n \in 0..Len(s) : FirstOf(order[n], s, keys, n)
<1>1. Len(s) \in Nat
  OBVIOUS
<1>2. \A n \in 0..Len(s) : order[n] = NextFirst(s, keys, n, order[n - 1])
  BY DEF IsOrder
<1> DEFINE Bad == {n \in 0..Len(s) : ~ FirstOf(order[n], s, keys, n)}
<1> SUFFICES ASSUME Bad # {} PROVE FALSE
  OBVIOUS
<1>3. PICK n \in Bad : \A m \in Bad : n <= m
  <2>1. Bad \in SUBSET Nat
    BY <1>1
  <2> HIDE DEF Bad
  <2> QED
    BY <2>1, Least
<1>4. n \in 0..Len(s) /\ ~ FirstOf(order[n], s, keys, n)
  OBVIOUS
<1>5. CASE n = 0
  <2>1. order[n] = <<>>
    BY <1>2, <1>4, <1>5 DEF NextFirst
  <2>2. FirstOf(<<>>, s, keys, 0)
    BY DEF FirstOf, Range, IsInjective
  <2> QED
    BY <1>4, <1>5, <2>1, <2>2
<1>6. CASE n # 0
  <2>1. n \in 1..Len(s) /\ n - 1 \in 0..Len(s) /\ ~(n <= n - 1)
    BY <1>1, <1>4, <1>6
  <2>2. FirstOf(order[n - 1], s, keys, n - 1)
    BY <1>3, <2>1
  <2>3. FirstOf(NextFirst(s, keys, n, order[n - 1]), s, keys, n)
    BY <2>1, <2>2, FirstStep
  <2> QED
    BY <1>2, <1>4, <2>3
<1> QED
  BY <1>5, <1>6

LEMMA LeftoversAre ==
  ASSUME tpl \in Seq(Range(tpl))
  PROVE  FirstOf(Leftovers, tpl, ValidKeys \ DOMAIN params, Len(tpl))
<1> DEFINE keys == ValidKeys \ DOMAIN params
           K == CHOOSE order : IsOrder(order, tpl, keys, Len(tpl))
<1>1. Len(tpl) \in Nat /\ Len(tpl) \in 0..Len(tpl)
  OBVIOUS
<1>2. IsOrder(K, tpl, keys, Len(tpl))
  BY <1>1, OrderExists
<1>3. Leftovers = K[Len(tpl)]
  BY DEF Leftovers, IsOrder, NextFirst
<1> HIDE DEF K, keys
<1> QED
  BY <1>1, <1>2, <1>3, FirstAlways DEF keys

--------------------------------------------------------------------------------
(* The call.                                                               *)

LEMMA OccursIs ==
  ASSUME NEW s, s \in Seq(Range(s)), NEW t
  PROVE  Occurrences(s, t) > 0 <=> Contains(s, t)
<1> DEFINE At == {i \in DOMAIN s : s[i] = t}
<1>1. DOMAIN s = 1..Len(s) /\ Len(s) \in Nat
  OBVIOUS
<1>2. IsFiniteSet(1..Len(s))
  BY <1>1, FS_Interval
<1>3. IsFiniteSet(At)
  BY <1>1, <1>2, FS_Subset
<1>4. Cardinality(At) \in Nat /\ (Cardinality(At) = 0 <=> At = {})
  BY <1>3, FS_CardinalityType, FS_EmptySet
<1>5. Cardinality(At) > 0 <=> At # {}
  <2> HIDE DEF At
  <2> QED
    BY <1>4
<1> QED
  BY <1>1, <1>5 DEF Occurrences, Places, Contains

\* A param the call can use.
Usable(k) ==
  /\ k \in ValidKeys /\ Occurrences(tpl, k) > 0
  /\ params[k].kind # "zero" /\ params[k].kind # "unencodable"

AllBound == \A i \in DOMAIN tpl : tpl[i] \in ValidKeys => tpl[i] \in DOMAIN params

Called ==
  /\ rendering \in {"idle", "encoding", "done"}
  /\ strict \in BOOLEAN
  /\ Plain(tpl)
  /\ \A k \in DOMAIN params : params[k].kind \in Kinds /\ Plain(params[k].value)
  /\ todo \subseteq DOMAIN params
  /\ rendering = "idle" => todo = {} /\ llmVals = <<>> /\ debugVals = <<>>

\* Every param visited is usable, and none is usable that ended the call.
Visits ==
  rendering # "idle" =>
    /\ \A k \in DOMAIN params \ todo : Usable(k)
    /\ rendering = "done" /\ todo # {} => \E k \in todo : ~Usable(k)

\* A visited param's two values.
Values ==
  rendering # "idle" =>
    /\ DOMAIN llmVals = DOMAIN params \ todo /\ DOMAIN debugVals = DOMAIN params \ todo
    /\ \A k \in DOMAIN params \ todo :
         /\ llmVals[k] = params[k].value
         /\ debugVals[k] = IF params[k].kind = "json" THEN Indented(params[k].value)
                           ELSE params[k].value

\* The result is written when every param was visited, and not before.
Results ==
  IF rendering = "done" /\ todo = {}
  THEN rendered = [ok |-> strict => Leftovers = <<>>,
                   llm |-> Substitute(tpl, llmVals),
                   debug |-> Substitute(tpl, debugVals),
                   unreplaced |-> Leftovers]
  ELSE rendered = NoResult

PInv == Called /\ Visits /\ Values /\ Results

LEMMA PInit == PromptInit => PInv
<1> SUFFICES ASSUME PromptInit PROVE PInv
  OBVIOUS
<1>1. Plain(<<>>) /\ DOMAIN <<>> = {}
  BY DEF Plain, Range
<1>2. /\ rendering = "idle" /\ tpl = <<>> /\ params = <<>> /\ strict = FALSE /\ todo = {}
      /\ llmVals = <<>> /\ debugVals = <<>> /\ rendered = NoResult
  BY DEF PromptInit
<1>3. Called
  BY <1>1, <1>2 DEF Called
<1>4. Visits /\ Values /\ Results
  BY <1>2 DEF Visits, Values, Results
<1> QED
  BY <1>3, <1>4 DEF PInv

LEMMA AcceptsIsUsable ==
  ASSUME Called, NEW k \in DOMAIN params
  PROVE  Accepts(k) <=> Usable(k)
<1>1. Occurrences(tpl, k) > 0 <=> Contains(tpl, k)
  BY OccursIs DEF Called, Plain
<1>2. params[k].kind \in Kinds
  BY DEF Called
<1> QED
  BY <1>1, <1>2 DEF Accepts, Usable, Kinds

LEMMA RenderKeeps == PInv /\ Render => PInv'
<1> SUFFICES ASSUME PInv, Render PROVE PInv'
  OBVIOUS
<1>1. /\ rendering = "idle" /\ rendering' = "encoding" /\ tpl' \in Templates
      /\ params' \in ParamMaps /\ strict' \in BOOLEAN /\ todo' = DOMAIN params'
      /\ llmVals' = llmVals /\ debugVals' = debugVals /\ rendered' = rendered
  BY DEF Render
<1>2. llmVals = <<>> /\ debugVals = <<>> /\ rendered = NoResult
  BY <1>1 DEF PInv, Called, Results
<1>3. Called'
  BY <1>1, PromptAssumption DEF Called
<1>4. Visits' /\ Values'
  BY <1>1, <1>2 DEF Visits, Values
<1>5. Results'
  BY <1>1, <1>2 DEF Results
<1> QED
  BY <1>3, <1>4, <1>5 DEF PInv

LEMMA EncodeKeeps == ASSUME NEW k \in todo PROVE PInv /\ EncodeParam(k) => PInv'
<1> SUFFICES ASSUME PInv, EncodeParam(k) PROVE PInv'
  OBVIOUS
<1>1. /\ rendering = "encoding" /\ tpl' = tpl /\ params' = params /\ strict' = strict
      /\ rendered' = rendered /\ k \in DOMAIN params /\ rendered = NoResult
  BY DEF EncodeParam, PInv, Called, Results
<1>2. Accepts(k) <=> Usable(k)
  BY <1>1, AcceptsIsUsable DEF PInv
<1>3. \A j : Usable(j)' <=> Usable(j)
  BY <1>1 DEF Usable
<1>4. CASE Accepts(k)
  <2>1. /\ todo' = todo \ {k} /\ rendering' = rendering
        /\ llmVals' = [j \in DOMAIN llmVals \cup {k} |-> params[j].value]
        /\ debugVals' = [j \in DOMAIN debugVals \cup {k} |->
                           IF params[j].kind = "json" THEN Indented(params[j].value)
                           ELSE params[j].value]
    BY <1>4 DEF EncodeParam
  <2>2. DOMAIN params' \ todo' = (DOMAIN params \ todo) \cup {k}
    BY <1>1, <2>1
  <2>3. Called'
    BY <1>1, <2>1 DEF PInv, Called
  <2>4. Visits'
    BY <1>1, <1>2, <1>3, <1>4, <2>1, <2>2 DEF PInv, Visits
  <2>5. DOMAIN llmVals = DOMAIN params \ todo /\ DOMAIN debugVals = DOMAIN params \ todo
    BY <1>1 DEF PInv, Values
  <2>6. Values'
    BY <1>1, <2>1, <2>2, <2>5 DEF Values
  <2>7. Results'
    BY <1>1, <2>1 DEF Results
  <2> QED
    BY <2>3, <2>4, <2>6, <2>7 DEF PInv
<1>5. CASE ~Accepts(k)
  <2>1. rendering' = "done" /\ todo' = todo /\ llmVals' = llmVals /\ debugVals' = debugVals
    BY <1>5 DEF EncodeParam
  <2>2. Called'
    BY <1>1, <2>1 DEF PInv, Called
  <2>3. Visits'
    BY <1>1, <1>2, <1>3, <1>5, <2>1 DEF PInv, Visits
  <2>4. Values'
    BY <1>1, <2>1 DEF PInv, Values
  <2>5. Results'
    BY <1>1, <2>1 DEF Results
  <2> QED
    BY <2>2, <2>3, <2>4, <2>5 DEF PInv
<1> QED
  BY <1>4, <1>5

LEMMA FinishKeeps == PInv /\ Finish => PInv'
<1> SUFFICES ASSUME PInv, Finish PROVE PInv'
  OBVIOUS
<1>1. /\ rendering = "encoding" /\ todo = {} /\ rendering' = "done"
      /\ tpl' = tpl /\ params' = params /\ strict' = strict /\ todo' = todo
      /\ llmVals' = llmVals /\ debugVals' = debugVals
  BY DEF Finish
<1>2. Called' /\ Values'
  BY <1>1 DEF PInv, Called, Values
<1>3. Visits'
  BY <1>1 DEF PInv, Visits, Usable
<1>4. Leftovers' = Leftovers
  BY <1>1 DEF Leftovers
<1>5. Results'
  BY <1>1, <1>4 DEF Results, Finish
<1> QED
  BY <1>2, <1>3, <1>5 DEF PInv

LEMMA PNext == PInv /\ [PromptNext]_promptVars => PInv'
<1> SUFFICES ASSUME PInv, [PromptNext]_promptVars PROVE PInv'
  OBVIOUS
<1>1. CASE UNCHANGED promptVars
  BY <1>1 DEF promptVars, PInv, Called, Visits, Usable, Values, Results, Leftovers
<1>2. CASE PromptNext
  BY <1>2, RenderKeeps, EncodeKeeps, FinishKeeps DEF PromptNext
<1> QED
  BY <1>1, <1>2

\* The invariant of the call holds always.
THEOREM PromptInductive == PromptSpec => []PInv
BY PInit, PNext, PTL DEF PromptSpec

--------------------------------------------------------------------------------
(* Which calls render, and what is unbound.                                *)

LEMMA UnboundIs ==
  ASSUME PInv
  PROVE  Leftovers = <<>> <=> AllBound
<1> DEFINE L == Leftovers
           keys == ValidKeys \ DOMAIN params
<1>1. tpl \in Seq(Range(tpl)) /\ DOMAIN tpl = 1..Len(tpl)
  BY DEF PInv, Called, Plain
<1>2. FirstOf(L, tpl, keys, Len(tpl))
  BY <1>1, LeftoversAre
<1> HIDE DEF L, keys
<1>3. L \in Seq(Range(tpl)) /\ Range(L) = {tpl[a] : a \in 1..Len(tpl)} \cap keys
  BY <1>2 DEF FirstOf
<1>4. L = <<>> <=> Range(L) = {}
  <2>1. DOMAIN L = 1..Len(L) /\ Len(L) \in Nat
    BY <1>3
  <2>2. Len(L) = 0 <=> L = <<>>
    BY <1>3
  <2>3. 1..Len(L) = {} <=> Len(L) = 0
    BY <2>1
  <2>4. DOMAIN L = {} <=> Range(L) = {}
    BY DEF Range
  <2> QED
    BY <2>1, <2>2, <2>3, <2>4
<1>5. Range(L) = {} <=> AllBound
  BY <1>1, <1>3 DEF AllBound, keys
<1> QED
  BY <1>4, <1>5 DEF L

LEMMA VerdictHolds == PInv => VerdictIsOrderless
<1> SUFFICES ASSUME PInv, rendering = "done" PROVE VerdictIsOrderless
  BY DEF VerdictIsOrderless
<1>1. Rendered <=> todo = {}
  BY DEF Rendered
<1>2. Rendered <=> \A k \in DOMAIN params : Usable(k)
  BY <1>1 DEF PInv, Visits, Called
<1>3. Rendered => rendered.ok = (strict => Leftovers = <<>>)
  BY <1>1 DEF PInv, Results
<1>4. ~Rendered => rendered = NoResult
  BY <1>1 DEF PInv, Results
<1>5. ~Rendered => rendered.ok = FALSE
  BY <1>4 DEF NoResult
<1>6. rendered.ok <=> Rendered /\ (strict => AllBound)
  BY <1>3, <1>5, UnboundIs
<1> QED
  BY <1>2, <1>4, <1>6 DEF VerdictIsOrderless, Usable, AllBound

\* Render's verdict does not depend on the order in which the map hands out its
\* params: it renders just when each is usable, RenderStrict fails besides when a
\* placeholder of the template has no param, and only that error comes with the
\* renderings.
THEOREM VerdictByParams == PromptSpec => []VerdictIsOrderless
BY PromptInductive, VerdictHolds, PTL

LEMMA LeftoversHold == PInv => LeftoversAreTemplates
<1> SUFFICES ASSUME PInv, Rendered PROVE LeftoversAreTemplates
  BY DEF LeftoversAreTemplates
<1> DEFINE L == Leftovers
           keys == ValidKeys \ DOMAIN params
<1>1. tpl \in Seq(Range(tpl)) /\ DOMAIN tpl = 1..Len(tpl)
  BY DEF PInv, Called, Plain
<1>2. FirstOf(L, tpl, keys, Len(tpl))
  BY <1>1, LeftoversAre
<1>3. rendered.unreplaced = L
  BY DEF PInv, Results, Rendered
<1> HIDE DEF L
<1>4. Range(L) = (Range(tpl) \cap ValidKeys) \ DOMAIN params
  BY <1>1, <1>2 DEF FirstOf, Range
<1>5. /\ IsInjective(L)
      /\ \A i, j \in DOMAIN L : i < j =>
           \E a \in DOMAIN tpl : tpl[a] = L[i] /\ \A b \in 1..a : tpl[b] # L[j]
  BY <1>1, <1>2 DEF FirstOf
<1> QED
  BY <1>3, <1>4, <1>5 DEF LeftoversAreTemplates

\* Unreplaced has the template's placeholders that no param binds and nothing
\* else, each once, in the order of their first occurrence.
THEOREM UnreplacedIsExact == PromptSpec => []LeftoversAreTemplates
BY PromptInductive, LeftoversHold, PTL

--------------------------------------------------------------------------------
(* Sequences joined, and joined without their white space.                 *)

NextJoined(F, n, before) == IF n = 1 THEN F[n] ELSE before \o F[n]

IsJoined(joined, F, n) == joined = [m \in 1..n |-> NextJoined(F, m, joined[m - 1])]

LEMMA JoinedExists ==
  ASSUME NEW F, NEW L \in Nat, L # 0
  PROVE  \E joined : IsJoined(joined, F, L)
<1> DEFINE Missing == {n \in Nat \ {0} : ~ \E joined : IsJoined(joined, F, n)}
<1> SUFFICES ASSUME Missing # {} PROVE FALSE
  OBVIOUS
<1>1. PICK n \in Missing : \A m \in Missing : n <= m
  <2> HIDE DEF Missing
  <2>1. Missing \in SUBSET Nat
    BY DEF Missing
  <2> QED
    BY <2>1, Least
<1>2. n \in Nat /\ n # 0 /\ ~ \E joined : IsJoined(joined, F, n)
  OBVIOUS
<1>3. CASE n = 1
  <2> DEFINE k == [m \in 1..1 |-> F[m]]
  <2>1. \A m \in 1..1 : k[m] = NextJoined(F, m, k[m - 1])
    BY DEF NextJoined
  <2>2. k = [m \in 1..1 |-> NextJoined(F, m, k[m - 1])]
    BY <2>1
  <2> HIDE DEF k
  <2> QED
    BY <1>2, <1>3, <2>2 DEF IsJoined
<1>4. CASE n # 1
  <2>1. n - 1 \in Nat /\ n - 1 # 0 /\ ~(n <= n - 1)
    BY <1>2, <1>4
  <2>2. PICK k : IsJoined(k, F, n - 1)
    BY <1>1, <2>1
  <2> DEFINE h == [m \in 1..n |-> IF m < n THEN k[m] ELSE NextJoined(F, n, k[n - 1])]
  <2>3. ASSUME NEW m \in 1..n PROVE h[m] = NextJoined(F, m, h[m - 1])
    <3>1. CASE m = 1
      <4>1. h[m] = k[1]
        BY <1>2, <1>4, <3>1
      <4>2. k[1] = NextJoined(F, 1, k[1 - 1])
        BY <2>1, <2>2 DEF IsJoined
      <4> QED
        BY <3>1, <4>1, <4>2 DEF NextJoined
    <3>2. CASE m # 1 /\ m < n
      <4>1. m \in 1..(n - 1) /\ m - 1 \in 1..n /\ m - 1 < n
        BY <1>2, <3>2
      <4>2. h[m] = k[m] /\ h[m - 1] = k[m - 1]
        BY <3>2, <4>1
      <4> QED
        BY <2>2, <4>1, <4>2 DEF IsJoined
    <3>3. CASE m = n
      <4>1. n - 1 \in 1..n /\ n - 1 < n /\ ~(m < n)
        BY <1>2, <2>1, <3>3
      <4> QED
        BY <3>3, <4>1
    <3> QED
      BY <1>2, <3>1, <3>2, <3>3
  <2>4. h = [m \in 1..n |-> NextJoined(F, m, h[m - 1])]
    <3>1. h = [m \in 1..n |-> h[m]]
      OBVIOUS
    <3> HIDE DEF h
    <3> QED
      BY <2>3, <3>1
  <2> HIDE DEF h
  <2> QED
    BY <1>2, <2>4 DEF IsJoined
<1> QED
  BY <1>3, <1>4

LEMMA JoinedIs ==
  ASSUME NEW T, NEW F \in Seq(Seq(T)), F # <<>>
  PROVE  \E joined : IsJoined(joined, F, Len(F)) /\ FlattenSeq(F) = joined[Len(F)]
<1> DEFINE K == CHOOSE joined : IsJoined(joined, F, Len(F))
<1>1. Len(F) \in Nat /\ Len(F) # 0
  OBVIOUS
<1>2. IsJoined(K, F, Len(F))
  BY <1>1, JoinedExists
<1>3. FlattenSeq(F) = K[Len(F)]
  BY <1>1 DEF FlattenSeq, IsJoined, NextJoined
<1> HIDE DEF K
<1> QED
  BY <1>2, <1>3

SameTo(f, h, m) == \A i \in 1..m : f[i] = h[i]

\* What is joined does not depend on what comes later.
LEMMA JoinedAgree ==
  ASSUME NEW F, NEW H, NEW m \in Nat, NEW f, NEW h, NEW k \in Nat, NEW l \in Nat,
         IsJoined(f, F, k), IsJoined(h, H, l), m <= k, m <= l, SameTo(F, H, m)
  PROVE  SameTo(f, h, m)
<1> DEFINE Bad == {i \in 1..m : f[i] # h[i]}
<1> SUFFICES ASSUME Bad # {} PROVE FALSE
  BY DEF SameTo
<1>1. PICK n \in Bad : \A i \in Bad : n <= i
  <2>1. Bad \in SUBSET Nat
    OBVIOUS
  <2> HIDE DEF Bad
  <2> QED
    BY <2>1, Least
<1>2. n \in 1..m /\ f[n] # h[n]
  OBVIOUS
<1>3. n \in 1..k /\ n \in 1..l /\ F[n] = H[n]
  BY <1>2 DEF SameTo
<1>4. f[n] = NextJoined(F, n, f[n - 1]) /\ h[n] = NextJoined(H, n, h[n - 1])
  BY <1>3 DEF IsJoined
<1>5. CASE n = 1
  BY <1>2, <1>3, <1>4, <1>5 DEF NextJoined
<1>6. CASE n # 1
  <2>1. n - 1 \in 1..m /\ ~(n <= n - 1)
    BY <1>2, <1>6
  <2>2. f[n - 1] = h[n - 1]
    BY <1>1, <2>1
  <2> QED
    BY <1>2, <1>3, <1>4, <2>2 DEF NextJoined
<1> QED
  BY <1>5, <1>6

LEMMA JoinedNone == FlattenSeq(<<>>) = <<>>
BY DEF FlattenSeq

LEMMA JoinedMore ==
  ASSUME NEW T, NEW F \in Seq(Seq(T)), NEW x \in Seq(T)
  PROVE  FlattenSeq(Append(F, x)) = FlattenSeq(F) \o x
<1> DEFINE G == Append(F, x)
           n == Len(F)
<1>1. /\ G \in Seq(Seq(T)) /\ G # <<>> /\ Len(G) = n + 1 /\ n \in Nat /\ G[n + 1] = x
      /\ \A i \in 1..n : F[i] = G[i]
  <2> DEFINE S == Seq(T)
  <2>1. F \in Seq(S) /\ x \in S
    OBVIOUS
  <2> HIDE DEF S
  <2>2. G \in Seq(S) /\ Len(G) = n + 1 /\ n \in Nat /\ G[n + 1] = x
    BY <2>1
  <2>3. \A i \in 1..n : F[i] = G[i]
    BY <2>1
  <2>4. G # <<>>
    <3>1. Len(<<>>) = 0
      OBVIOUS
    <3> HIDE DEF G, n
    <3> QED
      BY <2>2, <3>1
  <2> HIDE DEF G, n
  <2> QED
    BY <2>2, <2>3, <2>4 DEF S
<1> HIDE DEF G
<1>2. PICK g : IsJoined(g, G, n + 1) /\ FlattenSeq(G) = g[n + 1]
  BY <1>1, JoinedIs
<1>3. g[n + 1] = NextJoined(G, n + 1, g[n])
  <2>1. n + 1 \in 1..(n + 1) /\ (n + 1) - 1 = n
    BY <1>1
  <2> HIDE DEF n
  <2> QED
    BY <1>2, <2>1 DEF IsJoined
<1>4. CASE F = <<>>
  <2>1. FlattenSeq(G) = x
    BY <1>1, <1>2, <1>3, <1>4 DEF NextJoined
  <2>2. <<>> \o x = x
    OBVIOUS
  <2> QED
    BY <1>4, <2>1, <2>2, JoinedNone DEF G
<1>5. CASE F # <<>>
  <2>1. PICK f : IsJoined(f, F, n) /\ FlattenSeq(F) = f[n]
    BY <1>5, JoinedIs
  <2>2. n # 0 /\ n \in 1..n
    BY <1>1, <1>5
  <2> HIDE DEF n
  <2>3. n \in Nat /\ n + 1 \in Nat /\ n <= n + 1 /\ n <= n
    BY <1>1
  <2> DEFINE l == n + 1
  <2>4. SameTo(f, g, n)
    <3>1. IsJoined(f, F, n) /\ IsJoined(g, G, l) /\ l \in Nat /\ n <= l
      BY <1>2, <2>1, <2>3
    <3>2. SameTo(F, G, n)
      BY <1>1 DEF SameTo
    <3> HIDE DEF l
    <3> QED
      BY <2>3, <3>1, <3>2, JoinedAgree
  <2>5. FlattenSeq(G) = g[n] \o x
    BY <1>1, <1>2, <1>3, <2>2 DEF NextJoined
  <2> QED
    BY <2>1, <2>2, <2>4, <2>5 DEF G, SameTo
<1> QED
  BY <1>4, <1>5

\* A sequence that is not empty is a shorter one with something after it.
LEMMA LastOff ==
  ASSUME NEW T, NEW s \in Seq(T), s # <<>>
  PROVE  \E r \in Seq(T) : \E x \in T : s = Append(r, x) /\ Len(r) < Len(s) /\ Len(r) \in Nat
<1> DEFINE n == Len(s)
           r == [i \in 1..(n - 1) |-> s[i]]
<1>1. n \in Nat /\ n # 0 /\ s[n] \in T
  OBVIOUS
<1>2. r \in Seq(T) /\ Len(r) = n - 1
  BY <1>1
<1>3. s = Append(r, s[n])
  BY <1>1, <1>2
<1> HIDE DEF r, n
<1>4. Len(r) < n /\ Len(r) \in Nat
  BY <1>1, <1>2
<1> QED
  BY <1>1, <1>2, <1>3, <1>4 DEF n

LEMMA JoinedType ==
  ASSUME NEW T
  PROVE  \A F \in Seq(Seq(T)) : FlattenSeq(F) \in Seq(T)
<1> DEFINE Bad == {n \in Nat : \E F \in Seq(Seq(T)) : Len(F) = n /\ FlattenSeq(F) \notin Seq(T)}
<1> SUFFICES ASSUME NEW E \in Seq(Seq(T)), FlattenSeq(E) \notin Seq(T) PROVE FALSE
  OBVIOUS
<1>1. Bad # {}
  <2>1. Len(E) \in Nat
    OBVIOUS
  <2> QED
    BY <2>1
<1>2. PICK n \in Bad : \A m \in Bad : n <= m
  <2> HIDE DEF Bad
  <2>1. Bad \in SUBSET Nat
    BY DEF Bad
  <2> QED
    BY <1>1, <2>1, Least
<1>3. PICK F \in Seq(Seq(T)) : Len(F) = n /\ FlattenSeq(F) \notin Seq(T)
  OBVIOUS
<1>4. F # <<>>
  BY <1>3, JoinedNone
<1>5. PICK r \in Seq(Seq(T)), x \in Seq(T) : F = Append(r, x) /\ Len(r) < Len(F) /\ Len(r) \in Nat
  BY <1>4, LastOff
<1>6. Len(r) \notin Bad
  <2>1. n \in Nat
    OBVIOUS
  <2> HIDE DEF Bad
  <2> QED
    BY <1>2, <1>3, <1>5, <2>1
<1>7. FlattenSeq(r) \in Seq(T)
  BY <1>5, <1>6
<1>8. FlattenSeq(F) = FlattenSeq(r) \o x
  BY <1>5, JoinedMore
<1> QED
  BY <1>3, <1>7, <1>8

--------------------------------------------------------------------------------
(* The two renderings.                                                     *)

Piece(t) == IF t = "ws" THEN <<>> ELSE <<t>>
Pieces(s) == [i \in DOMAIN s |-> Piece(s[i])]

LEMMA PiecesType ==
  ASSUME NEW T, NEW s \in Seq(T)
  PROVE  Pieces(s) \in Seq(Seq(T)) /\ Len(Pieces(s)) = Len(s)
<1>1. \A t \in T : Piece(t) \in Seq(T)
  BY DEF Piece
<1>2. DOMAIN s = 1..Len(s) /\ Len(s) \in Nat /\ \A i \in 1..Len(s) : s[i] \in T
  OBVIOUS
<1> DEFINE S == Seq(T)
<1>3. \A i \in 1..Len(s) : Piece(s[i]) \in S
  BY <1>1, <1>2
<1> HIDE DEF S
<1>4. Pieces(s) \in Seq(S) /\ Len(Pieces(s)) = Len(s)
  BY <1>2, <1>3 DEF Pieces
<1> QED
  BY <1>4 DEF S

LEMMA WithoutType ==
  ASSUME NEW T, NEW s \in Seq(T)
  PROVE  WithoutSpace(s) = FlattenSeq(Pieces(s)) /\ WithoutSpace(s) \in Seq(T)
<1>1. WithoutSpace(s) = FlattenSeq(Pieces(s))
  BY DEF WithoutSpace, Pieces, Piece
<1> QED
  BY <1>1, PiecesType, JoinedType

LEMMA WithoutNone == WithoutSpace(<<>>) = <<>>
<1>1. WithoutSpace(<<>>) = FlattenSeq(Pieces(<<>>))
  BY DEF WithoutSpace, Pieces, Piece
<1>2. Pieces(<<>>) = <<>>
  BY DEF Pieces
<1> QED
  BY <1>1, <1>2, JoinedNone

LEMMA WithoutMore ==
  ASSUME NEW T, NEW s \in Seq(T), NEW t \in T
  PROVE  WithoutSpace(Append(s, t)) = WithoutSpace(s) \o Piece(t)
<1> DEFINE a == Append(s, t)
           n == Len(s)
<1>1. /\ a \in Seq(T) /\ DOMAIN a = 1..(n + 1) /\ DOMAIN s = 1..n /\ n \in Nat
      /\ a[n + 1] = t /\ \A i \in 1..n : a[i] = s[i]
  OBVIOUS
<1> HIDE DEF a
<1> DEFINE P == Pieces(s)
           Q == Pieces(a)
           S == Seq(T)
<1>2. P \in Seq(S) /\ Len(P) = n /\ Piece(t) \in S /\ Q \in Seq(S) /\ Len(Q) = n + 1
  <2>1. Len(a) = n + 1
    BY DEF a
  <2>2. Piece(t) \in S
    BY DEF Piece
  <2> QED
    BY <1>1, <2>1, <2>2, PiecesType
<1>3. \A i \in 1..n : Q[i] = P[i]
  <2>1. \A i \in 1..n : i \in 1..(n + 1)
    BY <1>1
  <2> QED
    BY <1>1, <2>1 DEF Pieces
<1>4. Q[n + 1] = Piece(t)
  <2>1. n + 1 \in 1..(n + 1)
    BY <1>1
  <2> QED
    BY <1>1, <2>1 DEF Pieces
<1> DEFINE x == Piece(t)
<1>5. FlattenSeq(Q) = FlattenSeq(P) \o x
  <2> HIDE DEF P, Q, x, n
  <2>1. Q = Append(P, x)
    <3> HIDE DEF S
    <3> QED
      BY <1>1, <1>2, <1>3, <1>4 DEF x
  <2> QED
    BY <1>2, <2>1, JoinedMore DEF x
<1> QED
  BY <1>1, <1>5, WithoutType DEF a

LEMMA WithoutAssociates ==
  ASSUME NEW T, NEW a \in Seq(T), NEW r \in Seq(T), NEW x \in T
  PROVE  (WithoutSpace(a) \o WithoutSpace(r)) \o Piece(x)
           = WithoutSpace(a) \o (WithoutSpace(r) \o Piece(x))
<1>1. WithoutSpace(a) \in Seq(T) /\ WithoutSpace(r) \in Seq(T) /\ Piece(x) \in Seq(T)
  BY WithoutType DEF Piece
<1> QED
  BY <1>1, ConcatAssociative, SMTT(120)

LEMMA WithoutJoin ==
  ASSUME NEW T, NEW a \in Seq(T)
  PROVE  \A b \in Seq(T) : WithoutSpace(a \o b) = WithoutSpace(a) \o WithoutSpace(b)
<1> DEFINE Ok(b) == WithoutSpace(a \o b) = WithoutSpace(a) \o WithoutSpace(b)
           Bad == {n \in Nat : \E b \in Seq(T) : Len(b) = n /\ ~Ok(b)}
<1> SUFFICES ASSUME NEW e \in Seq(T), ~Ok(e) PROVE FALSE
  OBVIOUS
<1>1. Bad # {}
  <2>1. Len(e) \in Nat
    OBVIOUS
  <2> HIDE DEF Ok
  <2> QED
    BY <2>1
<1>2. PICK n \in Bad : \A m \in Bad : n <= m
  <2> HIDE DEF Bad
  <2>1. Bad \in SUBSET Nat
    BY DEF Bad
  <2> QED
    BY <1>1, <2>1, Least
<1>3. PICK b \in Seq(T) : Len(b) = n /\ ~Ok(b)
  <2> HIDE DEF Ok
  <2> QED
    OBVIOUS
<1>4. b # <<>>
  <2>1. a \o <<>> = a
    OBVIOUS
  <2>2. WithoutSpace(a) \o <<>> = WithoutSpace(a)
    <3> DEFINE w == WithoutSpace(a)
    <3>1. w \in Seq(T)
      BY WithoutType
    <3> HIDE DEF w
    <3>2. w \o <<>> = w
      BY <3>1
    <3> QED
      BY <3>2 DEF w
  <2>3. Ok(<<>>)
    BY <2>1, <2>2, WithoutNone
  <2> HIDE DEF Ok
  <2> QED
    BY <1>3, <2>3
<1>5. PICK r \in Seq(T), x \in T : b = Append(r, x) /\ Len(r) < Len(b) /\ Len(r) \in Nat
  BY <1>4, LastOff
<1>6. Len(r) \notin Bad
  <2>1. n \in Nat
    OBVIOUS
  <2> HIDE DEF Bad
  <2> QED
    BY <1>2, <1>3, <1>5, <2>1
<1>7. Ok(r)
  <2> HIDE DEF Ok
  <2> QED
    BY <1>5, <1>6
<1>8. a \o b = Append(a \o r, x) /\ a \o r \in Seq(T)
  BY <1>5
<1>9. WithoutSpace(a \o b) = WithoutSpace(a \o r) \o Piece(x)
  BY <1>8, WithoutMore
<1>10. WithoutSpace(b) = WithoutSpace(r) \o Piece(x)
  BY <1>5, WithoutMore
<1>11. (WithoutSpace(a) \o WithoutSpace(r)) \o Piece(x)
         = WithoutSpace(a) \o (WithoutSpace(r) \o Piece(x))
  BY WithoutAssociates
<1> QED
  BY <1>3, <1>7, <1>9, <1>10, <1>11

LEMMA WithoutPlain ==
  ASSUME NEW T, "ws" \notin T
  PROVE  \A s \in Seq(T) : WithoutSpace(s) = s
<1> DEFINE Bad == {n \in Nat : \E s \in Seq(T) : Len(s) = n /\ WithoutSpace(s) # s}
<1> SUFFICES ASSUME NEW e \in Seq(T), WithoutSpace(e) # e PROVE FALSE
  OBVIOUS
<1>1. Bad # {}
  <2>1. Len(e) \in Nat
    OBVIOUS
  <2> QED
    BY <2>1
<1>2. PICK n \in Bad : \A m \in Bad : n <= m
  <2> HIDE DEF Bad
  <2>1. Bad \in SUBSET Nat
    BY DEF Bad
  <2> QED
    BY <1>1, <2>1, Least
<1>3. PICK s \in Seq(T) : Len(s) = n /\ WithoutSpace(s) # s
  OBVIOUS
<1>4. s # <<>>
  BY <1>3, WithoutNone
<1>5. PICK r \in Seq(T), x \in T : s = Append(r, x) /\ Len(r) < Len(s) /\ Len(r) \in Nat
  BY <1>4, LastOff
<1>6. Len(r) \notin Bad
  <2>1. n \in Nat
    OBVIOUS
  <2> HIDE DEF Bad
  <2> QED
    BY <1>2, <1>3, <1>5, <2>1
<1>7. WithoutSpace(r) = r
  BY <1>5, <1>6
<1>8. WithoutSpace(s) = r \o Piece(x)
  BY <1>5, <1>7, WithoutMore
<1>9. Piece(x) = <<x>>
  BY DEF Piece
<1>10. r \o <<x>> = Append(r, x)
  OBVIOUS
<1> QED
  BY <1>3, <1>5, <1>8, <1>9, <1>10

\* White space taken out of each part is taken out of the whole.
LEMMA WithoutEach ==
  ASSUME NEW T
  PROVE  \A F, G \in Seq(Seq(T)) :
           Len(F) = Len(G) /\ (\A i \in 1..Len(F) : WithoutSpace(F[i]) = G[i])
             => WithoutSpace(FlattenSeq(F)) = FlattenSeq(G)
<1> DEFINE Match(F, G) == Len(F) = Len(G) /\ \A i \in 1..Len(F) : WithoutSpace(F[i]) = G[i]
           Ok(F, G) == WithoutSpace(FlattenSeq(F)) = FlattenSeq(G)
           Bad == {n \in Nat : \E F, G \in Seq(Seq(T)) : Len(F) = n /\ Match(F, G) /\ ~Ok(F, G)}
<1> SUFFICES ASSUME NEW D \in Seq(Seq(T)), NEW E \in Seq(Seq(T)), Match(D, E), ~Ok(D, E)
             PROVE  FALSE
  OBVIOUS
<1>1. Bad # {}
  <2>1. Len(D) \in Nat
    OBVIOUS
  <2> HIDE DEF Ok, Match
  <2> QED
    BY <2>1
<1>2. PICK n \in Bad : \A m \in Bad : n <= m
  <2> HIDE DEF Bad
  <2>1. Bad \in SUBSET Nat
    BY DEF Bad
  <2> QED
    BY <1>1, <2>1, Least
<1>3. PICK F \in Seq(Seq(T)), G \in Seq(Seq(T)) : Len(F) = n /\ Match(F, G) /\ ~Ok(F, G)
  <2> HIDE DEF Ok, Match
  <2> QED
    OBVIOUS
<1>4. F # <<>> /\ G # <<>>
  <2>1. F = <<>> <=> G = <<>>
    BY <1>3
  <2>2. Ok(<<>>, <<>>)
    BY JoinedNone, WithoutNone
  <2> HIDE DEF Ok
  <2> QED
    BY <1>3, <2>1, <2>2
<1>5. PICK p \in Seq(Seq(T)), x \in Seq(T) : F = Append(p, x) /\ Len(p) < Len(F) /\ Len(p) \in Nat
  BY <1>4, LastOff
<1>6. PICK q \in Seq(Seq(T)), y \in Seq(T) : G = Append(q, y) /\ Len(q) < Len(G) /\ Len(q) \in Nat
  BY <1>4, LastOff
<1>7. Match(p, q) /\ WithoutSpace(x) = y
  <2> DEFINE S == Seq(T)
             m == Len(p)
  <2>1. p \in Seq(S) /\ q \in Seq(S) /\ x \in S /\ y \in S /\ m \in Nat
    BY <1>5
  <2> HIDE DEF S
  <2>2. Len(F) = m + 1 /\ Len(G) = Len(q) + 1
    BY <1>5, <1>6, <2>1
  <2>3. Len(q) = m
    BY <1>3, <1>6, <2>1, <2>2
  <2>4. F[m + 1] = x /\ G[m + 1] = y /\ \A i \in 1..m : F[i] = p[i] /\ G[i] = q[i]
    BY <1>5, <1>6, <2>1, <2>3
  <2> HIDE DEF m
  <2>5. m + 1 \in 1..(m + 1) /\ \A i \in 1..m : i \in 1..(m + 1)
    BY <2>1
  <2>6. \A i \in 1..(m + 1) : WithoutSpace(F[i]) = G[i]
    BY <1>3, <2>2
  <2>7. WithoutSpace(x) = y
    BY <2>4, <2>5, <2>6
  <2>8. \A i \in 1..m : WithoutSpace(p[i]) = q[i]
    BY <2>4, <2>5, <2>6
  <2> QED
    BY <2>3, <2>7, <2>8 DEF m
<1>8. Len(p) \notin Bad
  <2>1. n \in Nat
    OBVIOUS
  <2> HIDE DEF Bad
  <2> QED
    BY <1>2, <1>3, <1>5, <2>1
<1>9. Ok(p, q)
  <2> HIDE DEF Ok, Match
  <2> QED
    BY <1>5, <1>6, <1>7, <1>8
<1>10. FlattenSeq(F) = FlattenSeq(p) \o x /\ FlattenSeq(G) = FlattenSeq(q) \o y
  BY <1>5, <1>6, JoinedMore
<1>11. WithoutSpace(FlattenSeq(F)) = WithoutSpace(FlattenSeq(p)) \o WithoutSpace(x)
  <2>1. FlattenSeq(p) \in Seq(T)
    BY JoinedType
  <2> QED
    BY <1>10, <2>1, WithoutJoin
<1> QED
  BY <1>3, <1>7, <1>9, <1>10, <1>11

LEMMA IndentedIs ==
  ASSUME NEW T, NEW v \in Seq(T), "ws" \notin Range(v), v \in Seq(Range(v)), "ws" \in T
  PROVE  Indented(v) \in Seq(T) /\ WithoutSpace(Indented(v)) = v
<1> DEFINE F == [i \in DOMAIN v |-> <<"ws", v[i]>>]
           n == Len(v)
           S == Seq(T)
<1>1. DOMAIN v = 1..n /\ n \in Nat /\ \A i \in 1..n : v[i] \in T /\ v[i] # "ws"
  BY DEF Range
<1>2. F \in Seq(S) /\ Len(F) = n
  <2>1. \A i \in 1..n : <<"ws", v[i]>> \in S
    BY <1>1
  <2> HIDE DEF S, n
  <2> QED
    BY <1>1, <2>1
<1>3. Indented(v) = FlattenSeq(F)
  BY DEF Indented
<1>4. Pieces(v) \in Seq(S) /\ Len(Pieces(v)) = n
  BY PiecesType
<1>5. ASSUME NEW i \in 1..n PROVE WithoutSpace(F[i]) = Pieces(v)[i]
  <2> DEFINE x == v[i]
  <2>1. F[i] = <<"ws", x>> /\ Pieces(v)[i] = <<x>> /\ x \in T
    BY <1>1 DEF Pieces, Piece
  <2> HIDE DEF x, F
  <2>2. <<"ws", x>> = Append(<<"ws">>, x) /\ <<"ws">> = Append(<<>>, "ws")
    OBVIOUS
  <2>3. <<"ws">> \in Seq(T) /\ <<>> \in Seq(T)
    OBVIOUS
  <2>4. WithoutSpace(<<"ws">>) = <<>>
    <3>1. WithoutSpace(<<"ws">>) = WithoutSpace(<<>>) \o Piece("ws")
      BY <2>2, <2>3, WithoutMore
    <3> QED
      BY <3>1, WithoutNone DEF Piece
  <2>5. WithoutSpace(<<"ws", x>>) = <<>> \o Piece(x)
    BY <2>1, <2>2, <2>3, <2>4, WithoutMore
  <2>6. Piece(x) = <<x>>
    BY <1>1 DEF Piece, x
  <2> QED
    BY <2>1, <2>5, <2>6
<1>6. WithoutSpace(FlattenSeq(F)) = FlattenSeq(Pieces(v))
  <2> HIDE DEF F, n
  <2> QED
    BY <1>2, <1>4, <1>5, WithoutEach
<1>7. WithoutSpace(v) = v
  BY WithoutPlain
<1> QED
  BY <1>2, <1>3, <1>6, <1>7, WithoutType, JoinedType

LEMMA SubstitutesMatch ==
  ASSUME NEW T, NEW s \in Seq(T), "ws" \notin Range(s), NEW l, NEW d, DOMAIN l = DOMAIN d,
         \A k \in DOMAIN l : l[k] \in Seq(T) /\ d[k] \in Seq(T) /\ WithoutSpace(d[k]) = l[k]
  PROVE  WithoutSpace(Substitute(s, d)) = Substitute(s, l)
<1> DEFINE With(vals, t) == IF t \in DOMAIN vals THEN vals[t] ELSE <<t>>
           Put(vals) == [i \in DOMAIN s |-> With(vals, s[i])]
           n == Len(s)
           S == Seq(T)
<1>1. DOMAIN s = 1..n /\ n \in Nat /\ \A i \in 1..n : s[i] \in T /\ s[i] # "ws"
  BY DEF Range
<1>2. ASSUME NEW t \in T, t # "ws"
      PROVE  With(l, t) \in S /\ With(d, t) \in S /\ WithoutSpace(With(d, t)) = With(l, t)
  <2>1. CASE t \in DOMAIN l
    BY <2>1
  <2>2. CASE t \notin DOMAIN l
    <3>1. <<t>> = Append(<<>>, t) /\ <<>> \in Seq(T) /\ <<t>> \in Seq(T)
      OBVIOUS
    <3>2. WithoutSpace(<<t>>) = <<>> \o Piece(t)
      BY <3>1, WithoutMore, WithoutNone
    <3>3. WithoutSpace(<<t>>) = <<t>>
      BY <1>2, <3>2 DEF Piece
    <3> QED
      BY <2>2, <3>1, <3>3
  <2> QED
    BY <2>1, <2>2
<1> HIDE DEF With
<1>3. /\ Put(l) \in Seq(S) /\ Put(d) \in Seq(S) /\ Len(Put(l)) = n /\ Len(Put(d)) = n
      /\ \A i \in 1..n : WithoutSpace(Put(d)[i]) = Put(l)[i]
  <2> HIDE DEF S, n
  <2>1. \A i \in 1..n : With(l, s[i]) \in S /\ With(d, s[i]) \in S
    BY <1>1, <1>2
  <2>2. Put(l) \in Seq(S) /\ Put(d) \in Seq(S) /\ Len(Put(l)) = n /\ Len(Put(d)) = n
    BY <1>1, <2>1
  <2>3. \A i \in 1..n : WithoutSpace(Put(d)[i]) = Put(l)[i]
    BY <1>1, <1>2
  <2> QED
    BY <2>2, <2>3
<1>4. Substitute(s, l) = FlattenSeq(Put(l)) /\ Substitute(s, d) = FlattenSeq(Put(d))
  BY DEF Substitute, With
<1> HIDE DEF Put, n
<1> QED
  BY <1>3, <1>4, WithoutEach

LEMMA DebugHolds == PInv => DebugShowsPrompt
<1> SUFFICES ASSUME PInv, Rendered PROVE DebugShowsPrompt
  BY DEF DebugShowsPrompt
<1> DEFINE T == {"ws"} \cup Range(tpl) \cup UNION {Range(params[k].value) : k \in DOMAIN params}
<1>1. tpl \in Seq(Range(tpl)) /\ "ws" \notin Range(tpl)
  BY DEF PInv, Called, Plain
<1>2. /\ rendered.llm = Substitute(tpl, llmVals) /\ rendered.debug = Substitute(tpl, debugVals)
  BY DEF PInv, Results, Rendered
<1>3. /\ DOMAIN llmVals = DOMAIN params /\ DOMAIN debugVals = DOMAIN params
      /\ \A k \in DOMAIN params :
           /\ llmVals[k] = params[k].value
           /\ debugVals[k] = IF params[k].kind = "json" THEN Indented(params[k].value)
                             ELSE params[k].value
  BY DEF PInv, Values, Rendered
<1>4. \A k \in DOMAIN params : Plain(params[k].value)
  BY DEF PInv, Called
<1>5. "ws" \in T /\ Range(tpl) \subseteq T /\ \A k \in DOMAIN params : Range(params[k].value) \subseteq T
  OBVIOUS
<1> HIDE DEF T
<1>6. ASSUME NEW k \in DOMAIN params
      PROVE  /\ llmVals[k] \in Seq(T) /\ debugVals[k] \in Seq(T)
             /\ WithoutSpace(debugVals[k]) = llmVals[k]
  <2> DEFINE v == params[k].value
             R == Range(v)
  <2>1. v \in Seq(R) /\ "ws" \notin R /\ R \subseteq T
    BY <1>4, <1>5 DEF Plain
  <2>2. llmVals[k] = v /\ debugVals[k] \in {v, Indented(v)}
    BY <1>3
  <2> HIDE DEF R
  <2>3. v \in Seq(T)
    <3> HIDE DEF v
    <3> QED
      BY <2>1
  <2>4. WithoutSpace(v) = v
    BY <2>1, WithoutPlain
  <2>5. Indented(v) \in Seq(T) /\ WithoutSpace(Indented(v)) = v
    <3> HIDE DEF v
    <3> QED
      BY <1>5, <2>1, <2>3, IndentedIs DEF R
  <2> HIDE DEF v
  <2> QED
    BY <2>2, <2>3, <2>4, <2>5
<1>7. tpl \in Seq(T)
  <2> DEFINE R == Range(tpl)
  <2>1. tpl \in Seq(R) /\ R \subseteq T
    BY <1>1, <1>5
  <2> HIDE DEF R
  <2> QED
    BY <2>1
<1>8. WithoutSpace(Substitute(tpl, debugVals)) = Substitute(tpl, llmVals)
  BY <1>1, <1>3, <1>6, <1>7, SubstitutesMatch
<1> QED
  BY <1>2, <1>8 DEF DebugShowsPrompt

\* A debug dump shows what the model saw: take the white space away that Indent
\* put in and it is the prompt.
THEOREM DebugIsFaithful == PromptSpec => []DebugShowsPrompt
BY PromptInductive, DebugHolds, PTL

--------------------------------------------------------------------------------
(* How often a token occurs in sequences joined.                           *)

LEMMA PlacesFinite ==
  ASSUME NEW T, NEW s \in Seq(T), NEW t
  PROVE  /\ Places(s, t) \subseteq 1..Len(s) /\ Len(s) \in Nat
         /\ IsFiniteSet(Places(s, t)) /\ Occurrences(s, t) \in Nat
<1>1. DOMAIN s = 1..Len(s) /\ Len(s) \in Nat
  OBVIOUS
<1>2. IsFiniteSet(1..Len(s))
  BY <1>1, FS_Interval
<1>3. Places(s, t) \subseteq 1..Len(s)
  BY <1>1 DEF Places
<1>4. IsFiniteSet(Places(s, t))
  BY <1>2, <1>3, FS_Subset
<1> QED
  BY <1>1, <1>3, <1>4, FS_CardinalityType DEF Occurrences

LEMMA Shifted ==
  ASSUME NEW n \in Nat, NEW S \in SUBSET Nat, IsFiniteSet(S)
  PROVE  IsFiniteSet({n + i : i \in S}) /\ Cardinality({n + i : i \in S}) = Cardinality(S)
<1> DEFINE R == {n + i : i \in S}
           f == [i \in S |-> n + i]
<1>1. f \in [S -> R]
  OBVIOUS
<1>2. ASSUME NEW i \in S, NEW j \in S, f[i] = f[j] PROVE i = j
  <2>1. i \in Nat /\ j \in Nat /\ n + i = n + j
    BY <1>2
  <2> QED
    BY <2>1
<1>3. \A x \in R : \E i \in S : f[i] = x
  OBVIOUS
<1> HIDE DEF f, R
<1>4. f \in Bijection(S, R)
  BY <1>1, <1>2, <1>3 DEF Bijection, Injection, Surjection, IsInjective
<1>5. ExistsBijection(S, R)
  BY <1>4 DEF ExistsBijection
<1> QED
  BY <1>5, FS_Bijection DEF R

\* One set per place: the pairs are as many as the elements.
LEMMA Paired ==
  ASSUME NEW x, NEW S, IsFiniteSet(S)
  PROVE  IsFiniteSet({x} \X S) /\ Cardinality({x} \X S) = Cardinality(S)
<1>1. IsFiniteSet({x}) /\ Cardinality({x}) = 1
  BY FS_Singleton
<1>2. IsFiniteSet({x} \X S) /\ Cardinality({x} \X S) = Cardinality({x}) * Cardinality(S)
  BY <1>1, FS_Product
<1>3. Cardinality(S) \in Nat
  BY FS_CardinalityType
<1> QED
  BY <1>1, <1>2, <1>3

LEMMA Disjoint ==
  ASSUME NEW S, IsFiniteSet(S), NEW R, IsFiniteSet(R), S \cap R = {}
  PROVE  IsFiniteSet(S \cup R) /\ Cardinality(S \cup R) = Cardinality(S) + Cardinality(R)
<1>1. Cardinality(S \cap R) = 0
  BY FS_EmptySet
<1>2. Cardinality(S) \in Nat /\ Cardinality(R) \in Nat
  BY FS_CardinalityType
<1>3. /\ IsFiniteSet(S \cup R)
      /\ Cardinality(S \cup R) = Cardinality(S) + Cardinality(R) - Cardinality(S \cap R)
  BY FS_Union
<1> QED
  BY <1>1, <1>2, <1>3

LEMMA OccursJoin ==
  ASSUME NEW T, NEW a \in Seq(T), NEW b \in Seq(T), NEW t
  PROVE  Occurrences(a \o b, t) = Occurrences(a, t) + Occurrences(b, t)
<1> DEFINE n == Len(a)
           w == a \o b
           A == Places(a, t)
           B == Places(b, t)
           C == {n + i : i \in B}
<1>1. /\ n \in Nat /\ Len(b) \in Nat /\ DOMAIN a = 1..n /\ DOMAIN b = 1..Len(b)
      /\ DOMAIN w = 1..(n + Len(b))
      /\ \A i \in 1..n : w[i] = a[i]
      /\ \A i \in 1..Len(b) : w[n + i] = b[i]
  OBVIOUS
<1>2. /\ A \subseteq 1..n /\ IsFiniteSet(A) /\ B \subseteq 1..Len(b) /\ IsFiniteSet(B)
  BY PlacesFinite
<1>3. IsFiniteSet(C) /\ Cardinality(C) = Cardinality(B)
  <2>1. B \in SUBSET Nat
    BY <1>1, <1>2
  <2> HIDE DEF B, n
  <2> QED
    BY <1>1, <1>2, <2>1, Shifted
<1> HIDE DEF w, n
<1>4. Places(w, t) = A \cup C
  <2>1. ASSUME NEW i \in Places(w, t) PROVE i \in A \cup C
    <3>1. i \in 1..(n + Len(b)) /\ w[i] = t
      BY <1>1 DEF Places
    <3>2. CASE i \in 1..n
      BY <1>1, <3>1, <3>2 DEF Places
    <3>3. CASE i \notin 1..n
      <4> DEFINE j == i - n
      <4>1. j \in 1..Len(b) /\ n + j = i
        BY <1>1, <3>1, <3>3
      <4> HIDE DEF j
      <4>2. b[j] = t
        BY <1>1, <3>1, <4>1
      <4>3. j \in B
        BY <1>1, <4>1, <4>2 DEF Places
      <4> QED
        BY <4>1, <4>3
    <3> QED
      BY <3>2, <3>3
  <2>2. A \subseteq Places(w, t)
    <3>1. 1..n \subseteq 1..(n + Len(b))
      BY <1>1
    <3> QED
      BY <1>1, <3>1 DEF Places
  <2>3. C \subseteq Places(w, t)
    <3>1. \A i \in 1..Len(b) : n + i \in 1..(n + Len(b))
      BY <1>1
    <3> QED
      BY <1>1, <3>1 DEF Places
  <2> QED
    BY <2>1, <2>2, <2>3
<1>5. A \cap C = {}
  <2>1. \A i \in 1..Len(b) : n + i \notin 1..n
    BY <1>1
  <2> HIDE DEF A, B
  <2> QED
    BY <1>2, <2>1
<1> HIDE DEF A, B, C
<1>6. Cardinality(A \cup C) = Cardinality(A) + Cardinality(C)
  BY <1>2, <1>3, <1>5, Disjoint
<1> QED
  BY <1>3, <1>4, <1>6 DEF Occurrences, A, B, w

\* The places of t within the members of F.
Pairs(F, t) == UNION {{i} \X Places(F[i], t) : i \in DOMAIN F}

LEMMA PairIs ==
  ASSUME NEW F, NEW t, NEW x
  PROVE  x \in Pairs(F, t) <=> \E i \in DOMAIN F : \E j \in Places(F[i], t) : x = <<i, j>>
BY DEF Pairs

LEMMA PairsMore ==
  ASSUME NEW T, NEW F \in Seq(Seq(T)), NEW x \in Seq(T), NEW t, IsFiniteSet(Pairs(F, t))
  PROVE  /\ IsFiniteSet(Pairs(Append(F, x), t))
         /\ Cardinality(Pairs(Append(F, x), t)) = Cardinality(Pairs(F, t)) + Occurrences(x, t)
<1> DEFINE G == Append(F, x)
           n == Len(F)
           P == Pairs(F, t)
           Q == {n + 1} \X Places(x, t)
<1>1. /\ n \in Nat /\ DOMAIN F = 1..n /\ DOMAIN G = 1..(n + 1) /\ G[n + 1] = x
      /\ \A i \in 1..n : G[i] = F[i]
  <2> DEFINE S == Seq(T)
  <2>1. F \in Seq(S) /\ x \in S
    OBVIOUS
  <2> HIDE DEF S
  <2> QED
    BY <2>1
<1> HIDE DEF G, n
<1>2. IsFiniteSet(Q) /\ Cardinality(Q) = Occurrences(x, t)
  <2>1. IsFiniteSet(Places(x, t))
    BY PlacesFinite
  <2> QED
    BY <2>1, Paired DEF Occurrences
<1>3. \A i \in 1..(n + 1) : i \in 1..n \/ i = n + 1
  BY <1>1
<1>4. 1..n \subseteq 1..(n + 1) /\ n + 1 \in 1..(n + 1) /\ n + 1 \notin 1..n
  BY <1>1
<1>5. \A p : p \in Pairs(G, t) <=> p \in P \/ p \in Q
  <2>1. ASSUME NEW p, p \in Pairs(G, t) PROVE p \in P \/ p \in Q
    <3>1. PICK i, j : i \in 1..(n + 1) /\ j \in Places(G[i], t) /\ p = <<i, j>>
      BY <1>1, <2>1, PairIs
    <3>2. CASE i \in 1..n
      <4>1. j \in Places(F[i], t)
        BY <1>1, <3>1, <3>2
      <4> QED
        BY <1>1, <3>1, <3>2, <4>1, PairIs
    <3>3. CASE i = n + 1
      BY <1>1, <3>1, <3>3
    <3> QED
      BY <1>3, <3>1, <3>2, <3>3
  <2>2. ASSUME NEW p, p \in P PROVE p \in Pairs(G, t)
    <3>1. PICK i, j : i \in 1..n /\ j \in Places(F[i], t) /\ p = <<i, j>>
      BY <1>1, <2>2, PairIs
    <3>2. i \in DOMAIN G /\ j \in Places(G[i], t)
      BY <1>1, <1>4, <3>1
    <3> QED
      BY <3>1, <3>2, PairIs
  <2>3. ASSUME NEW p, p \in Q PROVE p \in Pairs(G, t)
    <3>1. PICK j \in Places(x, t) : p = <<n + 1, j>>
      BY <2>3
    <3>2. n + 1 \in DOMAIN G /\ j \in Places(G[n + 1], t)
      BY <1>1, <1>4
    <3> QED
      BY <3>1, <3>2, PairIs
  <2> QED
    BY <2>1, <2>2, <2>3
<1>6. P \cap Q = {}
  <2> SUFFICES ASSUME NEW p \in P, p \in Q PROVE FALSE
    OBVIOUS
  <2>1. PICK i, j : i \in 1..n /\ j \in Places(F[i], t) /\ p = <<i, j>>
    BY <1>1, PairIs
  <2>2. PICK k \in Places(x, t) : p = <<n + 1, k>>
    OBVIOUS
  <2>3. i = n + 1
    BY <2>1, <2>2
  <2> QED
    BY <1>4, <2>1, <2>3
<1> HIDE DEF P, Q
<1>7. Pairs(G, t) = P \cup Q
  BY <1>5
<1>8. IsFiniteSet(P \cup Q) /\ Cardinality(P \cup Q) = Cardinality(P) + Cardinality(Q)
  BY <1>2, <1>6, Disjoint DEF P
<1> QED
  BY <1>2, <1>7, <1>8 DEF G, P

\* A token occurs in the join as often as in the members together.
LEMMA JoinCounts ==
  ASSUME NEW T, NEW t
  PROVE  \A F \in Seq(Seq(T)) :
           IsFiniteSet(Pairs(F, t)) /\ Occurrences(FlattenSeq(F), t) = Cardinality(Pairs(F, t))
<1> DEFINE Ok(F) == IsFiniteSet(Pairs(F, t))
                    /\ Occurrences(FlattenSeq(F), t) = Cardinality(Pairs(F, t))
           Bad == {n \in Nat : \E F \in Seq(Seq(T)) : Len(F) = n /\ ~Ok(F)}
<1> SUFFICES ASSUME NEW E \in Seq(Seq(T)), ~Ok(E) PROVE FALSE
  OBVIOUS
<1>1. Bad # {}
  <2>1. Len(E) \in Nat
    OBVIOUS
  <2> HIDE DEF Ok
  <2> QED
    BY <2>1
<1>2. PICK n \in Bad : \A m \in Bad : n <= m
  <2> HIDE DEF Bad
  <2>1. Bad \in SUBSET Nat
    BY DEF Bad
  <2> QED
    BY <1>1, <2>1, Least
<1>3. PICK F \in Seq(Seq(T)) : Len(F) = n /\ ~Ok(F)
  <2> HIDE DEF Ok
  <2> QED
    OBVIOUS
<1>4. F # <<>>
  <2>1. Pairs(<<>>, t) = {} /\ Places(<<>>, t) = {}
    BY DEF Pairs, Places
  <2>2. Ok(<<>>)
    BY <2>1, JoinedNone, FS_EmptySet DEF Occurrences
  <2> HIDE DEF Ok
  <2> QED
    BY <1>3, <2>2
<1>5. PICK r \in Seq(Seq(T)), x \in Seq(T) : F = Append(r, x) /\ Len(r) < Len(F) /\ Len(r) \in Nat
  BY <1>4, LastOff
<1>6. Len(r) \notin Bad
  <2>1. n \in Nat
    OBVIOUS
  <2> HIDE DEF Bad
  <2> QED
    BY <1>2, <1>3, <1>5, <2>1
<1>7. Ok(r)
  <2> HIDE DEF Ok
  <2> QED
    BY <1>5, <1>6
<1>8. FlattenSeq(F) = FlattenSeq(r) \o x /\ FlattenSeq(r) \in Seq(T)
  BY <1>5, JoinedMore, JoinedType
<1>9. Occurrences(FlattenSeq(F), t) = Occurrences(FlattenSeq(r), t) + Occurrences(x, t)
  BY <1>8, OccursJoin
<1>10. /\ IsFiniteSet(Pairs(F, t))
       /\ Cardinality(Pairs(F, t)) = Cardinality(Pairs(r, t)) + Occurrences(x, t)
  BY <1>5, <1>7, PairsMore
<1> QED
  BY <1>3, <1>7, <1>9, <1>10

LEMMA OnePassHolds == PInv => OnePass
<1> SUFFICES ASSUME PInv, Rendered, NEW t
             PROVE  Occurrences(rendered.llm, t) =
                      (IF t \in DOMAIN params THEN 0 ELSE Occurrences(tpl, t))
                      + Cardinality(InValues(t))
  BY DEF OnePass
<1> DEFINE T == Range(tpl) \cup UNION {Range(params[k].value) : k \in DOMAIN params}
           With(k) == IF k \in DOMAIN params THEN params[k].value ELSE <<k>>
           F == [i \in DOMAIN tpl |-> With(tpl[i])]
           n == Len(tpl)
           Own == {i \in DOMAIN tpl : tpl[i] \notin DOMAIN params /\ tpl[i] = t}
<1>1. tpl \in Seq(Range(tpl)) /\ DOMAIN tpl = 1..n /\ n \in Nat
  BY DEF PInv, Called, Plain
<1>2. rendered.llm = Substitute(tpl, llmVals)
  BY DEF PInv, Results, Rendered
<1>3. DOMAIN llmVals = DOMAIN params /\ \A k \in DOMAIN params : llmVals[k] = params[k].value
  BY DEF PInv, Values, Rendered
<1>4. rendered.llm = FlattenSeq(F)
  <2>1. F = [i \in DOMAIN tpl |-> IF tpl[i] \in DOMAIN llmVals THEN llmVals[tpl[i]] ELSE <<tpl[i]>>]
    BY <1>3
  <2> QED
    BY <1>2, <2>1 DEF Substitute
<1>5. \A k \in DOMAIN params : params[k].value \in Seq(T)
  <2> SUFFICES ASSUME NEW k \in DOMAIN params PROVE params[k].value \in Seq(T)
    OBVIOUS
  <2> DEFINE v == params[k].value
             R == Range(v)
  <2>1. v \in Seq(R) /\ R \subseteq T
    BY DEF PInv, Called, Plain
  <2> HIDE DEF R, T, v
  <2>2. v \in Seq(T)
    BY <2>1
  <2> QED
    BY <2>2 DEF v
<1>6. \A i \in 1..n : tpl[i] \in T
  BY <1>1 DEF Range
<1> HIDE DEF T
<1>7. \A i \in 1..n : With(tpl[i]) \in Seq(T)
  <2>1. \A k \in T : <<k>> \in Seq(T)
    OBVIOUS
  <2> QED
    BY <1>5, <1>6, <2>1
<1>8. F \in Seq(Seq(T)) /\ DOMAIN F = 1..n
  <2> DEFINE S == Seq(T)
  <2>1. \A i \in 1..n : With(tpl[i]) \in S
    BY <1>7
  <2> HIDE DEF S, With
  <2>2. F \in Seq(S)
    BY <1>1, <2>1
  <2> QED
    BY <1>1, <2>2 DEF S
<1>9. Occurrences(rendered.llm, t) = Cardinality(Pairs(F, t)) /\ IsFiniteSet(Pairs(F, t))
  <2> HIDE DEF F
  <2> QED
    BY <1>4, <1>8, JoinCounts
<1>10. ASSUME NEW k PROVE Places(<<k>>, t) = IF k = t THEN {1} ELSE {}
  <2>1. DOMAIN <<k>> = {1} /\ <<k>>[1] = k
    OBVIOUS
  <2> QED
    BY <2>1 DEF Places
<1> DEFINE Q == {1} \X Own
           O == Own \X {1}
<1>11. \A p : p \in Pairs(F, t) <=> p \in O \/ p \in InValues(t)
  <2>1. ASSUME NEW i \in 1..n, tpl[i] \in DOMAIN params
        PROVE  F[i] = params[tpl[i]].value
    BY <1>1, <2>1
  <2>2. ASSUME NEW i \in 1..n, tpl[i] \notin DOMAIN params
        PROVE  F[i] = <<tpl[i]>>
    BY <1>1, <2>2
  <2> HIDE DEF F
  <2>3. ASSUME NEW p, p \in Pairs(F, t) PROVE p \in O \/ p \in InValues(t)
    <3>1. PICK i, j : i \in 1..n /\ j \in Places(F[i], t) /\ p = <<i, j>>
      BY <1>8, <2>3, PairIs
    <3>2. CASE tpl[i] \in DOMAIN params
      BY <1>1, <2>1, <3>1, <3>2 DEF InValues
    <3>3. CASE tpl[i] \notin DOMAIN params
      <4>1. tpl[i] = t /\ j = 1
        BY <1>10, <2>2, <3>1, <3>3
      <4> QED
        BY <1>1, <3>1, <3>3, <4>1
    <3> QED
      BY <3>2, <3>3
  <2>4. ASSUME NEW p, p \in O PROVE p \in Pairs(F, t)
    <3>1. PICK i \in Own : p = <<i, 1>>
      BY <2>4
    <3>2. i \in 1..n /\ tpl[i] \notin DOMAIN params /\ tpl[i] = t
      BY <1>1
    <3>3. 1 \in Places(F[i], t)
      BY <1>10, <2>2, <3>2
    <3> QED
      BY <1>8, <3>1, <3>2, <3>3, PairIs
  <2>5. ASSUME NEW p, p \in InValues(t) PROVE p \in Pairs(F, t)
    <3>1. PICK i, j : i \in 1..n /\ j \in Places(params[tpl[i]].value, t)
            /\ p = <<i, j>> /\ tpl[i] \in DOMAIN params
      BY <1>1, <2>5 DEF InValues
    <3>2. j \in Places(F[i], t)
      BY <2>1, <3>1
    <3> QED
      BY <1>8, <3>1, <3>2, PairIs
  <2> QED
    BY <2>3, <2>4, <2>5
<1>12. O \cap InValues(t) = {}
  <2> SUFFICES ASSUME NEW p \in O, p \in InValues(t) PROVE FALSE
    OBVIOUS
  <2>1. PICK i \in Own : p = <<i, 1>>
    OBVIOUS
  <2>2. PICK j, l : j \in DOMAIN tpl /\ l \in Places(params[tpl[j]].value, t)
          /\ p = <<j, l>> /\ tpl[j] \in DOMAIN params
    BY DEF InValues
  <2>3. i = j
    BY <2>1, <2>2
  <2> QED
    BY <2>2, <2>3
<1> DEFINE count == IF t \in DOMAIN params THEN 0 ELSE Occurrences(tpl, t)
<1>13. IsFiniteSet(Own) /\ Cardinality(Own) = count /\ count \in Nat
  <2>1. IsFiniteSet(Places(tpl, t)) /\ Occurrences(tpl, t) \in Nat
    BY <1>1, PlacesFinite
  <2>2. CASE t \in DOMAIN params
    <3>1. Own = {}
      BY <2>2
    <3> QED
      BY <2>2, <3>1, FS_EmptySet
  <2>3. CASE t \notin DOMAIN params
    <3>1. Own = Places(tpl, t)
      BY <2>3 DEF Places
    <3> QED
      BY <2>1, <2>3, <3>1 DEF Occurrences
  <2> QED
    BY <2>2, <2>3
<1> HIDE DEF Own, F, count
<1>14. IsFiniteSet(O) /\ Cardinality(O) = count
  <2>1. IsFiniteSet({1}) /\ Cardinality({1}) = 1
    BY FS_Singleton
  <2>2. IsFiniteSet(O) /\ Cardinality(O) = Cardinality(Own) * Cardinality({1})
    BY <1>13, <2>1, FS_Product
  <2> QED
    BY <1>13, <2>1, <2>2
<1> HIDE DEF O
<1>15. Pairs(F, t) = O \cup InValues(t)
  BY <1>11
<1>16. IsFiniteSet(InValues(t))
  <2>1. InValues(t) \in SUBSET Pairs(F, t)
    BY <1>15
  <2> QED
    BY <1>9, <2>1, FS_Subset
<1>17. Cardinality(O \cup InValues(t)) = Cardinality(O) + Cardinality(InValues(t))
  BY <1>12, <1>14, <1>16, Disjoint
<1> QED
  BY <1>9, <1>14, <1>15, <1>17 DEF count

\* Values are never scanned again: every token of the rendering comes from the
\* template or from a value put there, as often as it is in them, so a placeholder
\* within a value stays as it is.
THEOREM NothingScannedTwice == PromptSpec => []OnePass
BY PromptInductive, OnePassHolds, PTL
================================================================================
