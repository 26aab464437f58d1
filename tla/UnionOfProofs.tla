----------------------------- MODULE UnionOfProofs -----------------------------
(***************************************************************************)
(* The verdict of jsonschema.UnionOf and what the merged properties say,   *)
(* for any number of variants with any properties, in whatever order the   *)
(* names are handed out.                                                   *)
(***************************************************************************)
EXTENDS UnionOf, WellFoundedInduction, TLAPS

--------------------------------------------------------------------------------
(* The inductive invariant. A property counts as merged when its variant   *)
(* is done, or its name is.                                                *)

Shape(vs) ==
  /\ Len(vs) \in Nat /\ DOMAIN vs = 1..Len(vs)
  /\ Len(vs) = 0 => vs = <<>>
  /\ \A i \in DOMAIN vs :
       /\ vs[i].ok \in BOOLEAN
       /\ \A n \in DOMAIN vs[i].props : IsProperty(vs[i].props[n])

\* Property n of variant i is merged.
In(i, n) == n \in DOMAIN Props(i) /\ (i < at \/ n \notin names)

Positions ==
  /\ Shape(variants)
  /\ at \in 0..Len(variants)
  /\ union \in {"idle", "merging", "ok", "error"}
  /\ union = "idle" => at = 0 /\ names = {} /\ merged = <<>>

\* While no error was met: what is merged agrees, and nothing else is in merged.
Agreed ==
  union \in {"merging", "ok"} =>
    /\ variants # <<>>
    /\ \A i \in 1..at : variants[i].ok
    /\ IF at = 0 THEN names = {} ELSE names \subseteq DOMAIN Props(at)
    /\ \A i \in 1..at : \A n \in DOMAIN Props(i) :
         In(i, n) => n \in DOMAIN merged /\ merged[n].type = Props(i)[n].type
    /\ \A n \in DOMAIN merged :
         /\ "type" \in DOMAIN merged[n]
         /\ \E i \in 1..at : In(i, n) /\ merged[n].type = Props(i)[n].type

\* What a call may refuse.
Refusable ==
  \/ variants = <<>> \/ \E i \in DOMAIN variants : ~variants[i].ok
  \/ \E n \in UNION {DOMAIN Props(i) : i \in DOMAIN variants} :
       \E i, j \in Having(n) : Props(i)[n].type # Props(j)[n].type

Verdicts ==
  /\ union = "ok" => names = {} /\ at = Len(variants)
  /\ union = "error" => Refusable

UInv == Positions /\ Agreed /\ Verdicts

LEMMA ShapeOfVariants == \A vs \in VariantLists : Shape(vs)
<1> SUFFICES ASSUME NEW vs \in VariantLists PROVE Shape(vs)
  OBVIOUS
<1> DEFINE R == Range(vs)
<1>1. vs \in Seq(R)
  BY VariantAssumption
<1> HIDE DEF R
<1>2. Len(vs) \in Nat /\ DOMAIN vs = 1..Len(vs) /\ (Len(vs) = 0 => vs = <<>>)
  BY <1>1
<1> QED
  BY <1>2, VariantAssumption DEF Shape

LEMMA UnionInitUInv == UnionInit => UInv
<1> SUFFICES ASSUME UnionInit PROVE UInv
  OBVIOUS
<1>1. Shape(<<>>)
  BY DEF Shape
<1> QED
  BY <1>1 DEF UnionInit, UInv, Positions, Agreed, Verdicts

LEMMA UnionCallUInv == UInv /\ UnionCall => UInv'
<1> SUFFICES ASSUME UInv, UnionCall PROVE UInv'
  OBVIOUS
<1>1. /\ variants' \in VariantLists /\ at' = 0 /\ names' = {} /\ merged' = <<>>
      /\ union' = IF variants' = <<>> THEN "error" ELSE "merging"
  BY DEF UInv, Positions, UnionCall
<1>2. Positions'
  BY <1>1, ShapeOfVariants DEF Positions, Shape
<1>3. Agreed'
  BY <1>1 DEF Agreed
<1>4. Verdicts'
  BY <1>1 DEF Verdicts, Refusable
<1> QED
  BY <1>2, <1>3, <1>4 DEF UInv

LEMMA NextVariantUInv == UInv /\ NextVariant => UInv'
<1> SUFFICES ASSUME UInv, NextVariant PROVE UInv'
  OBVIOUS
<1>1. /\ union = "merging" /\ names = {} /\ at < Len(variants)
      /\ at' = at + 1 /\ variants' = variants /\ merged' = merged
  BY DEF NextVariant
<1>2. at \in Nat /\ Len(variants) \in Nat /\ at' \in 1..Len(variants) /\ DOMAIN variants = 1..Len(variants)
  BY <1>1 DEF UInv, Positions, Shape
<1>3. CASE ~variants[at'].ok
  <2>1. union' = "error"
    BY <1>3 DEF NextVariant
  <2>2. Refusable'
    BY <1>1, <1>2, <1>3 DEF Refusable
  <2> QED
    BY <1>1, <1>2, <2>1, <2>2 DEF UInv, Positions, Agreed, Verdicts
<1>4. CASE variants[at'].ok
  <2>1. names' = DOMAIN Props(at') /\ union' = "merging"
    BY <1>1, <1>4 DEF NextVariant, Props
  <2>2. Positions' /\ Verdicts'
    BY <1>1, <1>2, <2>1 DEF UInv, Positions, Verdicts
  <2>3. Agreed'
    <3>1. variants' # <<>> /\ \A i \in 1..at' : variants'[i].ok
      <4>1. \A i \in 1..at' : i \in 1..at \/ i = at'
        BY <1>1, <1>2
      <4> QED
        BY <1>1, <1>4, <4>1 DEF UInv, Agreed
    <3>2. names' \subseteq DOMAIN Props(at)' /\ at' # 0
      BY <1>1, <1>2, <2>1 DEF Props
    <3>3. ASSUME NEW i \in 1..at', NEW n \in DOMAIN Props(i)', In(i, n)'
          PROVE  n \in DOMAIN merged' /\ merged'[n].type = (Props(i)')[n].type
      <4>1. i \in 1..at /\ Props(i)' = Props(i)
        BY <1>1, <1>2, <2>1, <3>3 DEF In, Props
      <4>2. In(i, n)
        BY <1>1, <3>3, <4>1 DEF In
      <4> QED
        BY <1>1, <4>1, <4>2 DEF UInv, Agreed
    <3>4. ASSUME NEW n \in DOMAIN merged'
          PROVE  /\ "type" \in DOMAIN merged'[n]
                 /\ \E i \in 1..at' : In(i, n)' /\ merged'[n].type = (Props(i)')[n].type
      <4>1. "type" \in DOMAIN merged[n] /\ \E i \in 1..at : In(i, n) /\ merged[n].type = Props(i)[n].type
        BY <1>1 DEF UInv, Agreed
      <4>2. PICK i \in 1..at : In(i, n) /\ merged[n].type = Props(i)[n].type
        BY <4>1
      <4>3. i \in 1..at' /\ i < at' /\ Props(i)' = Props(i)
        BY <1>1, <1>2 DEF Props
      <4> QED
        BY <1>1, <4>1, <4>2, <4>3 DEF In
    <3> QED
      BY <2>1, <3>1, <3>2, <3>3, <3>4 DEF Agreed
  <2> QED
    BY <2>2, <2>3 DEF UInv
<1> QED
  BY <1>3, <1>4

LEMMA MergePropertyUInv == UInv /\ MergeProperty => UInv'
<1> SUFFICES ASSUME UInv, MergeProperty PROVE UInv'
  OBVIOUS
<1> DEFINE prop(n) == variants[at].props[n]
           folded(n) == IF n \in DOMAIN merged THEN FoldedProperty(merged[n], prop(n)) ELSE prop(n)
<1>1. union = "merging" /\ variants' = variants /\ at' = at
  BY DEF MergeProperty
<1>2. PICK n \in names :
        IF n \in DOMAIN merged /\ Conflict(merged[n], prop(n))
        THEN union' = "error" /\ names' = names /\ merged' = merged
        ELSE /\ merged' = [m \in DOMAIN merged \cup {n} |-> IF m = n THEN folded(n) ELSE merged[m]]
             /\ names' = names \ {n}
             /\ union' = union
  BY DEF MergeProperty
<1>3. at \in 1..Len(variants) /\ at \in 1..at /\ n \in DOMAIN Props(at) /\ prop(n) = Props(at)[n]
      /\ DOMAIN variants = 1..Len(variants) /\ "type" \in DOMAIN prop(n)
  BY <1>1, <1>2 DEF UInv, Positions, Agreed, Shape, Props, IsProperty
<1>4. CASE n \in DOMAIN merged /\ Conflict(merged[n], prop(n))
  <2>1. union' = "error"
    BY <1>2, <1>4
  <2>2. PICK i \in 1..at : In(i, n) /\ merged[n].type = Props(i)[n].type
    BY <1>1, <1>4 DEF UInv, Agreed
  <2>3. i \in Having(n) /\ at \in Having(n) /\ Props(i)[n].type # Props(at)[n].type
    BY <1>3, <1>4, <2>2 DEF Having, In, Conflict
  <2>4. Refusable
    BY <1>3, <2>3 DEF Refusable
  <2>5. Refusable'
    BY <1>1, <2>4 DEF Refusable, Having, Props
  <2> QED
    BY <1>1, <2>1, <2>5 DEF UInv, Positions, Agreed, Verdicts
<1>5. CASE ~ (n \in DOMAIN merged /\ Conflict(merged[n], prop(n)))
  <2>1. /\ merged' = [m \in DOMAIN merged \cup {n} |-> IF m = n THEN folded(n) ELSE merged[m]]
        /\ names' = names \ {n} /\ union' = "merging"
    BY <1>1, <1>2, <1>5
  <2>2. "type" \in DOMAIN folded(n) /\ folded(n).type = prop(n).type
        /\ (n \in DOMAIN merged => merged[n].type = prop(n).type)
    <3>1. CASE n \notin DOMAIN merged
      BY <1>3, <3>1
    <3>2. CASE n \in DOMAIN merged
      <4>1. "type" \in DOMAIN merged[n] /\ merged[n].type = prop(n).type
        BY <1>1, <1>5, <3>2 DEF UInv, Agreed, Conflict
      <4> QED
        BY <3>2, <4>1 DEF FoldedProperty
    <3> QED
      BY <3>1, <3>2
  <2> HIDE DEF folded
  <2>3. DOMAIN merged' = DOMAIN merged \cup {n} /\ merged'[n] = folded(n)
        /\ \A m \in DOMAIN merged \ {n} : merged'[m] = merged[m]
    BY <2>1
  <2>4. \A i : Props(i)' = Props(i)
    BY <1>1 DEF Props
  <2>5. Positions' /\ Verdicts'
    BY <1>1, <2>1 DEF UInv, Positions, Verdicts
  <2>6. Agreed'
    <3>1. variants' # <<>> /\ \A i \in 1..at' : variants'[i].ok
      BY <1>1 DEF UInv, Agreed
    <3>2. names' \subseteq DOMAIN Props(at)' /\ at' # 0
      <4>1. names \subseteq DOMAIN Props(at)
        BY <1>1, <1>3 DEF UInv, Agreed
      <4> QED
        BY <1>1, <1>3, <2>1, <4>1 DEF Props
    <3>3. ASSUME NEW i \in 1..at', NEW m \in DOMAIN Props(i)', In(i, m)'
          PROVE  m \in DOMAIN merged' /\ merged'[m].type = (Props(i)')[m].type
      <4>1. i \in 1..at /\ m \in DOMAIN Props(i)
        BY <1>1, <2>4
      <4>2. CASE In(i, m)
        <5>1. m \in DOMAIN merged /\ merged[m].type = Props(i)[m].type
          BY <1>1, <4>1, <4>2 DEF UInv, Agreed
        <5> QED
          BY <2>2, <2>3, <2>4, <5>1
      <4>3. CASE ~In(i, m)
        <5>1. m = n /\ i = at
          BY <1>1, <1>3, <2>1, <2>4, <3>3, <4>1, <4>3 DEF In
        <5> QED
          BY <1>3, <2>2, <2>3, <2>4, <5>1
      <4> QED
        BY <4>2, <4>3
    <3>4. ASSUME NEW m \in DOMAIN merged'
          PROVE  /\ "type" \in DOMAIN merged'[m]
                 /\ \E i \in 1..at' : In(i, m)' /\ merged'[m].type = (Props(i)')[m].type
      <4>1. CASE m = n
        <5>1. In(at, n)' /\ merged'[n].type = Props(at)'[n].type
          BY <1>1, <1>3, <2>1, <2>2, <2>3, <2>4 DEF In
        <5> QED
          BY <1>1, <1>3, <2>2, <2>3, <4>1, <5>1
      <4>2. CASE m # n
        <5>1. m \in DOMAIN merged /\ merged'[m] = merged[m]
          BY <2>3, <4>2
        <5>2. "type" \in DOMAIN merged[m]
              /\ \E i \in 1..at : In(i, m) /\ merged[m].type = Props(i)[m].type
          BY <1>1, <5>1 DEF UInv, Agreed
        <5>3. \A i \in 1..at : In(i, m) => In(i, m)'
          BY <1>1, <2>1, <2>4 DEF In
        <5> QED
          BY <1>1, <2>4, <5>1, <5>2, <5>3
      <4> QED
        BY <4>1, <4>2
    <3> QED
      BY <2>1, <3>1, <3>2, <3>3, <3>4 DEF Agreed
  <2> QED
    BY <2>5, <2>6 DEF UInv
<1> QED
  BY <1>4, <1>5

LEMMA UnionDoneUInv == UInv /\ UnionDone => UInv'
  BY DEF UInv, Positions, Agreed, Verdicts, In, Props, UnionDone

LEMMA UnionStutterUInv == UInv /\ UNCHANGED unionVars => UInv'
  BY DEF UInv, Positions, Agreed, Verdicts, Refusable, Having, In, Props, unionVars

--------------------------------------------------------------------------------
\* UnionOf fails for the lists of variants it must refuse and no others: the Go map
\* from which the names come, in any order, makes no difference, nor does how far
\* apart two variants are that disagree.
THEOREM UnionIsExact == UnionSpec => []UnionVerdict
<1>1. UInv /\ [UnionNext]_unionVars => UInv'
  BY UnionCallUInv, NextVariantUInv, MergePropertyUInv, UnionDoneUInv, UnionStutterUInv
  DEF UnionNext
<1>2. UInv => UnionVerdict
  <2> SUFFICES ASSUME UInv, union = "ok", Refusable PROVE FALSE
    BY DEF UInv, Verdicts, UnionVerdict, Refusable
  <2>1. at = Len(variants) /\ names = {} /\ DOMAIN variants = 1..at
    BY DEF UInv, Verdicts, Positions, Shape
  <2>2. \A i \in DOMAIN variants : \A n \in DOMAIN Props(i) : merged[n].type = Props(i)[n].type
    BY <2>1 DEF UInv, Agreed, In
  <2>3. variants # <<>> /\ \A i \in DOMAIN variants : variants[i].ok
    BY <2>1 DEF UInv, Agreed
  <2> QED
    BY <2>2, <2>3 DEF Refusable, Having
<1> QED
  BY UnionInitUInv, <1>1, <1>2, PTL DEF UnionSpec

--------------------------------------------------------------------------------
(* The loop of mergeProperty over the values of an enum.                   *)

LEMMA Least ==
  ASSUME NEW I \in SUBSET Nat, I # {}
  PROVE  \E m \in I : \A j \in I : m <= j
<1>1. PICK m \in I : \A j \in I : ~ (<<j, m>> \in OpToRel(<, Nat))
  BY NatLessThanWellFounded, WFMin, Zenon
<1>2. ASSUME NEW j \in I PROVE ~ (j < m)
  <2>1. <<j, m>> \in Nat \X Nat /\ <<j, m>>[1] = j /\ <<j, m>>[2] = m
    OBVIOUS
  <2> QED
    BY <1>1, <2>1, Zenon DEF OpToRel
<1>3. \A j \in I : m <= j
  BY <1>2
<1> QED
  BY <1>3

\* The values so far, when before has those of p up to n - 1.
NextUnited(e, p, n, before) ==
  IF n = 0 THEN e ELSE IF p[n] \in Range(before) THEN before ELSE Append(before, p[n])

IsUnited(united, e, p, n) == united = [m \in 0..n |-> NextUnited(e, p, m, united[m - 1])]

LEMMA UnitedExists ==
  ASSUME NEW e, NEW p, NEW L \in Nat
  PROVE  \E united : IsUnited(united, e, p, L)
<1> DEFINE Missing == {n \in Nat : ~ \E united : IsUnited(united, e, p, n)}
<1> SUFFICES ASSUME Missing # {} PROVE FALSE
  OBVIOUS
<1>1. PICK n \in Missing : \A m \in Missing : n <= m
  <2> HIDE DEF Missing
  <2>1. Missing \in SUBSET Nat
    BY DEF Missing
  <2> QED
    BY <2>1, Least
<1>2. n \in Nat /\ ~ \E united : IsUnited(united, e, p, n)
  OBVIOUS
<1>3. CASE n = 0
  <2> DEFINE k == [m \in 0..0 |-> e]
  <2>1. \A m \in 0..0 : k[m] = NextUnited(e, p, m, k[m - 1])
    BY DEF NextUnited
  <2>2. k = [m \in 0..0 |-> NextUnited(e, p, m, k[m - 1])]
    BY <2>1
  <2> HIDE DEF k
  <2> QED
    BY <1>2, <1>3, <2>2 DEF IsUnited
<1>4. CASE n # 0
  <2>1. n - 1 \in Nat /\ ~(n <= n - 1)
    BY <1>2, <1>4
  <2>2. PICK k : IsUnited(k, e, p, n - 1)
    BY <1>1, <2>1
  <2> DEFINE h == [m \in 0..n |-> IF m < n THEN k[m] ELSE NextUnited(e, p, n, k[n - 1])]
  <2>3. ASSUME NEW m \in 0..n PROVE h[m] = NextUnited(e, p, m, h[m - 1])
    <3>1. CASE m = 0
      <4>1. h[m] = k[0]
        BY <1>4, <3>1
      <4>2. k[0] = NextUnited(e, p, 0, k[0 - 1])
        BY <2>1, <2>2 DEF IsUnited
      <4> QED
        BY <3>1, <4>1, <4>2 DEF NextUnited
    <3>2. CASE m # 0 /\ m < n
      <4>1. m \in 0..(n - 1) /\ m - 1 \in 0..n /\ m - 1 < n
        BY <1>2, <3>2
      <4>2. h[m] = k[m] /\ h[m - 1] = k[m - 1]
        BY <3>2, <4>1
      <4> QED
        BY <2>2, <4>1, <4>2 DEF IsUnited
    <3>3. CASE m = n
      <4>1. n - 1 \in 0..n /\ n - 1 < n /\ ~(m < n)
        BY <1>2, <2>1, <3>3
      <4> QED
        BY <3>3, <4>1
    <3> QED
      BY <1>2, <3>1, <3>2, <3>3
  <2>4. h = [m \in 0..n |-> NextUnited(e, p, m, h[m - 1])]
    <3>1. h = [m \in 0..n |-> h[m]]
      OBVIOUS
    <3> HIDE DEF h
    <3> QED
      BY <2>3, <3>1
  <2> HIDE DEF h
  <2> QED
    BY <1>2, <2>4 DEF IsUnited
<1> QED
  BY <1>3, <1>4

Begins(s, t) == Len(s) <= Len(t) /\ \A i \in 1..Len(s) : t[i] = s[i]

\* Behind e come values of p, a later one behind an earlier one.
Behind(u, e, p, n) ==
  \A l \in 1..Len(u) : Len(e) < l =>
    /\ u[l] \notin Range(e)
    /\ \E b \in 1..n :
         /\ p[b] = u[l]
         /\ \A k \in 1..(l - 1) : Len(e) < k => \E a \in 1..(b - 1) : p[a] = u[k]

\* What the loop has of e and the first n values of p.
UnitedTo(u, e, p, n) ==
  /\ u \in Seq(Range(e) \cup Range(p))
  /\ Range(u) = Range(e) \cup {p[a] : a \in 1..n}
  /\ Begins(e, u)
  /\ Behind(u, e, p, n)

LEMMA BehindMore ==
  ASSUME NEW u, NEW e, NEW p, NEW n \in Nat, n # 0, Behind(u, e, p, n - 1), Len(e) \in Nat
  PROVE  Behind(u, e, p, n)
<1> SUFFICES ASSUME NEW l \in 1..Len(u), Len(e) < l
             PROVE  /\ u[l] \notin Range(e)
                    /\ \E b \in 1..n :
                         /\ p[b] = u[l]
                         /\ \A k \in 1..(l - 1) : Len(e) < k => \E a \in 1..(b - 1) : p[a] = u[k]
  BY DEF Behind
<1>1. PICK b \in 1..(n - 1) :
        /\ p[b] = u[l]
        /\ \A k \in 1..(l - 1) : Len(e) < k => \E a \in 1..(b - 1) : p[a] = u[k]
  BY DEF Behind
<1>2. b \in 1..n
  OBVIOUS
<1>3. u[l] \notin Range(e)
  BY DEF Behind
<1> QED
  BY <1>1, <1>2, <1>3

LEMMA UnitedStep ==
  ASSUME NEW e, NEW p, p \in Seq(Range(p)), e \in Seq(Range(e)), NEW n \in 1..Len(p), NEW u,
         UnitedTo(u, e, p, n - 1)
  PROVE  UnitedTo(NextUnited(e, p, n, u), e, p, n)
<1> DEFINE R == Range(e) \cup Range(p)
           x == p[n]
           w == NextUnited(e, p, n, u)
           S(m) == {p[a] : a \in 1..m}
<1>1. n \in Nat /\ n # 0 /\ n \in DOMAIN p /\ x \in R /\ Len(p) \in Nat
  BY DEF Range
<1>2. S(n) = S(n - 1) \cup {x}
  <2>1. 1..n = (1..(n - 1)) \cup {n}
    BY <1>1
  <2> QED
    BY <2>1
<1>3. /\ u \in Seq(R) /\ Range(u) = Range(e) \cup S(n - 1)
      /\ Behind(u, e, p, n - 1)
      /\ Len(e) <= Len(u) /\ \A i \in 1..Len(e) : u[i] = e[i]
  BY DEF UnitedTo, Begins
<1>4. CASE x \in Range(u)
  <2>1. w = u
    BY <1>1, <1>4 DEF NextUnited
  <2>2. Range(u) = Range(e) \cup S(n)
    BY <1>2, <1>3, <1>4
  <2>3. Behind(u, e, p, n)
    BY <1>1, <1>3, BehindMore
  <2>4. UnitedTo(u, e, p, n)
    BY <1>3, <2>2, <2>3 DEF UnitedTo, Begins
  <2> QED
    BY <2>1, <2>4
<1>5. CASE x \notin Range(u)
  <2>1. w = Append(u, x)
    BY <1>1, <1>5 DEF NextUnited
  <2> DEFINE m == Len(u)
             l == Len(e)
  <2>2. m \in Nat /\ l \in Nat /\ DOMAIN u = 1..m /\ l <= m
    BY <1>3
  <2> HIDE DEF R, S, x, w
  <2>3. /\ w \in Seq(R) /\ DOMAIN w = 1..(m + 1) /\ Len(w) = m + 1 /\ w[m + 1] = x
        /\ \A i \in 1..m : w[i] = u[i]
    BY <1>1, <1>3, <2>1
  <2> HIDE DEF m
  <2>4. \A i \in 1..(m + 1) : i \in 1..m \/ i = m + 1
    BY <2>2
  <2>5. Range(w) = Range(u) \cup {x}
    <3>1. m + 1 \in 1..(m + 1) /\ 1..m \subseteq 1..(m + 1)
      BY <2>2
    <3> QED
      BY <2>2, <2>3, <2>4, <3>1 DEF Range
  <2>6. Range(w) = Range(e) \cup S(n)
    BY <1>2, <1>3, <2>5
  <2>7. Behind(w, e, p, n)
    <3> SUFFICES ASSUME NEW j \in 1..(m + 1), l < j
                 PROVE  /\ w[j] \notin Range(e)
                        /\ \E b \in 1..n :
                             /\ p[b] = w[j]
                             /\ \A k \in 1..(j - 1) : l < k => \E a \in 1..(b - 1) : p[a] = w[k]
      BY <2>3 DEF Behind
    <3>1. \A i \in 1..m : l < i => u[i] \notin Range(e) /\ \E a \in 1..(n - 1) : p[a] = u[i]
      <4> SUFFICES ASSUME NEW i \in 1..m, l < i
                   PROVE  u[i] \notin Range(e) /\ \E a \in 1..(n - 1) : p[a] = u[i]
        OBVIOUS
      <4> QED
        BY <1>3 DEF Behind, m
    <3>2. CASE j = m + 1
      <4>1. w[j] = p[n] /\ x \notin Range(e) /\ n \in 1..n
        BY <1>1, <1>3, <1>5, <2>3, <3>2 DEF x
      <4>2. \A k \in 1..(j - 1) : k \in 1..m /\ w[k] = u[k]
        BY <2>2, <2>3, <3>2
      <4> QED
        BY <2>3, <3>1, <3>2, <4>1, <4>2
    <3>3. CASE j \in 1..m
      <4>1. Behind(u, e, p, n)
        BY <1>1, <1>3, <2>2, BehindMore
      <4>2. u[j] \notin Range(e)
            /\ \E b \in 1..n :
                 /\ p[b] = u[j]
                 /\ \A k \in 1..(j - 1) : l < k => \E a \in 1..(b - 1) : p[a] = u[k]
        BY <3>3, <4>1 DEF Behind, m
      <4>3. w[j] = u[j] /\ \A k \in 1..(j - 1) : w[k] = u[k]
        BY <2>2, <2>3, <3>3
      <4> QED
        BY <4>2, <4>3
    <3> QED
      BY <2>4, <3>2, <3>3
  <2>9. Len(e) <= Len(w) /\ \A i \in 1..Len(e) : w[i] = e[i]
    <3>1. \A i \in 1..l : i \in 1..m
      BY <2>2
    <3>2. \A i \in 1..l : w[i] = e[i]
      BY <1>3, <2>3, <3>1
    <3>3. l <= m + 1
      BY <2>2
    <3> QED
      BY <2>3, <3>2, <3>3
  <2> QED
    BY <2>3, <2>6, <2>7, <2>9 DEF UnitedTo, Begins, w, S, R
<1> QED
  BY <1>4, <1>5

LEMMA UnitedIs ==
  ASSUME NEW existing, NEW prop, IsProperty(existing), IsProperty(prop)
  PROVE  UnitedTo(UnitedEnum(existing, prop), existing.enum, prop.enum, Len(prop.enum))
<1> DEFINE e == existing.enum
           p == prop.enum
           K == CHOOSE united : IsUnited(united, e, p, Len(p))
<1>1. e \in Seq(Range(e)) /\ p \in Seq(Range(p))
  BY DEF IsProperty
<1>2. UnitedEnum(existing, prop) = K[Len(p)]
  BY DEF UnitedEnum, IsUnited, NextUnited
<1> HIDE DEF e, p
<1>3. Len(p) \in Nat /\ Len(p) \in 0..Len(p)
  BY <1>1
<1>4. IsUnited(K, e, p, Len(p))
  BY <1>3, UnitedExists
<1> HIDE DEF K
<1>5. \A n \in 0..Len(p) : K[n] = NextUnited(e, p, n, K[n - 1])
  BY <1>4 DEF IsUnited
<1> DEFINE Bad == {n \in 0..Len(p) : ~ UnitedTo(K[n], e, p, n)}
<1>6. Bad = {}
  <2> SUFFICES ASSUME Bad # {} PROVE FALSE
    OBVIOUS
  <2>1. PICK n \in Bad : \A m \in Bad : n <= m
    <3>1. Bad \in SUBSET Nat
      BY <1>3
    <3> HIDE DEF Bad
    <3> QED
      BY <3>1, Least
  <2>2. n \in 0..Len(p) /\ ~ UnitedTo(K[n], e, p, n)
    OBVIOUS
  <2>3. CASE n = 0
    <3>1. K[n] = e
      BY <1>5, <2>2, <2>3 DEF NextUnited
    <3>2. Len(e) <= Len(e) /\ \A i \in 1..Len(e) : e[i] = e[i]
      BY <1>1
    <3>3. e \in Seq(Range(e) \cup Range(p))
      <4> DEFINE R == Range(e)
      <4>1. e \in Seq(R)
        BY <1>1
      <4> HIDE DEF R
      <4>2. e \in Seq(R \cup Range(p))
        BY <4>1
      <4> QED
        BY <4>2 DEF R
    <3>4. Behind(e, e, p, 0)
      <4>1. Len(e) \in Nat
        BY <1>1
      <4> QED
        BY <4>1 DEF Behind
    <3>5. UnitedTo(e, e, p, 0)
      BY <3>2, <3>3, <3>4 DEF UnitedTo, Begins
    <3> QED
      BY <2>2, <2>3, <3>1, <3>5
  <2>4. CASE n # 0
    <3>1. n \in 1..Len(p) /\ n - 1 \in 0..Len(p) /\ ~(n <= n - 1)
      BY <1>3, <2>2, <2>4
    <3>2. UnitedTo(K[n - 1], e, p, n - 1)
      BY <2>1, <3>1
    <3>3. UnitedTo(NextUnited(e, p, n, K[n - 1]), e, p, n)
      BY <1>1, <3>1, <3>2, UnitedStep
    <3> QED
      BY <1>5, <2>2, <3>3
  <2> QED
    BY <2>3, <2>4
<1>7. UnitedTo(K[Len(p)], e, p, Len(p))
  BY <1>3, <1>6
<1> QED
  BY <1>2, <1>7 DEF e, p

--------------------------------------------------------------------------------
(* What a merged property has of those merged into it.                     *)

\* E has the properties of one name, by variant; q is what became of them.
EnumsIn(E) == [i \in DOMAIN E |-> E[i].enum]

\* The values of q's enum are in the order in which they are first seen.
Ordered(q, E) ==
  (\A i \in DOMAIN E : IsInjective(E[i].enum)) =>
    \A k, l \in DOMAIN q.enum : k < l => SeenBefore(EnumsIn(E), q.enum[k], q.enum[l])

Holds(q, E) ==
  /\ IsProperty(q)
  /\ Range(q.enum) = UNION {Range(E[i].enum) : i \in DOMAIN E}
  /\ Ordered(q, E)
  /\ \A i \in DOMAIN E :
       /\ Range(E[i].description) \subseteq Range(q.description)
       /\ (\A j \in DOMAIN E : i <= j) => q.nested = E[i].nested

\* One property more, p of variant k.
Plus(E, k, p) == [i \in DOMAIN E \cup {k} |-> IF i = k THEN p ELSE E[i]]

LEMMA HoldsFirst ==
  ASSUME NEW p, IsProperty(p), NEW E, DOMAIN E = {}, NEW k
  PROVE  Holds(p, Plus(E, k, p))
<1>1. DOMAIN Plus(E, k, p) = {k} /\ Plus(E, k, p)[k] = p
  BY DEF Plus
<1>2. Ordered(p, Plus(E, k, p))
  <2> DEFINE F == Plus(E, k, p)
             e == p.enum
  <2>1. DOMAIN F = {k} /\ F[k] = p /\ EnumsIn(F) = [i \in {k} |-> e]
    BY <1>1 DEF EnumsIn
  <2> SUFFICES ASSUME IsInjective(e), NEW m \in DOMAIN e, NEW l \in DOMAIN e, m < l
               PROVE  SeenBefore(EnumsIn(F), e[m], e[l])
    BY <2>1 DEF Ordered
  <2>2. \A b \in DOMAIN e : e[b] = e[l] => b = l
    BY DEF IsInjective
  <2> HIDE DEF F, e
  <2> QED
    BY <2>1, <2>2 DEF SeenBefore
<1> HIDE DEF Plus
<1> QED
  BY <1>1, <1>2 DEF Holds

\* A union that UnitedTo describes keeps the order in which the values are seen.
LEMMA OrderedMore ==
  ASSUME NEW q, NEW f, NEW p, NEW E, NEW k \in Nat, DOMAIN E \subseteq Nat,
         \A i \in DOMAIN E : i < k, Holds(q, E), IsProperty(p),
         UnitedTo(f.enum, q.enum, p.enum, Len(p.enum))
  PROVE  Ordered(f, Plus(E, k, p))
<1> DEFINE F == Plus(E, k, p)
           u == f.enum
           e == q.enum
           v == p.enum
           es == EnumsIn(F)
<1>1. /\ DOMAIN F = DOMAIN E \cup {k} /\ F[k] = p /\ k \notin DOMAIN E
      /\ \A i \in DOMAIN E : F[i] = E[i]
  BY DEF Plus
<1>2. /\ DOMAIN es = DOMAIN E \cup {k} /\ es[k] = v
      /\ \A i \in DOMAIN E : es[i] = E[i].enum
  BY <1>1 DEF EnumsIn
<1> SUFFICES ASSUME \A i \in DOMAIN F : IsInjective(F[i].enum),
                    NEW m \in DOMAIN u, NEW l \in DOMAIN u, m < l
             PROVE  SeenBefore(es, u[m], u[l])
  BY DEF Ordered
<1>3. IsInjective(v) /\ \A i \in DOMAIN E : IsInjective(E[i].enum)
  BY <1>1
<1>4. /\ Len(e) \in Nat /\ DOMAIN e = 1..Len(e)
      /\ Len(v) \in Nat /\ DOMAIN v = 1..Len(v)
      /\ Len(u) \in Nat /\ DOMAIN u = 1..Len(u)
  <2>1. e \in Seq(Range(e)) /\ v \in Seq(Range(v)) /\ u \in Seq(Range(e) \cup Range(v))
    BY DEF Holds, IsProperty, UnitedTo
  <2> HIDE DEF e, v, u
  <2> QED
    BY <2>1
<1>5. Begins(e, u) /\ Behind(u, e, v, Len(v))
  BY DEF UnitedTo
<1>6. \A x : x \in Range(e) <=> \E i \in DOMAIN E : x \in Range(E[i].enum)
  BY DEF Holds
<1>7. \A i, j \in DOMAIN e : i < j => SeenBefore(EnumsIn(E), e[i], e[j])
  BY <1>3 DEF Holds, Ordered
<1>8. DOMAIN EnumsIn(E) = DOMAIN E /\ \A i \in DOMAIN E : EnumsIn(E)[i] = E[i].enum
  BY DEF EnumsIn
<1> HIDE DEF F, u, e, v, es
<1>9. CASE l <= Len(e)
  <2>1. m \in DOMAIN e /\ l \in DOMAIN e /\ u[m] = e[m] /\ u[l] = e[l]
    BY <1>4, <1>5, <1>9 DEF Begins
  <2>2. SeenBefore(EnumsIn(E), u[m], u[l])
    BY <1>7, <2>1
  <2>3. PICK i \in DOMAIN E : \E a \in DOMAIN es[i] :
          /\ es[i][a] = u[m]
          /\ \A j \in DOMAIN E : \A b \in DOMAIN es[j] :
               es[j][b] = u[l] => i < j \/ (i = j /\ a < b)
    BY <1>2, <1>8, <2>2 DEF SeenBefore
  <2> QED
    BY <1>2, <2>3 DEF SeenBefore
<1>10. CASE Len(e) < l
  <2>1. u[l] \notin Range(e)
    BY <1>4, <1>5, <1>10 DEF Behind
  <2>2. PICK b \in 1..Len(v) :
          /\ v[b] = u[l]
          /\ \A i \in 1..(l - 1) : Len(e) < i => \E a \in 1..(b - 1) : v[a] = u[i]
    BY <1>4, <1>5, <1>10 DEF Behind
  <2>3. \A j \in DOMAIN E : \A c \in DOMAIN es[j] : es[j][c] # u[l]
    <3>1. \A j \in DOMAIN E : u[l] \notin Range(E[j].enum)
      BY <1>6, <2>1
    <3> QED
      BY <1>2, <3>1 DEF Range
  <2>4. \A c \in DOMAIN v : v[c] = u[l] => c = b
    BY <1>3, <1>4, <2>2 DEF IsInjective
  <2>5. CASE m <= Len(e)
    <3>1. m \in DOMAIN e /\ u[m] = e[m]
      BY <1>4, <1>5, <2>5 DEF Begins
    <3>2. PICK i \in DOMAIN E : u[m] \in Range(E[i].enum)
      BY <1>6, <3>1 DEF Range
    <3>3. PICK a \in DOMAIN es[i] : es[i][a] = u[m]
      BY <1>2, <3>2 DEF Range
    <3> QED
      BY <1>2, <2>3, <3>3 DEF SeenBefore
  <2>6. CASE Len(e) < m
    <3>1. m \in 1..(l - 1)
      BY <1>4
    <3>2. PICK a \in 1..(b - 1) : v[a] = u[m]
      BY <2>2, <2>6, <3>1
    <3>3. a \in DOMAIN v /\ a < b
      BY <1>4, <2>2, <3>2
    <3> QED
      BY <1>2, <2>3, <2>4, <3>2, <3>3 DEF SeenBefore
  <2> QED
    BY <1>4, <2>5, <2>6
<1> QED
  BY <1>4, <1>9, <1>10

LEMMA HoldsMore ==
  ASSUME NEW q, NEW p, IsProperty(p), NEW E, NEW k \in Nat, DOMAIN E \subseteq Nat,
         DOMAIN E # {}, \A i \in DOMAIN E : i < k, Holds(q, E)
  PROVE  Holds(FoldedProperty(q, p), Plus(E, k, p))
<1> DEFINE F == Plus(E, k, p)
           f == FoldedProperty(q, p)
           u == UnitedEnum(q, p)
           d == JoinedDescription(q, p)
<1>1. IsProperty(q) /\ {"type", "enum", "description", "nested"} \subseteq DOMAIN q
  BY DEF Holds, IsProperty
<1>2. f.enum = u /\ f.description = d /\ f.nested = q.nested /\ DOMAIN f = DOMAIN q
  BY <1>1 DEF FoldedProperty
<1>3. UnitedTo(u, q.enum, p.enum, Len(p.enum))
  BY <1>1, UnitedIs
<1>4. /\ DOMAIN F = DOMAIN E \cup {k} /\ F[k] = p /\ k \notin DOMAIN E
      /\ \A i \in DOMAIN E : F[i] = E[i]
  BY DEF Plus
<1>5. Range(u) = Range(q.enum) \cup Range(p.enum) /\ u \in Seq(Range(u))
  <2> DEFINE e == q.enum
             v == p.enum
  <2>1. v \in Seq(Range(v))
    BY DEF IsProperty
  <2> HIDE DEF u, e, v
  <2>2. DOMAIN v = 1..Len(v)
    BY <2>1
  <2>3. Range(u) = Range(e) \cup Range(v) /\ u \in Seq(Range(e) \cup Range(v))
    BY <1>3, <2>2 DEF UnitedTo, Range, e, v
  <2> QED
    BY <2>3 DEF e, v
<1>6. /\ d \in Seq(Range(d)) /\ Range(q.description) \subseteq Range(d)
      /\ Range(p.description) \subseteq Range(d)
  <2> DEFINE a == q.description
             b == p.description
  <2>1. a \in Seq(Range(a)) /\ b \in Seq(Range(b))
    BY <1>1 DEF IsProperty
  <2>2. d = IF b = a THEN a ELSE a \o b
    BY DEF JoinedDescription
  <2> HIDE DEF a, b, d
  <2>3. CASE b = a
    BY <2>1, <2>2, <2>3 DEF a, b
  <2>4. CASE b # a
    <3> DEFINE T == Range(a) \cup Range(b)
               A == Range(a)
               B == Range(b)
               m == Len(a)
               n == Len(b)
    <3>1. a \in Seq(A) /\ b \in Seq(B) /\ A \subseteq T /\ B \subseteq T
      BY <2>1
    <3> HIDE DEF A, B, T
    <3>2. a \in Seq(T) /\ b \in Seq(T)
      BY <3>1
    <3>3. /\ d \in Seq(T) /\ DOMAIN a = 1..m /\ DOMAIN b = 1..n /\ DOMAIN d = 1..(m + n)
          /\ m \in Nat /\ n \in Nat /\ Len(d) = m + n
          /\ \A i \in 1..m : d[i] = a[i]
          /\ \A i \in 1..n : d[m + i] = b[i]
      BY <2>2, <2>4, <3>2
    <3> HIDE DEF m, n
    <3>4. (\A i \in 1..m : i \in 1..(m + n)) /\ \A i \in 1..n : m + i \in 1..(m + n)
      BY <3>3
    <3>5. Range(a) \subseteq Range(d) /\ Range(b) \subseteq Range(d)
      BY <3>3, <3>4 DEF Range
    <3>6. d \in Seq(Range(d))
      <4>1. \A i \in 1..(m + n) : d[i] \in Range(d)
        BY <3>3 DEF Range
      <4>2. Len(d) \in Nat /\ d = [i \in 1..Len(d) |-> d[i]]
        BY <3>3
      <4> DEFINE D == Range(d)
      <4>3. \A i \in 1..Len(d) : d[i] \in D
        BY <3>3, <4>1
      <4> HIDE DEF D
      <4> QED
        BY <4>2, <4>3 DEF D
    <3> QED
      BY <3>5, <3>6 DEF a, b
  <2> QED
    BY <2>3, <2>4
<1> HIDE DEF F, f, u, d
<1>7. IsProperty(f)
  BY <1>1, <1>2, <1>5, <1>6 DEF IsProperty
<1>8. Range(f.enum) = UNION {Range(F[i].enum) : i \in DOMAIN F}
  <2>1. ASSUME NEW x
        PROVE  x \in Range(f.enum) <=> \E i \in DOMAIN F : x \in Range(F[i].enum)
    <3>1. x \in Range(q.enum) <=> \E i \in DOMAIN E : x \in Range(E[i].enum)
      <4>1. Range(q.enum) = UNION {Range(E[i].enum) : i \in DOMAIN E}
        BY DEF Holds
      <4> QED
        BY <4>1
    <3>2. x \in Range(f.enum) <=> x \in Range(q.enum) \/ x \in Range(p.enum)
      BY <1>2, <1>5
    <3>3. CASE x \in Range(p.enum)
      BY <1>4, <3>2, <3>3
    <3>4. CASE x \notin Range(p.enum)
      BY <1>4, <3>1, <3>2, <3>4
    <3> QED
      BY <3>3, <3>4
  <2> QED
    BY <2>1
<1>9. Ordered(f, F)
  BY <1>2, <1>3, OrderedMore DEF F
<1>10. ASSUME NEW i \in DOMAIN F
       PROVE  /\ Range(F[i].description) \subseteq Range(f.description)
              /\ (\A j \in DOMAIN F : i <= j) => f.nested = F[i].nested
  <2>1. CASE i \in DOMAIN E
    <3>1. Range(E[i].description) \subseteq Range(q.description)
          /\ ((\A j \in DOMAIN E : i <= j) => q.nested = E[i].nested)
      BY <2>1 DEF Holds
    <3> QED
      BY <1>2, <1>4, <1>6, <2>1, <3>1
  <2>2. CASE i = k
    <3>1. ~ \A j \in DOMAIN F : i <= j
      <4>1. PICK j \in DOMAIN E : TRUE
        OBVIOUS
      <4>2. j \in Nat /\ j < k /\ j \in DOMAIN F
        BY <1>4
      <4> QED
        BY <2>2, <4>2
    <3> QED
      BY <1>2, <1>4, <1>6, <2>2, <3>1
  <2> QED
    BY <1>4, <2>1, <2>2
<1>11. Holds(f, F)
  BY <1>7, <1>8, <1>9, <1>10 DEF Holds
<1> QED
  BY <1>11 DEF f, F

\* The variants whose property n is merged, and what they say.
Done(n) == {i \in 1..at : In(i, n)}
Said(n) == [i \in Done(n) |-> Props(i)[n]]

KeptAll == union \in {"merging", "ok"} => \A n \in DOMAIN merged : Holds(merged[n], Said(n))

LEMMA UnionInitKept == UnionInit => KeptAll
BY DEF UnionInit, KeptAll

LEMMA UnionCallKept == UInv /\ UnionCall => KeptAll'
BY DEF UInv, Positions, UnionCall, KeptAll

LEMMA NextVariantKept == UInv /\ KeptAll /\ NextVariant => KeptAll'
<1> SUFFICES ASSUME UInv, KeptAll, NextVariant, NEW n \in DOMAIN merged', union' = "merging"
             PROVE  Holds(merged'[n], Said(n)')
  BY DEF KeptAll, NextVariant
<1>1. /\ union = "merging" /\ names = {} /\ at < Len(variants) /\ variants[at'].ok
      /\ at' = at + 1 /\ variants' = variants /\ merged' = merged
      /\ names' = DOMAIN variants[at'].props
  BY DEF NextVariant
<1>2. at \in Nat /\ at' \in 1..Len(variants)
  BY <1>1 DEF UInv, Positions, Shape
<1>3. Done(n)' = Done(n)
  <2>1. \A i \in 1..at' : i \in 1..at \/ i = at'
    BY <1>1, <1>2
  <2>2. ASSUME NEW i \in 1..at', In(i, n)' PROVE i \in 1..at /\ In(i, n)
    <3>1. i # at'
      BY <1>1, <1>2, <2>2 DEF In, Props
    <3> QED
      BY <1>1, <1>2, <2>1, <2>2, <3>1 DEF In, Props
  <2>3. \A i \in 1..at : i \in 1..at' /\ (In(i, n) => In(i, n)')
    BY <1>1, <1>2 DEF In, Props
  <2> QED
    BY <2>2, <2>3 DEF Done
<1>4. Said(n)' = Said(n)
  BY <1>1, <1>3 DEF Said, Props
<1> QED
  BY <1>1, <1>4 DEF KeptAll

LEMMA MergePropertyKept == UInv /\ KeptAll /\ MergeProperty => KeptAll'
<1> SUFFICES ASSUME UInv, KeptAll, MergeProperty, NEW m \in DOMAIN merged', union' # "error"
             PROVE  Holds(merged'[m], Said(m)')
  BY DEF KeptAll
<1> DEFINE prop(n) == variants[at].props[n]
           folded(n) == IF n \in DOMAIN merged THEN FoldedProperty(merged[n], prop(n)) ELSE prop(n)
<1>1. union = "merging" /\ variants' = variants /\ at' = at
  BY DEF MergeProperty
<1>2. PICK n \in names :
        /\ merged' = [j \in DOMAIN merged \cup {n} |-> IF j = n THEN folded(n) ELSE merged[j]]
        /\ names' = names \ {n}
  BY <1>1 DEF MergeProperty
<1>3. /\ at \in 1..Len(variants) /\ at \in 1..at /\ n \in DOMAIN Props(at) /\ prop(n) = Props(at)[n]
      /\ IsProperty(prop(n)) /\ at \in Nat
  BY <1>1, <1>2 DEF UInv, Positions, Agreed, Shape, Props
<1> HIDE DEF folded, prop
<1>4. \A i : Props(i)' = Props(i)
  BY <1>1 DEF Props
<1>5. CASE m # n
  <2>1. m \in DOMAIN merged /\ merged'[m] = merged[m]
    BY <1>2, <1>5
  <2>2. \A i : In(i, m)' <=> In(i, m)
    BY <1>1, <1>2, <1>4, <1>5 DEF In
  <2>3. Done(m)' = Done(m)
    BY <1>1, <2>2 DEF Done
  <2>4. Said(m)' = Said(m)
    BY <1>4, <2>3 DEF Said
  <2> QED
    BY <1>1, <2>1, <2>4 DEF KeptAll
<1>6. CASE m = n
  <2> DEFINE p == prop(n)
             E == Said(n)
  <2>1. merged'[n] = folded(n)
    BY <1>2
  <2>2. \A i \in 1..at : In(i, n)' <=> In(i, n) \/ i = at
    BY <1>1, <1>2, <1>3, <1>4 DEF In
  <2>3. ~ In(at, n)
    BY <1>2, <1>3 DEF In
  <2>4. Done(n)' = Done(n) \cup {at}
    BY <1>1, <1>3, <2>2 DEF Done
  <2>5. DOMAIN E = Done(n) /\ \A i \in Done(n) : E[i] = Props(i)[n]
    BY DEF Said
  <2>6. Said(n)' = Plus(E, at, p)
    <3>1. Said(n)' = [i \in Done(n) \cup {at} |-> Props(i)[n]]
      BY <1>4, <2>4 DEF Said
    <3>2. Plus(E, at, p) = [i \in Done(n) \cup {at} |-> IF i = at THEN p ELSE E[i]]
      BY <2>5 DEF Plus
    <3>3. \A i \in Done(n) \cup {at} : Props(i)[n] = IF i = at THEN p ELSE E[i]
      BY <1>3, <2>5
    <3> QED
      BY <3>1, <3>2, <3>3
  <2>7. DOMAIN E \subseteq Nat /\ \A i \in DOMAIN E : i < at
    BY <1>3, <2>3, <2>5 DEF Done
  <2>8. CASE n \in DOMAIN merged
    <3>1. DOMAIN E # {}
      <4>1. \E i \in 1..at : In(i, n)
        BY <1>1, <2>8 DEF UInv, Agreed
      <4> QED
        BY <2>5, <4>1 DEF Done
    <3>2. Holds(merged[n], E)
      BY <1>1, <2>8 DEF KeptAll
    <3> HIDE DEF E, p
    <3>3. folded(n) = FoldedProperty(merged[n], p)
      BY <2>8 DEF folded, p
    <3>4. IsProperty(p)
      BY <1>3 DEF p
    <3>5. Holds(FoldedProperty(merged[n], p), Plus(E, at, p))
      BY <1>3, <2>7, <3>1, <3>2, <3>4, HoldsMore
    <3> QED
      BY <1>6, <2>1, <2>6, <3>3, <3>5
  <2>9. CASE n \notin DOMAIN merged
    <3>1. DOMAIN E = {}
      <4>1. \A i \in 1..at : ~ In(i, n)
        BY <1>1, <2>9 DEF UInv, Agreed, In
      <4> QED
        BY <2>5, <4>1 DEF Done
    <3> HIDE DEF E, p
    <3>2. folded(n) = p /\ IsProperty(p)
      BY <1>3, <2>9 DEF folded, p
    <3>3. Holds(p, Plus(E, at, p))
      BY <3>1, <3>2, HoldsFirst
    <3> QED
      BY <1>6, <2>1, <2>6, <3>2, <3>3
  <2> QED
    BY <2>8, <2>9
<1> QED
  BY <1>5, <1>6

LEMMA UnionDoneKept == KeptAll /\ UnionDone => KeptAll'
BY DEF KeptAll, UnionDone, Said, Done, In, Props

LEMMA UnionStutterKept == KeptAll /\ UNCHANGED unionVars => KeptAll'
BY DEF KeptAll, unionVars, Said, Done, In, Props

LEMMA KeptGives == UInv /\ KeptAll => MergedField
<1> SUFFICES ASSUME UInv, KeptAll, union = "ok",
                    NEW n \in UNION {DOMAIN Props(i) : i \in DOMAIN variants}
             PROVE  /\ Range(merged[n].enum) = UNION {Range(e) : e \in Range(Enums(n))}
                    /\ (\A e \in Range(Enums(n)) : IsInjective(e)) =>
                         \A k, l \in DOMAIN merged[n].enum :
                           k < l => SeenBefore(Enums(n), merged[n].enum[k], merged[n].enum[l])
                    /\ \A i \in Having(n) :
                         /\ merged[n].type = Props(i)[n].type
                         /\ Range(Props(i)[n].description) \subseteq Range(merged[n].description)
                         /\ (\A j \in Having(n) : i <= j) => merged[n].nested = Props(i)[n].nested
  BY DEF MergedField
<1> DEFINE E == Said(n)
           q == merged[n]
<1>1. at = Len(variants) /\ names = {} /\ DOMAIN variants = 1..at /\ Shape(variants)
  BY DEF UInv, Verdicts, Positions, Shape
<1>2. \A i \in 1..at : In(i, n) <=> n \in DOMAIN Props(i)
  BY <1>1 DEF In
<1>3. Done(n) = Having(n)
  BY <1>1, <1>2 DEF Done, Having
<1>4. DOMAIN E = Having(n) /\ \A i \in Having(n) : E[i] = Props(i)[n]
  BY <1>3 DEF Said
<1>5. n \in DOMAIN merged /\ \A i \in Having(n) : merged[n].type = Props(i)[n].type
  BY <1>1, <1>2 DEF UInv, Agreed, Having
<1>6. Holds(q, E)
  BY <1>5 DEF KeptAll
<1> HIDE DEF E, q
<1>7. EnumsIn(E) = Enums(n) /\ DOMAIN Enums(n) = DOMAIN E
      /\ \A i \in DOMAIN E : Enums(n)[i] = E[i].enum
  BY <1>4 DEF EnumsIn, Enums
<1>8. ASSUME NEW x
      PROVE  x \in Range(q.enum) <=> x \in UNION {Range(e) : e \in Range(Enums(n))}
  <2>1. x \in Range(q.enum) <=> \E i \in DOMAIN E : x \in Range(E[i].enum)
    BY <1>6 DEF Holds
  <2>2. x \in UNION {Range(e) : e \in Range(Enums(n))}
          <=> \E i \in DOMAIN Enums(n) : x \in Range(Enums(n)[i])
    BY DEF Range
  <2> QED
    BY <1>7, <2>1, <2>2
<1>9. (\A e \in Range(Enums(n)) : IsInjective(e)) =>
        \A k, l \in DOMAIN q.enum : k < l => SeenBefore(Enums(n), q.enum[k], q.enum[l])
  <2>1. Ordered(q, E)
    BY <1>6 DEF Holds
  <2>2. \A i \in DOMAIN E : E[i].enum \in Range(Enums(n))
    BY <1>7 DEF Range
  <2> QED
    BY <1>7, <2>1, <2>2 DEF Ordered
<1>10. ASSUME NEW i \in Having(n)
       PROVE  /\ Range(Props(i)[n].description) \subseteq Range(q.description)
              /\ (\A j \in Having(n) : i <= j) => q.nested = Props(i)[n].nested
  BY <1>4, <1>6 DEF Holds
<1>11. Range(q.enum) = UNION {Range(e) : e \in Range(Enums(n))}
  BY <1>8
<1> QED
  BY <1>5, <1>9, <1>10, <1>11 DEF q

\* What the union says of a field, however many variants have it and in whatever
\* order the names come: the one type, the values of all the enums in the order in
\* which they are first seen, every description, and the first variant's nested
\* schema, the others' being dropped.
THEOREM UnionMergesFields == UnionSpec => []MergedField
<1>1. UInv /\ [UnionNext]_unionVars => UInv'
  BY UnionCallUInv, NextVariantUInv, MergePropertyUInv, UnionDoneUInv, UnionStutterUInv
  DEF UnionNext
<1>2. UInv /\ KeptAll /\ [UnionNext]_unionVars => KeptAll'
  BY UnionCallKept, NextVariantKept, MergePropertyKept, UnionDoneKept, UnionStutterKept
  DEF UnionNext
<1> QED
  BY UnionInitUInv, UnionInitKept, <1>1, <1>2, KeptGives, PTL DEF UnionSpec
================================================================================
