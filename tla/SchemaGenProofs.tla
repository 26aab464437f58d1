---------------------------- MODULE SchemaGenProofs ----------------------------
(***************************************************************************)
(* jsonschema's walk, for any type graph and any depth: which structs are  *)
(* marked, which types are refused, what the root object has, how deep the *)
(* calls nest and which types overflow the stack.                          *)
(***************************************************************************)
EXTENDS SchemaGen, SequenceTheorems, FunctionTheorems, FiniteSetTheorems,
        WellFoundedInduction, TLAPS

--------------------------------------------------------------------------------
(* The inductive invariant: the frames of the walk, and their marks.       *)

Frames ==
  [call : {"schemaFor", "list", "fields"}, type : DOMAIN graph, next : Nat \ {0},
   marked : BOOLEAN, ofRoot : BOOLEAN]

WellFormed(st) ==
  /\ st \in Seq(Frames) /\ Len(st) > 0
  /\ \A i \in 1..Len(st) : st[i].marked => st[i].call = "fields"

\* The marked structs of st are those of marks, each once.
Marks(st, marks) ==
  /\ marks = {st[i].type : i \in {j \in 1..Len(st) : st[j].marked}}
  /\ \A i, j \in 1..Len(st) :
       st[i].marked /\ st[j].marked /\ st[i].type = st[j].type => i = j

GraphLegal == \A t \in DOMAIN graph : LegalType(graph, t)

SInv ==
  /\ walk = "idle" => visiting = {}
  /\ walk = "walking" => GraphLegal /\ WellFormed(stack) /\ Marks(stack, visiting)

--------------------------------------------------------------------------------
(* Stacks.                                                                 *)

\* The parts of a stack that is not empty.
LEMMA TopAndRest ==
  ASSUME NEW S, NEW st \in Seq(S), Len(st) > 0
  PROVE  /\ Last(st) = st[Len(st)] /\ Last(st) \in S
         /\ Front(st) \in Seq(S) /\ Len(Front(st)) = Len(st) - 1
         /\ \A i \in 1..(Len(st) - 1) : Front(st)[i] = st[i]
<1>1. Last(st) = st[Len(st)] /\ Last(st) \in S
  BY DEF Last
<1>2. /\ Front(st) \in Seq(S) /\ Len(Front(st)) = Len(st) - 1
      /\ \A i \in 1..(Len(st) - 1) : Front(st)[i] = st[i]
  <2> DEFINE m == Len(st) - 1
  <2>1. m \in Int /\ m >= 0 /\ \A i \in 1..m : i \in Int /\ st[i] \in S
    OBVIOUS
  <2> HIDE DEF m
  <2>2. /\ SubSeq(st, 1, m) \in Seq(S)
        /\ Len(SubSeq(st, 1, m)) = IF 1 <= m THEN m - 1 + 1 ELSE 0
        /\ \A i \in 1..(m - 1 + 1) : SubSeq(st, 1, m)[i] = st[1 + i - 1]
    BY <2>1, SubSeqProperties
  <2>3. Len(SubSeq(st, 1, m)) = m /\ \A i \in 1..m : SubSeq(st, 1, m)[i] = st[i]
    BY <2>1, <2>2
  <2> QED
    BY <2>2, <2>3 DEF Front, m
<1> QED
  BY <1>1, <1>2

LEMMA Pushed ==
  ASSUME NEW S, NEW st \in Seq(S), NEW f \in S
  PROVE  /\ Append(st, f) \in Seq(S) /\ Len(Append(st, f)) = Len(st) + 1
         /\ \A i \in 1..Len(st) : Append(st, f)[i] = st[i]
         /\ Append(st, f)[Len(st) + 1] = f
  OBVIOUS

LEMMA OneFrame ==
  ASSUME NEW S, NEW f \in S
  PROVE  <<f>> \in Seq(S) /\ Len(<<f>>) = 1 /\ \A i \in 1..1 : <<f>>[i] = f
  OBVIOUS

\* A frame that marks nothing is pushed.
LEMMA PushUnmarked ==
  ASSUME NEW st, NEW marks, st \in Seq(Frames), Marks(st, marks),
         \A i \in 1..Len(st) : st[i].marked => st[i].call = "fields",
         NEW f \in Frames, ~f.marked
  PROVE  WellFormed(Append(st, f)) /\ Marks(Append(st, f), marks)
<1> DEFINE new == Append(st, f)
<1>1. /\ new \in Seq(Frames) /\ Len(new) = Len(st) + 1 /\ Len(st) \in Nat
      /\ \A i \in 1..Len(st) : new[i] = st[i]
      /\ new[Len(st) + 1] = f
  BY Pushed
<1> HIDE DEF new
<1>2. \A i \in 1..Len(new) : (i \in 1..Len(st) /\ new[i] = st[i]) \/ ~new[i].marked
  <2>1. \A i \in 1..Len(new) : i \in 1..Len(st) \/ i = Len(st) + 1
    BY <1>1
  <2> QED
    BY <1>1, <2>1
<1>3. \A i \in 1..Len(st) : i \in 1..Len(new)
  BY <1>1
<1>4. WellFormed(new)
  BY <1>1, <1>2 DEF WellFormed
<1>5. Marks(new, marks)
  BY <1>1, <1>2, <1>3 DEF Marks
<1> QED
  BY <1>4, <1>5 DEF new

\* A struct that is not marked yet is.
LEMMA PushMarked ==
  ASSUME NEW st, NEW marks, st \in Seq(Frames), Marks(st, marks),
         \A i \in 1..Len(st) : st[i].marked => st[i].call = "fields",
         NEW f \in Frames, f.marked, f.call = "fields", f.type \notin marks
  PROVE  WellFormed(Append(st, f)) /\ Marks(Append(st, f), marks \cup {f.type})
<1> DEFINE new == Append(st, f)
<1>1. /\ new \in Seq(Frames) /\ Len(new) = Len(st) + 1 /\ Len(st) \in Nat
      /\ \A i \in 1..Len(st) : new[i] = st[i]
      /\ new[Len(st) + 1] = f
  BY Pushed
<1> HIDE DEF new
<1>2. \A i \in 1..Len(new) : (i \in 1..Len(st) /\ new[i] = st[i]) \/ (i = Len(st) + 1 /\ new[i] = f)
  <2>1. \A i \in 1..Len(new) : i \in 1..Len(st) \/ i = Len(st) + 1
    BY <1>1
  <2> QED
    BY <1>1, <2>1
<1>3. (\A i \in 1..Len(st) : i \in 1..Len(new)) /\ Len(st) + 1 \in 1..Len(new)
  BY <1>1
<1>4. WellFormed(new)
  BY <1>1, <1>2 DEF WellFormed
<1>5. \A i \in 1..Len(st) : st[i].marked => st[i].type \in marks
  BY DEF Marks
<1>6. marks \cup {f.type} = {new[i].type : i \in {j \in 1..Len(new) : new[j].marked}}
  BY <1>1, <1>2, <1>3 DEF Marks
<1>7. \A i, j \in 1..Len(new) :
        new[i].marked /\ new[j].marked /\ new[i].type = new[j].type => i = j
  BY <1>2, <1>5 DEF Marks
<1> QED
  BY <1>4, <1>6, <1>7 DEF Marks, new

\* The top frame goes, and its mark with it.
LEMMA Popped ==
  ASSUME NEW st, NEW marks, WellFormed(st), Marks(st, marks)
  PROVE  /\ Front(st) \in Seq(Frames)
         /\ \A i \in 1..Len(Front(st)) : Front(st)[i].marked => Front(st)[i].call = "fields"
         /\ Marks(Front(st), IF Last(st).marked THEN marks \ {Last(st).type} ELSE marks)
<1> DEFINE rest == Front(st)
           top == Last(st)
           left == IF top.marked THEN marks \ {top.type} ELSE marks
<1>1. /\ rest \in Seq(Frames) /\ Len(rest) = Len(st) - 1 /\ Len(st) \in Nat \ {0}
      /\ \A i \in 1..Len(rest) : rest[i] = st[i]
      /\ top = st[Len(st)]
  <2>1. st \in Seq(Frames) /\ Len(st) \in Nat \ {0}
    BY DEF WellFormed
  <2> HIDE DEF rest, top
  <2>2. /\ Last(st) = st[Len(st)]
        /\ Front(st) \in Seq(Frames) /\ Len(Front(st)) = Len(st) - 1
        /\ \A i \in 1..(Len(st) - 1) : Front(st)[i] = st[i]
    BY <2>1, TopAndRest
  <2> QED
    BY <2>1, <2>2 DEF rest, top
<1> HIDE DEF rest, top
<1>2. \A i \in 1..Len(st) : (i \in 1..Len(rest) /\ rest[i] = st[i]) \/ (i = Len(st) /\ st[i] = top)
  <2>1. \A i \in 1..Len(st) : i \in 1..Len(rest) \/ i = Len(st)
    BY <1>1
  <2> QED
    BY <1>1, <2>1
<1>3. (\A i \in 1..Len(rest) : i \in 1..Len(st) /\ i # Len(st)) /\ Len(st) \in 1..Len(st)
  BY <1>1
<1>4. \A i \in 1..Len(rest) : rest[i].marked => rest[i].call = "fields"
  BY <1>1, <1>3 DEF WellFormed
<1>5. left = {rest[i].type : i \in {j \in 1..Len(rest) : rest[j].marked}}
  <2>1. ASSUME NEW t \in left PROVE \E i \in 1..Len(rest) : rest[i].marked /\ t = rest[i].type
    <3>1. t \in marks /\ (top.marked => t # top.type)
      OBVIOUS
    <3>2. PICK i \in 1..Len(st) : st[i].marked /\ t = st[i].type
      BY <3>1 DEF Marks
    <3> QED
      BY <1>2, <3>1, <3>2
  <2>2. ASSUME NEW i \in 1..Len(rest), rest[i].marked PROVE rest[i].type \in left
    <3>1. i \in 1..Len(st) /\ i # Len(st) /\ st[i] = rest[i]
      BY <1>1, <1>3
    <3>2. rest[i].type \in marks
      BY <2>2, <3>1 DEF Marks
    <3>3. top.marked => top.type # rest[i].type
      BY <1>1, <1>3, <2>2, <3>1 DEF Marks
    <3> QED
      BY <3>2, <3>3
  <2> QED
    BY <2>1, <2>2
<1>6. \A i, j \in 1..Len(rest) :
        rest[i].marked /\ rest[j].marked /\ rest[i].type = rest[j].type => i = j
  BY <1>1, <1>3 DEF Marks
<1> QED
  BY <1>1, <1>4, <1>5, <1>6 DEF Marks, rest, top

--------------------------------------------------------------------------------
(* The steps.                                                              *)

\* What a step of the walk finds: the top frame, and the stack below it.
Below ==
  /\ Top \in Frames
  /\ Front(stack) \in Seq(Frames)
  /\ \A i \in 1..Len(Front(stack)) :
       Front(stack)[i].marked => Front(stack)[i].call = "fields"
  /\ Marks(Front(stack), Unmarked)
  /\ Top.marked => Top.call = "fields"

LEMMA WalkingBelow == ASSUME SInv, walk = "walking" PROVE Below
<1>1. WellFormed(stack) /\ Marks(stack, visiting)
  BY DEF SInv
<1>2. stack \in Seq(Frames) /\ Len(stack) \in Nat \ {0}
  BY <1>1 DEF WellFormed
<1>3. Top = stack[Len(stack)] /\ Top \in Frames
  BY <1>2, TopAndRest DEF Top
<1>4. Top.marked => Top.call = "fields"
  BY <1>1, <1>2, <1>3 DEF WellFormed
<1>5. /\ Front(stack) \in Seq(Frames)
      /\ \A i \in 1..Len(Front(stack)) :
           Front(stack)[i].marked => Front(stack)[i].call = "fields"
      /\ Marks(Front(stack), IF Last(stack).marked THEN visiting \ {Last(stack).type}
                             ELSE visiting)
  BY <1>1, Popped
<1> QED
  BY <1>3, <1>4, <1>5 DEF Below, Unmarked, Top

\* A step that pushes, from a stack with the marks that remain.
LEMMA StaysOpen ==
  ASSUME SInv, walk = "walking", walk' = "walking", graph' = graph,
         WellFormed(stack'), Marks(stack', visiting')
  PROVE  SInv'
<1>1. Frames' = Frames
  BY DEF Frames
<1>2. WellFormed(stack)'
  BY <1>1 DEF WellFormed
<1> QED
  BY <1>2 DEF SInv, GraphLegal, LegalType, Marks

LEMMA FromReflectTypeSInv == SInv /\ FromReflectType => SInv'
<1> SUFFICES ASSUME SInv, FromReflectType PROVE SInv'
  OBVIOUS
<1>1. /\ walk' = "walking" /\ graph' \in Graphs /\ root' \in Roots
      /\ stack' = <<SchemaFor(root', TRUE)>> /\ visiting' = {}
  BY DEF FromReflectType, SInv
<1>2. GraphLegal' /\ root' \in DOMAIN graph'
  BY <1>1, GraphAssumption DEF GraphLegal, LegalType
<1>3. SchemaFor(root', TRUE) \in Frames' /\ ~SchemaFor(root', TRUE).marked
  BY <1>2 DEF Frames, SchemaFor
<1>4. /\ stack' \in Seq(Frames') /\ Len(stack') = 1
      /\ \A i \in 1..Len(stack') : ~stack'[i].marked
  <2> DEFINE f == SchemaFor(root', TRUE)
             F == Frames'
  <2>1. f \in F /\ ~f.marked /\ stack' = <<f>>
    BY <1>1, <1>3
  <2> HIDE DEF f, F
  <2>2. stack' \in Seq(F) /\ Len(stack') = 1 /\ \A i \in 1..1 : stack'[i] = f
    BY <2>1, OneFrame
  <2> QED
    BY <2>1, <2>2 DEF F
<1>5. WellFormed(stack)' /\ Marks(stack, visiting)'
  <2>1. WellFormed(stack)'
    BY <1>4 DEF WellFormed
  <2>2. \A i \in 1..Len(stack') : ~stack'[i].marked
    BY <1>4
  <2>3. visiting' = {stack'[i].type : i \in {j \in 1..Len(stack') : stack'[j].marked}}
    BY <1>1, <2>2
  <2>4. Marks(stack, visiting)'
    BY <2>2, <2>3 DEF Marks
  <2> QED
    BY <2>1, <2>4
<1> QED
  BY <1>1, <1>2, <1>5 DEF SInv

LEMMA DerefSInv == SInv /\ Deref => SInv'
<1> SUFFICES ASSUME SInv, Deref PROVE SInv'
  OBVIOUS
<1> DEFINE f == [Top EXCEPT !.type = graph[Top.type].elem]
<1>1. /\ walk = "walking" /\ Top.call = "schemaFor" /\ Kind(Top.type) = "pointer"
      /\ stack' = Append(Front(stack), f)
      /\ UNCHANGED <<graph, visiting, walk>>
  BY DEF Deref, Walks, Replace
<1>2. Below
  BY <1>1, WalkingBelow
<1>3. ~Top.marked /\ Top \in Frames /\ Unmarked = visiting
  BY <1>1, <1>2 DEF Below, Unmarked
<1>4. f \in Frames /\ ~f.marked
  <2>1. graph[Top.type].elem \in DOMAIN graph
    BY <1>1, <1>3 DEF SInv, GraphLegal, LegalType, Kind, Frames
  <2> QED
    BY <1>3, <2>1 DEF Frames
<1> HIDE DEF f
<1>5. WellFormed(Append(Front(stack), f)) /\ Marks(Append(Front(stack), f), visiting)
  BY <1>2, <1>3, <1>4, PushUnmarked DEF Below
<1> QED
  BY <1>1, <1>5, StaysOpen

\* A call returns: of schemaFor, with its mark, or of a flattened struct's walk.
LEMMA PopSInv ==
  ASSUME SInv, walk = "walking", Pop, visiting' = Unmarked
  PROVE  SInv'
<1>1. /\ stack' = Front(stack) /\ graph' = graph
      /\ walk' = IF Len(stack) = 1 THEN "ok" ELSE "walking"
  BY DEF Pop
<1>2. Below
  BY WalkingBelow
<1>3. CASE Len(stack) = 1
  BY <1>1, <1>3 DEF SInv
<1>4. CASE Len(stack) # 1
  <2>1. Len(Front(stack)) > 0
    <3>1. stack \in Seq(Frames) /\ Len(stack) \in Nat \ {0}
      BY DEF SInv, WellFormed
    <3>2. Len(Front(stack)) = Len(stack) - 1
      BY <3>1, TopAndRest
    <3> QED
      BY <1>4, <3>1, <3>2
  <2>2. WellFormed(Front(stack)) /\ Marks(Front(stack), Unmarked)
    BY <1>2, <2>1 DEF Below, WellFormed
  <2> QED
    BY <1>1, <1>4, <2>2, StaysOpen
<1> QED
  BY <1>3, <1>4

LEMMA ReturnSInv == SInv /\ (Leaf \/ EndList \/ EndStruct) => SInv'
<1> SUFFICES ASSUME SInv, Leaf \/ EndList \/ EndStruct PROVE SInv'
  OBVIOUS
<1>1. walk = "walking" /\ Pop
  BY DEF Leaf, EndList, EndStruct, Walks
<1>2. CASE Leaf \/ EndList
  <2>1. ~Top.marked
    BY <1>1, <1>2, WalkingBelow DEF Below, Leaf, EndList, Walks
  <2>2. visiting' = Unmarked
    BY <1>2, <2>1 DEF Leaf, EndList, Unmarked
  <2> QED
    BY <1>1, <2>2, PopSInv
<1>3. CASE EndStruct
  BY <1>1, <1>3, PopSInv DEF EndStruct
<1> QED
  BY <1>2, <1>3

LEMMA ElementSInv == SInv /\ Element => SInv'
<1> SUFFICES ASSUME SInv, Element PROVE SInv'
  OBVIOUS
<1> DEFINE f == [Top EXCEPT !.call = "list"]
           g == SchemaFor(graph[Top.type].elem, FALSE)
           mid == Append(Front(stack), f)
<1>1. /\ walk = "walking" /\ Top.call = "schemaFor" /\ Kind(Top.type) = "list"
      /\ stack' = Append(mid, g)
      /\ UNCHANGED <<graph, visiting, walk>>
  BY DEF Element, Walks
<1>2. Below
  BY <1>1, WalkingBelow
<1>3. ~Top.marked /\ Top \in Frames /\ Unmarked = visiting
  BY <1>1, <1>2 DEF Below, Unmarked
<1>4. f \in Frames /\ ~f.marked
  BY <1>3 DEF Frames
<1>5. g \in Frames /\ ~g.marked
  <2>1. graph[Top.type].elem \in DOMAIN graph
    BY <1>1, <1>3 DEF SInv, GraphLegal, LegalType, Kind, Frames
  <2> QED
    BY <2>1 DEF Frames, SchemaFor
<1> HIDE DEF f, g
<1>6. WellFormed(mid) /\ Marks(mid, visiting)
  BY <1>2, <1>3, <1>4, PushUnmarked DEF Below
<1> HIDE DEF mid
<1>7. WellFormed(Append(mid, g)) /\ Marks(Append(mid, g), visiting)
  BY <1>5, <1>6, PushUnmarked DEF WellFormed
<1> QED
  BY <1>1, <1>7, StaysOpen

LEMMA EnterStructSInv == SInv /\ EnterStruct => SInv'
<1> SUFFICES ASSUME SInv, EnterStruct PROVE SInv'
  OBVIOUS
<1> DEFINE f == [Top EXCEPT !.call = "fields", !.marked = TRUE]
<1>1. /\ walk = "walking" /\ Top.call = "schemaFor" /\ Top.type \notin visiting
      /\ stack' = Append(Front(stack), f)
      /\ visiting' = visiting \cup {Top.type}
      /\ UNCHANGED <<graph, walk>>
  BY DEF EnterStruct, Walks, Replace, Visited
<1>2. Below
  BY <1>1, WalkingBelow
<1>3. ~Top.marked /\ Top \in Frames /\ Unmarked = visiting
  BY <1>1, <1>2 DEF Below, Unmarked
<1>4. f \in Frames /\ f.marked /\ f.call = "fields" /\ f.type = Top.type
  BY <1>3 DEF Frames
<1> HIDE DEF f
<1>5. /\ WellFormed(Append(Front(stack), f))
      /\ Marks(Append(Front(stack), f), visiting \cup {f.type})
  BY <1>1, <1>2, <1>3, <1>4, PushMarked DEF Below
<1> QED
  BY <1>1, <1>4, <1>5, StaysOpen

\* The loop goes on in the same frame, at the next field.
LEMMA NextField ==
  ASSUME SInv, walk = "walking", Top.call = "fields"
  PROVE  LET rest == Append(Front(stack), [Top EXCEPT !.next = @ + 1])
         IN  WellFormed(rest) /\ Marks(rest, visiting)
<1> DEFINE f == [Top EXCEPT !.next = @ + 1]
<1>1. Below
  BY WalkingBelow
<1>2. /\ f \in Frames /\ f.call = "fields" /\ f.type = Top.type
      /\ f.marked = Top.marked /\ Top.marked \in BOOLEAN
  BY <1>1 DEF Below, Frames
<1> HIDE DEF f
<1>3. CASE ~Top.marked
  BY <1>1, <1>2, <1>3, PushUnmarked DEF Below, Unmarked, f
<1>4. CASE Top.marked
  <2>1. Unmarked = visiting \ {Top.type} /\ Top.type \in visiting
    <3>1. stack \in Seq(Frames) /\ Len(stack) \in Nat \ {0} /\ Marks(stack, visiting)
      BY DEF SInv, WellFormed
    <3>2. Len(stack) > 0 /\ Len(stack) \in 1..Len(stack)
      BY <3>1
    <3>3. Top = stack[Len(stack)]
      BY <3>1, <3>2, TopAndRest DEF Top
    <3> QED
      BY <1>4, <3>1, <3>2, <3>3 DEF Marks, Unmarked
  <2>2. (visiting \ {Top.type}) \cup {f.type} = visiting
    BY <1>2, <2>1
  <2>3. /\ WellFormed(Append(Front(stack), f))
        /\ Marks(Append(Front(stack), f), (visiting \ {Top.type}) \cup {f.type})
    BY <1>1, <1>2, <1>4, <2>1, PushMarked DEF Below
  <2> QED
    BY <2>2, <2>3 DEF f
<1> QED
  BY <1>3, <1>4

LEMMA WalkFieldSInv == SInv /\ WalkField => SInv'
<1> SUFFICES ASSUME SInv, WalkField PROVE SInv'
  OBVIOUS
<1> DEFINE rest == Append(Front(stack), [Top EXCEPT !.next = @ + 1])
           flat == [SchemaFor(Field.type, Top.ofRoot) EXCEPT !.call = "fields"]
           called == SchemaFor(Field.type, FALSE)
<1>1. /\ walk = "walking" /\ Top.call = "fields" /\ Top.next <= Len(graph[Top.type].fields)
      /\ stack' \in {rest, Append(rest, flat), Append(rest, called)}
      /\ UNCHANGED <<graph, visiting, walk>>
  BY DEF WalkField, Walks
<1>2. WellFormed(rest) /\ Marks(rest, visiting)
  BY <1>1, NextField
<1>3. flat \in Frames /\ ~flat.marked /\ called \in Frames /\ ~called.marked
  <2>1. Top \in Frames
    BY <1>1, WalkingBelow DEF Below
  <2>2. Top.next \in 1..Len(graph[Top.type].fields) /\ Top.type \in DOMAIN graph
    BY <1>1, <2>1 DEF Frames
  <2>3. Field.type \in DOMAIN graph
    BY <1>1, <2>2 DEF SInv, GraphLegal, LegalType, Field
  <2>4. Top.ofRoot \in BOOLEAN
    BY <2>1 DEF Frames
  <2>5. called \in Frames /\ ~called.marked
    BY <2>3 DEF Frames, SchemaFor
  <2> DEFINE g == SchemaFor(Field.type, Top.ofRoot)
  <2>6. g \in Frames /\ ~g.marked
    BY <2>3, <2>4 DEF Frames, SchemaFor
  <2>7. flat \in Frames /\ ~flat.marked
    <3> HIDE DEF g
    <3>1. [g EXCEPT !.call = "fields"] \in Frames /\ ~[g EXCEPT !.call = "fields"].marked
      BY <2>6 DEF Frames
    <3> QED
      BY <3>1 DEF g
  <2> QED
    BY <2>5, <2>7
<1> HIDE DEF rest, flat, called
<1>4. ASSUME NEW f \in Frames, ~f.marked
      PROVE  WellFormed(Append(rest, f)) /\ Marks(Append(rest, f), visiting)
  BY <1>2, <1>4, PushUnmarked DEF WellFormed
<1>5. WellFormed(stack') /\ Marks(stack', visiting)
  BY <1>1, <1>2, <1>3, <1>4
<1> QED
  BY <1>1, <1>5, StaysOpen

LEMMA SchemaNextSInv == SInv /\ [SchemaNext]_schemaVars => SInv'
<1> SUFFICES ASSUME SInv, [SchemaNext]_schemaVars PROVE SInv'
  OBVIOUS
<1>1. CASE Fails \/ Overflow
  BY <1>1 DEF SInv, Fails, Overflow
<1>2. CASE UNCHANGED schemaVars
  BY <1>2 DEF SInv, GraphLegal, LegalType, WellFormed, Frames, Marks, schemaVars
<1> QED
  BY <1>1, <1>2, FromReflectTypeSInv, DerefSInv, ReturnSInv, ElementSInv, EnterStructSInv,
     WalkFieldSInv DEF SchemaNext, Step

--------------------------------------------------------------------------------
\* For type graphs of any size and walks of any depth: the structs marked as being
\* visited are those whose call of schemaFor has not returned, each of them once.
THEOREM MarksAreOpenCalls == SchemaSpec => []VisitingIsOpen
<1>1. SchemaInit => SInv
  BY DEF SchemaInit, SInv
<1>2. SInv => VisitingIsOpen
  <2> SUFFICES ASSUME SInv, walk = "walking"
               PROVE  LET open == {i \in DOMAIN stack : stack[i].marked} IN
                        /\ visiting = {stack[i].type : i \in open}
                        /\ IsInjective([i \in open |-> stack[i].type])
    BY DEF VisitingIsOpen
  <2>1. DOMAIN stack = 1..Len(stack) /\ Marks(stack, visiting)
    BY DEF SInv, WellFormed
  <2> QED
    BY <2>1 DEF Marks, IsInjective
<1> QED
  BY <1>1, <1>2, SchemaNextSInv, PTL DEF SchemaSpec

--------------------------------------------------------------------------------
(* Reachability.                                                           *)

\* What From is: it holds the steps from t and those from its own members, and
\* what it holds is a step from t or lies beyond one.
LEMMA Reaches ==
  ASSUME NEW D, NEW next \in [D -> SUBSET D], NEW t \in D
  PROVE  /\ From(t, next) \subseteq D
         /\ next[t] \subseteq From(t, next)
         /\ \A u \in From(t, next) : next[u] \subseteq From(t, next)
         /\ \A u \in From(t, next) : u \in next[t] \/ \E w \in next[t] : u \in From(w, next)
<1> DEFINE Holds(S, s) == \A r \in S \cup {s} : next[r] \subseteq S
<1>1. \A s : From(s, next) = {u \in D : \A S \in SUBSET D : Holds(S, s) => u \in S}
  BY DEF From
<1>2. \A S : Holds(S, t) => \A r \in S \cup {t} : next[r] \subseteq S
  OBVIOUS
<1>3. next[t] \subseteq D /\ \A u \in D : next[u] \subseteq D
  OBVIOUS
<1>4. ASSUME NEW s \in D PROVE next[s] \subseteq From(s, next)
  BY <1>1, <1>3, <1>4
<1>5. ASSUME NEW s \in D, NEW u \in From(s, next) PROVE next[u] \subseteq From(s, next)
  BY <1>1, <1>3, <1>5
<1>6. ASSUME NEW u \in From(t, next)
      PROVE  u \in next[t] \/ \E w \in next[t] : u \in From(w, next)
  <2> DEFINE S == {v \in D : v \in next[t] \/ \E w \in next[t] : v \in From(w, next)}
  <2>1. \A r \in S : next[r] \subseteq S
    <3> SUFFICES ASSUME NEW r \in S, NEW v \in next[r] PROVE v \in S
      OBVIOUS
    <3>1. PICK w \in next[t] : r = w \/ r \in From(w, next)
      OBVIOUS
    <3>2. w \in D /\ v \in D
      BY <1>3
    <3>3. v \in From(w, next)
      BY <1>4, <1>5, <3>1, <3>2
    <3> QED
      BY <3>2, <3>3
  <2>2. next[t] \subseteq S
    BY <1>3
  <2>3. S \in SUBSET D /\ Holds(S, t)
    BY <2>1, <2>2
  <2>4. u \in S
    BY <1>1, <2>3
  <2> QED
    BY <2>4
<1> QED
  BY <1>1, <1>4, <1>5, <1>6

LEMMA LeadsTyped ==
  ASSUME GraphLegal
  PROVE  Leads \in [DOMAIN graph -> SUBSET DOMAIN graph]
<1> SUFFICES ASSUME NEW t \in DOMAIN graph PROVE Leads[t] \subseteq DOMAIN graph
  BY DEF Leads
<1>1. \A i \in DOMAIN graph[t].fields : graph[t].fields[i].type \in DOMAIN graph
  BY DEF GraphLegal, LegalType
<1>2. \A f \in FieldsOf(t) : f.type \in DOMAIN graph
  BY <1>1 DEF FieldsOf, Range
<1>3. Kind(t) \in {"pointer", "list"} => graph[t].elem \in DOMAIN graph
  BY DEF GraphLegal, LegalType, Kind
<1> QED
  BY <1>2, <1>3 DEF Leads

\* Where the walk goes from a type, by its kind.
LEMMA LeadsByKind ==
  ASSUME GraphLegal, NEW t \in DOMAIN graph
  PROVE  /\ Kind(t) \in {"pointer", "list"} => Leads[t] = {graph[t].elem}
         /\ Kind(t) = "leaf" => Leads[t] = {}
         /\ Kind(t) = "struct" => Leads[t] = {f.type : f \in {g \in FieldsOf(t) : Walked(g)}}
<1>1. Leads[t] = {f.type : f \in {g \in FieldsOf(t) : Walked(g)}}
                 \cup IF Kind(t) \in {"pointer", "list"} THEN {graph[t].elem} ELSE {}
  BY DEF Leads
<1>2. Kind(t) # "struct" => FieldsOf(t) = {}
  <2>1. /\ DOMAIN graph[t].fields = 1..Len(graph[t].fields)
        /\ Kind(t) # "struct" => Len(graph[t].fields) = 0
    BY DEF GraphLegal, LegalType, Kind
  <2> QED
    BY <2>1 DEF FieldsOf, Range
<1> QED
  BY <1>1, <1>2

--------------------------------------------------------------------------------
(* The verdict.                                                            *)

\* Nothing that t leads to is unsupported or leads back to itself.
Sound(t) ==
  \A u \in {t} \cup From(t, Leads) : Kind(u) # "unsupported" /\ u \notin From(u, Leads)

\* A type is sound once the types it leads to are.
LEMMA SoundBySuccessors ==
  ASSUME GraphLegal, NEW t \in DOMAIN graph, Kind(t) # "unsupported",
         \A u \in Leads[t] : Sound(u)
  PROVE  Sound(t)
<1>1. \A u \in From(t, Leads) : u \in Leads[t] \/ \E w \in Leads[t] : u \in From(w, Leads)
  BY LeadsTyped, Reaches
<1>2. \A u \in From(t, Leads) : Kind(u) # "unsupported" /\ u \notin From(u, Leads)
  BY <1>1 DEF Sound
<1>3. t \notin From(t, Leads)
  BY <1>2
<1> QED
  BY <1>2, <1>3 DEF Sound

\* All that a frame has walked so far is sound.
Ready(f) ==
  LET fields == graph[f.type].fields IN
    /\ f.call = "list" => Sound(graph[f.type].elem)
    /\ f.call = "fields" =>
         \A i \in DOMAIN fields : i < f.next /\ Walked(fields[i]) => Sound(fields[i].type)

\* Every frame's type leads to the types of those above it; and a frame will be
\* ready when the type of the next one turns out to be sound, the root to be sound
\* when the first one's does.
Chain(st) ==
  /\ \A j \in 1..Len(st) :
       /\ st[j].type \in Reached
       /\ st[j].call = "list" => Kind(st[j].type) = "list"
       /\ st[j].call = "fields" => Kind(st[j].type) = "struct"
       /\ st[j].call = "schemaFor" => st[j].next = 1
       /\ \A i \in 1..(j - 1) : st[j].type \in From(st[i].type, Leads)
  /\ Sound(st[1].type) => Sound(root)
  /\ \A j \in 1..(Len(st) - 1) :
       st[j].call # "schemaFor" /\ (Sound(st[j + 1].type) => Ready(st[j]))

VInv ==
  /\ walk = "walking" => root \in DOMAIN graph /\ Chain(stack) /\ Ready(Top)
  /\ walk = "ok" => Sound(root)
  /\ walk = "error" => ~Sound(root)

\* A frame is put in the place of the top one: for the same type, or for the one it
\* leads to.
LEMMA ChainReplace ==
  ASSUME GraphLegal, root \in DOMAIN graph, NEW st \in Seq(Frames), Len(st) > 0, Chain(st),
         NEW f \in Frames, NEW new \in Seq(Frames), Len(new) = Len(st),
         \A i \in 1..(Len(st) - 1) : new[i] = st[i],
         new[Len(st)] = f,
         f.type = st[Len(st)].type \/ f.type \in Leads[st[Len(st)].type],
         Sound(f.type) => Sound(st[Len(st)].type),
         f.call = "list" => Kind(f.type) = "list",
         f.call = "fields" => Kind(f.type) = "struct",
         f.call = "schemaFor" => f.next = 1
  PROVE  Chain(new)
<1> DEFINE n == Len(st)
           top == st[n]
<1>1. /\ n \in Nat \ {0} /\ n \in 1..n
      /\ \A i \in 1..n : st[i] \in Frames /\ st[i].type \in DOMAIN graph
  <2>1. n \in Nat \ {0} /\ n \in 1..n /\ \A i \in 1..n : st[i] \in Frames
    OBVIOUS
  <2>2. \A h \in Frames : h.type \in DOMAIN graph
    BY DEF Frames
  <2> QED
    BY <2>1, <2>2
<1>2. Leads \in [DOMAIN graph -> SUBSET DOMAIN graph]
  BY LeadsTyped
<1>3. \A t \in DOMAIN graph : \A u, v : u \in From(t, Leads) /\ v \in Leads[u] => v \in From(t, Leads)
  BY <1>2, Reaches
<1>4. \A i \in 1..(n - 1) : f.type \in From(st[i].type, Leads)
  <2> SUFFICES ASSUME NEW i \in 1..(n - 1) PROVE f.type \in From(st[i].type, Leads)
    OBVIOUS
  <2>1. top.type \in From(st[i].type, Leads) /\ st[i].type \in DOMAIN graph
    BY <1>1 DEF Chain
  <2> QED
    BY <1>3, <2>1
<1>5. f.type \in Reached
  <2>1. top.type \in Reached
    BY <1>1 DEF Chain
  <2>2. CASE top.type = root
    BY <1>2, <2>1, <2>2, Reaches DEF Reached
  <2>3. CASE top.type \in From(root, Leads)
    BY <1>3, <2>1, <2>3 DEF Reached
  <2> QED
    BY <2>1, <2>2, <2>3 DEF Reached
<1>6. ASSUME NEW j \in 1..n
      PROVE  /\ new[j].type \in Reached
             /\ new[j].call = "list" => Kind(new[j].type) = "list"
             /\ new[j].call = "fields" => Kind(new[j].type) = "struct"
             /\ new[j].call = "schemaFor" => new[j].next = 1
             /\ \A i \in 1..(j - 1) : new[j].type \in From(new[i].type, Leads)
  <2>1. CASE j = n
    <3>1. \A i \in 1..(j - 1) : new[i] = st[i]
      BY <2>1
    <3> QED
      BY <1>4, <1>5, <2>1, <3>1
  <2>2. CASE j # n
    <3>1. j \in 1..(n - 1) /\ new[j] = st[j] /\ \A i \in 1..(j - 1) : new[i] = st[i]
      BY <1>1, <2>2
    <3> QED
      BY <3>1 DEF Chain
  <2> QED
    BY <2>1, <2>2
<1>7. Sound(new[1].type) => Sound(root)
  <2>1. CASE n = 1
    BY <2>1 DEF Chain
  <2>2. CASE n # 1
    <3>1. new[1] = st[1]
      BY <1>1, <2>2
    <3> QED
      BY <3>1 DEF Chain
  <2> QED
    BY <2>1, <2>2
<1>8. ASSUME NEW j \in 1..(n - 1)
      PROVE  new[j].call # "schemaFor" /\ (Sound(new[j + 1].type) => Ready(new[j]))
  <2>1. new[j] = st[j] /\ st[j].call # "schemaFor" /\ (Sound(st[j + 1].type) => Ready(st[j]))
    BY DEF Chain
  <2>2. CASE j + 1 = n
    BY <2>1, <2>2
  <2>3. CASE j + 1 # n
    <3>1. j + 1 \in 1..(n - 1)
      BY <1>1, <2>3
    <3> QED
      BY <2>1, <3>1
  <2> QED
    BY <2>1, <2>2, <2>3
<1> QED
  BY <1>6, <1>7, <1>8 DEF Chain

\* A call is made, for a type that the top frame's leads to.
LEMMA ChainPush ==
  ASSUME GraphLegal, root \in DOMAIN graph, NEW st \in Seq(Frames), Len(st) > 0, Chain(st),
         NEW g \in Frames, g.type \in Leads[st[Len(st)].type],
         st[Len(st)].call # "schemaFor",
         Sound(g.type) => Ready(st[Len(st)]),
         g.call # "list",
         g.call = "fields" => Kind(g.type) = "struct",
         g.call = "schemaFor" => g.next = 1
  PROVE  Chain(Append(st, g))
<1> DEFINE n == Len(st)
           top == st[n]
           new == Append(st, g)
<1>1. /\ n \in Nat \ {0} /\ n \in 1..n
      /\ \A i \in 1..n : st[i] \in Frames /\ st[i].type \in DOMAIN graph
  <2>1. n \in Nat \ {0} /\ n \in 1..n /\ \A i \in 1..n : st[i] \in Frames
    OBVIOUS
  <2>2. \A h \in Frames : h.type \in DOMAIN graph
    BY DEF Frames
  <2> QED
    BY <2>1, <2>2
<1>2. Leads \in [DOMAIN graph -> SUBSET DOMAIN graph]
  BY LeadsTyped
<1>3. \A t \in DOMAIN graph : \A u, v : u \in From(t, Leads) /\ v \in Leads[u] => v \in From(t, Leads)
  BY <1>2, Reaches
<1>4. \A i \in 1..n : g.type \in From(st[i].type, Leads)
  <2> SUFFICES ASSUME NEW i \in 1..n PROVE g.type \in From(st[i].type, Leads)
    OBVIOUS
  <2>1. CASE i = n
    BY <1>1, <1>2, <2>1, Reaches
  <2>2. CASE i # n
    <3>1. n \in 1..n /\ i \in 1..(n - 1)
      BY <1>1, <2>2
    <3>2. top.type \in From(st[i].type, Leads) /\ st[i].type \in DOMAIN graph
      BY <1>1, <3>1 DEF Chain
    <3> QED
      BY <1>3, <3>2
  <2> QED
    BY <2>1, <2>2
<1>5. g.type \in Reached
  <2>1. top.type \in Reached
    BY <1>1 DEF Chain
  <2>2. CASE top.type = root
    BY <1>2, <2>2, Reaches DEF Reached
  <2>3. CASE top.type \in From(root, Leads)
    BY <1>3, <2>3 DEF Reached
  <2> QED
    BY <2>1, <2>2, <2>3 DEF Reached
<1>6. /\ Len(new) = n + 1 /\ new[n + 1] = g
      /\ \A i \in 1..n : new[i] = st[i]
  BY <1>1
<1> HIDE DEF new
<1>7. ASSUME NEW j \in 1..Len(new)
      PROVE  /\ new[j].type \in Reached
             /\ new[j].call = "list" => Kind(new[j].type) = "list"
             /\ new[j].call = "fields" => Kind(new[j].type) = "struct"
             /\ new[j].call = "schemaFor" => new[j].next = 1
             /\ \A i \in 1..(j - 1) : new[j].type \in From(new[i].type, Leads)
  <2>1. CASE j = n + 1
    <3>1. \A i \in 1..(j - 1) : i \in 1..n /\ new[i] = st[i]
      BY <1>1, <1>6, <2>1
    <3> QED
      BY <1>4, <1>5, <1>6, <2>1, <3>1
  <2>2. CASE j # n + 1
    <3>1. j \in 1..n /\ new[j] = st[j] /\ \A i \in 1..(j - 1) : new[i] = st[i]
      BY <1>1, <1>6, <2>2
    <3> QED
      BY <3>1 DEF Chain
  <2> QED
    BY <2>1, <2>2
<1>8. Sound(new[1].type) => Sound(root)
  <2>1. new[1] = st[1]
    BY <1>1, <1>6
  <2> QED
    BY <2>1 DEF Chain
<1>9. ASSUME NEW j \in 1..(Len(new) - 1)
      PROVE  new[j].call # "schemaFor" /\ (Sound(new[j + 1].type) => Ready(new[j]))
  <2>1. j \in 1..n /\ new[j] = st[j]
    BY <1>1, <1>6
  <2>2. CASE j = n
    BY <1>6, <2>1, <2>2
  <2>3. CASE j # n
    <3>1. j \in 1..(n - 1) /\ new[j + 1] = st[j + 1]
      BY <1>1, <1>6, <2>1, <2>3
    <3> QED
      BY <2>1, <3>1 DEF Chain
  <2> QED
    BY <2>2, <2>3
<1> QED
  BY <1>7, <1>8, <1>9 DEF Chain, new

\* A call returns, and its type is sound.
LEMMA ChainPop ==
  ASSUME NEW st \in Seq(Frames), Len(st) > 1, Chain(st), Sound(st[Len(st)].type)
  PROVE  Chain(Front(st)) /\ Ready(Last(Front(st)))
<1> DEFINE n == Len(st)
           rest == Front(st)
<1>1. /\ n \in Nat /\ n > 1 /\ rest \in Seq(Frames) /\ Len(rest) = n - 1
      /\ \A i \in 1..(n - 1) : rest[i] = st[i]
  BY TopAndRest
<1> HIDE DEF n, rest
<1>2. Last(rest) = st[n - 1]
  <2>1. Len(rest) > 0 /\ n - 1 \in 1..(n - 1)
    BY <1>1
  <2> QED
    BY <1>1, <2>1, TopAndRest
<1>3. Ready(st[n - 1])
  <2>1. n - 1 \in 1..(n - 1) /\ (n - 1) + 1 = n
    BY <1>1
  <2>2. Sound(st[(n - 1) + 1].type) => Ready(st[n - 1])
    BY <2>1 DEF Chain, n
  <2> QED
    BY <2>1, <2>2 DEF n
<1>4. Chain(rest)
  <2>1. ASSUME NEW j \in 1..Len(rest)
        PROVE  /\ j \in 1..n /\ rest[j] = st[j]
               /\ \A i \in 1..(j - 1) : rest[i] = st[i]
    BY <1>1
  <2>2. rest[1] = st[1]
    BY <1>1
  <2>3. ASSUME NEW j \in 1..(Len(rest) - 1)
        PROVE  j \in 1..(n - 1) /\ rest[j] = st[j] /\ rest[j + 1] = st[j + 1]
    BY <1>1
  <2> QED
    BY <2>1, <2>2, <2>3 DEF Chain, n
<1> QED
  BY <1>2, <1>3, <1>4 DEF rest

\* The step of the walk, seen from the stack it leaves.
LEMMA VerdictStays ==
  ASSUME graph' = graph, root' = root, walk' = "walking",
         root \in DOMAIN graph, Chain(stack'), Ready(Last(stack'))
  PROVE  VInv'
<1>1. Leads' = Leads
  BY DEF Leads, FieldsOf, Walked, Promoted, Kind
<1>2. Reached' = Reached
  BY <1>1 DEF Reached
<1>3. Chain(stack)'
  <2>1. (\A j \in 1..Len(stack) :
           /\ stack[j].type \in Reached
           /\ stack[j].call = "list" => Kind(stack[j].type) = "list"
           /\ stack[j].call = "fields" => Kind(stack[j].type) = "struct"
           /\ stack[j].call = "schemaFor" => stack[j].next = 1
           /\ \A i \in 1..(j - 1) : stack[j].type \in From(stack[i].type, Leads))'
    BY <1>1, <1>2 DEF Chain, Kind
  <2>2. (Sound(stack[1].type) => Sound(root))'
    BY <1>1 DEF Chain, Sound, Kind
  <2>3. (\A j \in 1..(Len(stack) - 1) :
           /\ stack[j].call # "schemaFor"
           /\ Sound(stack[j + 1].type) => Ready(stack[j]))'
    <3> SUFFICES ASSUME NEW j \in 1..(Len(stack') - 1)
                 PROVE  /\ stack'[j].call # "schemaFor"
                        /\ (Sound(stack[j + 1].type) => Ready(stack[j]))'
      OBVIOUS
    <3>1. stack'[j].call # "schemaFor" /\ (Sound(stack'[j + 1].type) => Ready(stack'[j]))
      BY DEF Chain
    <3>2. Sound(stack[j + 1].type)' => Sound(stack'[j + 1].type)
      BY <1>1 DEF Sound, Kind
    <3>3. Ready(stack'[j]) => Ready(stack[j])'
      BY <1>1 DEF Ready, Sound, Kind, Walked, Promoted
    <3> QED
      BY <3>1, <3>2, <3>3
  <2> QED
    BY <2>1, <2>2, <2>3 DEF Chain
<1>4. Ready(Top)'
  BY <1>1 DEF Ready, Sound, Kind, Walked, Promoted, Top
<1> QED
  BY <1>3, <1>4 DEF VInv

LEMMA ReplacedTop ==
  ASSUME NEW S, NEW st \in Seq(S), Len(st) > 0, NEW f \in S
  PROVE  LET new == Append(Front(st), f) IN
           /\ new \in Seq(S) /\ Len(new) = Len(st) /\ Len(st) \in Nat \ {0}
           /\ \A i \in 1..(Len(st) - 1) : new[i] = st[i]
           /\ new[Len(st)] = f /\ Last(new) = f
<1> DEFINE rest == Front(st)
           new == Append(rest, f)
<1>1. /\ rest \in Seq(S) /\ Len(rest) = Len(st) - 1 /\ Len(st) \in Nat \ {0}
      /\ \A i \in 1..(Len(st) - 1) : rest[i] = st[i]
  BY TopAndRest
<1> HIDE DEF rest
<1>2. /\ new \in Seq(S) /\ Len(new) = Len(st) /\ new[Len(st)] = f
      /\ \A i \in 1..Len(rest) : new[i] = rest[i]
  BY <1>1
<1> HIDE DEF new
<1>3. \A i \in 1..(Len(st) - 1) : new[i] = st[i]
  BY <1>1, <1>2
<1>4. Last(new) = f
  BY <1>1, <1>2, TopAndRest
<1> QED
  BY <1>1, <1>2, <1>3, <1>4 DEF new, rest

LEMMA LastAppended ==
  ASSUME NEW S, NEW st \in Seq(S), NEW f \in S
  PROVE  Last(Append(st, f)) = f
<1> DEFINE new == Append(st, f)
<1>1. new \in Seq(S) /\ Len(new) = Len(st) + 1 /\ Len(st) \in Nat /\ new[Len(st) + 1] = f
  BY Pushed
<1> HIDE DEF new
<1>2. Len(new) > 0
  BY <1>1
<1>3. Last(new) = new[Len(new)]
  BY <1>1, <1>2, TopAndRest
<1> QED
  BY <1>1, <1>3 DEF new

\* What a step of the walk finds of it.
LEMMA WalkingStack ==
  ASSUME SInv, VInv, walk = "walking"
  PROVE  /\ GraphLegal /\ root \in DOMAIN graph
         /\ stack \in Seq(Frames) /\ Len(stack) \in Nat /\ Len(stack) > 0
         /\ Top = stack[Len(stack)] /\ Len(stack) \in 1..Len(stack)
         /\ Len(stack) = 1 \/ Len(stack) > 1
         /\ Top \in Frames /\ Top.type \in DOMAIN graph /\ Top.type \in Reached
         /\ Chain(stack) /\ Ready(Top)
         /\ Top.call = "list" => Kind(Top.type) = "list"
         /\ Top.call = "fields" => Kind(Top.type) = "struct"
         /\ Top.call = "schemaFor" => Top.next = 1
<1>1. /\ GraphLegal /\ root \in DOMAIN graph
      /\ stack \in Seq(Frames) /\ Len(stack) \in Nat /\ Len(stack) > 0
      /\ Chain(stack) /\ Ready(Top)
  BY DEF SInv, VInv, WellFormed
<1>2. Top = stack[Len(stack)] /\ Top \in Frames /\ Len(stack) \in 1..Len(stack)
  BY <1>1, TopAndRest DEF Top
<1>3. Top.type \in DOMAIN graph
  BY <1>2 DEF Frames
<1>4. Len(stack) = 1 \/ Len(stack) > 1
  <2> DEFINE n == Len(stack)
  <2>1. n \in Nat /\ n > 0
    BY <1>1
  <2> HIDE DEF n
  <2>2. n = 1 \/ n > 1
    BY <2>1
  <2> QED
    BY <2>2 DEF n
<1> QED
  BY <1>1, <1>2, <1>3, <1>4 DEF Chain

LEMMA FromReflectTypeVInv == SInv /\ FromReflectType => VInv'
<1> SUFFICES ASSUME SInv, FromReflectType PROVE VInv'
  OBVIOUS
<1> DEFINE f == SchemaFor(root', TRUE)
<1>1. /\ walk' = "walking" /\ stack' = <<f>> /\ root' \in DOMAIN graph'
  BY GraphAssumption DEF FromReflectType
<1>2. Len(stack') = 1 /\ stack'[1] = f /\ Last(stack') = f
  BY <1>1 DEF Last
<1>3. f.call = "schemaFor" /\ f.type = root' /\ f.next = 1
  BY DEF SchemaFor
<1> HIDE DEF f
<1>4. Chain(stack)'
  BY <1>2, <1>3 DEF Chain, Reached
<1>5. Ready(Top)'
  BY <1>2, <1>3 DEF Ready, Top
<1> QED
  BY <1>1, <1>4, <1>5 DEF VInv

LEMMA DerefVInv == SInv /\ VInv /\ Deref => VInv'
<1> SUFFICES ASSUME SInv, VInv, Deref PROVE VInv'
  OBVIOUS
<1> DEFINE f == [Top EXCEPT !.type = graph[Top.type].elem]
<1>1. /\ walk = "walking" /\ Top.call = "schemaFor" /\ Kind(Top.type) = "pointer"
      /\ stack' = Append(Front(stack), f)
      /\ graph' = graph /\ root' = root /\ walk' = "walking"
  BY DEF Deref, Walks, Replace
<1>2. Leads[Top.type] = {graph[Top.type].elem}
  BY <1>1, WalkingStack, LeadsByKind
<1>3. f \in Frames /\ f.type \in Leads[Top.type] /\ f.call = "schemaFor" /\ f.next = 1
  <2>1. graph[Top.type].elem \in DOMAIN graph
    BY <1>1, WalkingStack DEF GraphLegal, LegalType, Kind
  <2>2. Top \in Frames /\ Top.next = 1
    BY <1>1, WalkingStack
  <2> QED
    BY <1>1, <1>2, <2>1, <2>2 DEF Frames
<1>4. Sound(f.type) => Sound(Top.type)
  <2>1. f.type = graph[Top.type].elem
    BY <1>2, <1>3
  <2> QED
    BY <1>1, <1>2, <2>1, WalkingStack, SoundBySuccessors
<1> HIDE DEF f
<1> DEFINE new == Append(Front(stack), f)
<1>5. /\ new \in Seq(Frames) /\ Len(new) = Len(stack) /\ new[Len(stack)] = f /\ Last(new) = f
      /\ \A i \in 1..(Len(stack) - 1) : new[i] = stack[i]
  BY <1>1, <1>3, WalkingStack, ReplacedTop
<1> HIDE DEF new
<1>6. Chain(new)
  BY <1>1, <1>3, <1>4, <1>5, WalkingStack, ChainReplace
<1>7. Ready(Last(new))
  BY <1>3, <1>5 DEF Ready
<1> QED
  BY <1>1, <1>6, <1>7, WalkingStack, VerdictStays DEF new

LEMMA PopVInv ==
  ASSUME SInv, VInv, walk = "walking", Pop, Sound(Top.type)
  PROVE  VInv'
<1>1. /\ stack' = Front(stack) /\ graph' = graph /\ root' = root
      /\ walk' = IF Len(stack) = 1 THEN "ok" ELSE "walking"
  BY DEF Pop
<1>2. CASE Len(stack) = 1
  <2>1. Sound(root)
    BY <1>2, WalkingStack DEF Chain
  <2>2. Leads' = Leads
    BY <1>1 DEF Leads, FieldsOf, Walked, Promoted, Kind
  <2>3. Sound(root)'
    BY <1>1, <2>1, <2>2 DEF Sound, Kind
  <2> QED
    BY <1>1, <1>2, <2>3 DEF VInv
<1>3. CASE Len(stack) # 1
  <2>1. Top = stack[Len(stack)] /\ Len(stack) > 1
    BY <1>3, WalkingStack
  <2>2. Chain(Front(stack)) /\ Ready(Last(Front(stack)))
    BY <2>1, WalkingStack, ChainPop
  <2> QED
    BY <1>1, <1>3, <2>2, WalkingStack, VerdictStays
<1> QED
  BY <1>2, <1>3

LEMMA ReturnVInv == SInv /\ VInv /\ (Leaf \/ EndList \/ EndStruct) => VInv'
<1> SUFFICES ASSUME SInv, VInv, Leaf \/ EndList \/ EndStruct PROVE VInv'
  OBVIOUS
<1>1. walk = "walking" /\ Pop
  BY DEF Leaf, EndList, EndStruct, Walks
<1>2. \A u \in Leads[Top.type] : Sound(u)
  <2>1. CASE Leaf
    BY <1>1, <2>1, WalkingStack, LeadsByKind DEF Leaf
  <2>2. CASE EndList
    <3>1. Top.call = "list" /\ Kind(Top.type) = "list"
      BY <1>1, <2>2, WalkingStack DEF EndList, Walks
    <3>2. Leads[Top.type] = {graph[Top.type].elem} /\ Sound(graph[Top.type].elem)
      BY <1>1, <3>1, WalkingStack, LeadsByKind DEF Ready
    <3> QED
      BY <3>2
  <2>3. CASE EndStruct
    <3> DEFINE fields == graph[Top.type].fields
    <3>1. /\ Top.call = "fields" /\ Kind(Top.type) = "struct" /\ Top.next > Len(fields)
          /\ Top.next \in Nat
      BY <1>1, <2>3, WalkingStack DEF EndStruct, Walks, Frames
    <3>2. DOMAIN fields = 1..Len(fields) /\ Len(fields) \in Nat
      BY <1>1, WalkingStack DEF GraphLegal, LegalType
    <3>3. \A i \in DOMAIN fields : i < Top.next
      BY <3>1, <3>2
    <3>4. \A i \in DOMAIN fields : Walked(fields[i]) => Sound(fields[i].type)
      BY <1>1, <3>1, <3>3, WalkingStack DEF Ready
    <3>5. \A f \in FieldsOf(Top.type) : Walked(f) => Sound(f.type)
      BY <3>4 DEF FieldsOf, Range
    <3>6. Leads[Top.type] = {f.type : f \in {g \in FieldsOf(Top.type) : Walked(g)}}
      BY <1>1, <3>1, WalkingStack, LeadsByKind
    <3> QED
      BY <3>5, <3>6
  <2> QED
    BY <2>1, <2>2, <2>3
<1>3. Kind(Top.type) # "unsupported"
  BY <1>1, WalkingStack DEF Leaf, EndList, EndStruct, Walks
<1>4. Sound(Top.type)
  BY <1>1, <1>2, <1>3, WalkingStack, SoundBySuccessors
<1> QED
  BY <1>1, <1>4, PopVInv

LEMMA ElementVInv == SInv /\ VInv /\ Element => VInv'
<1> SUFFICES ASSUME SInv, VInv, Element PROVE VInv'
  OBVIOUS
<1> DEFINE f == [Top EXCEPT !.call = "list"]
           g == SchemaFor(graph[Top.type].elem, FALSE)
           mid == Append(Front(stack), f)
           new == Append(mid, g)
<1>1. /\ walk = "walking" /\ Top.call = "schemaFor" /\ Kind(Top.type) = "list"
      /\ stack' = new
      /\ graph' = graph /\ root' = root /\ walk' = "walking"
  BY DEF Element, Walks
<1>2. Leads[Top.type] = {graph[Top.type].elem} /\ graph[Top.type].elem \in DOMAIN graph
  BY <1>1, WalkingStack, LeadsByKind DEF GraphLegal, LegalType, Kind
<1>3. f \in Frames /\ f.type = Top.type /\ f.call = "list"
  <2>1. Top \in Frames
    BY <1>1, WalkingStack
  <2> QED
    BY <2>1 DEF Frames
<1>4. /\ g \in Frames /\ g.call = "schemaFor" /\ g.next = 1 /\ g.type \in Leads[f.type]
      /\ Sound(g.type) => Ready(f)
  BY <1>2, <1>3 DEF Frames, SchemaFor, Ready
<1> HIDE DEF f, g, mid, new
<1>5. /\ mid \in Seq(Frames) /\ Len(mid) = Len(stack) /\ mid[Len(stack)] = f
      /\ \A i \in 1..(Len(stack) - 1) : mid[i] = stack[i]
  BY <1>1, <1>3, WalkingStack, ReplacedTop DEF mid
<1>6. Chain(mid)
  <2>1. Kind(f.type) = "list" /\ f.type = stack[Len(stack)].type
    BY <1>1, <1>3, WalkingStack
  <2> QED
    BY <1>1, <1>3, <1>5, <2>1, WalkingStack, ChainReplace
<1>7. mid \in Seq(Frames) /\ Len(mid) > 0 /\ mid[Len(mid)] = f
  BY <1>1, <1>5, WalkingStack
<1>8. Chain(new)
  BY <1>1, <1>3, <1>4, <1>6, <1>7, WalkingStack, ChainPush DEF new
<1>9. Ready(Last(new))
  <2>1. Last(new) = g
    BY <1>4, <1>7, LastAppended DEF new
  <2> QED
    BY <1>4, <2>1 DEF Ready
<1> QED
  BY <1>1, <1>8, <1>9, WalkingStack, VerdictStays

LEMMA EnterStructVInv == SInv /\ VInv /\ EnterStruct => VInv'
<1> SUFFICES ASSUME SInv, VInv, EnterStruct PROVE VInv'
  OBVIOUS
<1> DEFINE f == [Top EXCEPT !.call = "fields", !.marked = TRUE]
           new == Append(Front(stack), f)
<1>1. /\ walk = "walking" /\ Top.call = "schemaFor" /\ Kind(Top.type) = "struct"
      /\ stack' = new
      /\ graph' = graph /\ root' = root /\ walk' = "walking"
  BY DEF EnterStruct, Walks, Replace
<1>2. f \in Frames /\ f.type = Top.type /\ f.call = "fields" /\ f.next = Top.next
  <2>1. Top \in Frames
    BY <1>1, WalkingStack
  <2> QED
    BY <2>1 DEF Frames
<1>3. Top.next = 1
  BY <1>1, WalkingStack
<1> HIDE DEF f, new
<1>4. /\ new \in Seq(Frames) /\ Len(new) = Len(stack) /\ new[Len(stack)] = f /\ Last(new) = f
      /\ \A i \in 1..(Len(stack) - 1) : new[i] = stack[i]
  BY <1>1, <1>2, WalkingStack, ReplacedTop DEF new
<1>5. Chain(new)
  <2>1. Kind(f.type) = "struct" /\ f.type = stack[Len(stack)].type
    BY <1>1, <1>2, WalkingStack
  <2> QED
    BY <1>1, <1>2, <1>4, <2>1, WalkingStack, ChainReplace
<1>6. Ready(f)
  <2>1. DOMAIN graph[f.type].fields = 1..Len(graph[f.type].fields)
    BY <1>1, <1>2, WalkingStack DEF GraphLegal, LegalType
  <2>2. \A i \in DOMAIN graph[f.type].fields : ~(i < f.next)
    BY <1>1, <1>2, <1>3, <2>1, WalkingStack DEF GraphLegal, LegalType
  <2> QED
    BY <1>2, <2>2 DEF Ready
<1> QED
  BY <1>1, <1>4, <1>5, <1>6, WalkingStack, VerdictStays

\* The field that the loop is at.
LEMMA FieldAt ==
  ASSUME SInv, VInv, WalkField
  PROVE  LET fields == graph[Top.type].fields IN
           /\ walk = "walking" /\ Top.call = "fields" /\ Top.next \in DOMAIN fields
           /\ Field = fields[Top.next] /\ Field \in FieldsOf(Top.type)
           /\ Field.type \in DOMAIN graph /\ Field.tag \in {"none", "string", "-"}
<1>1. walk = "walking" /\ Top.call = "fields" /\ Top.next <= Len(graph[Top.type].fields)
  BY DEF WalkField, Walks
<1>2. Top.next \in Nat \ {0} /\ LegalType(graph, Top.type)
  BY <1>1, WalkingStack DEF GraphLegal, Frames
<1>3. Top.next \in DOMAIN graph[Top.type].fields
  BY <1>1, <1>2 DEF LegalType
<1>4. /\ graph[Top.type].fields[Top.next].type \in DOMAIN graph
      /\ graph[Top.type].fields[Top.next].tag \in {"none", "string", "-"}
  BY <1>2, <1>3 DEF LegalType
<1>5. graph[Top.type].fields[Top.next] \in FieldsOf(Top.type)
  BY <1>3 DEF FieldsOf, Range
<1> QED
  BY <1>1, <1>3, <1>4, <1>5 DEF Field

LEMMA WalkFieldVInv == SInv /\ VInv /\ WalkField => VInv'
<1> SUFFICES ASSUME SInv, VInv, WalkField PROVE VInv'
  OBVIOUS
<1> DEFINE f == [Top EXCEPT !.next = @ + 1]
           flat == [SchemaFor(Field.type, Top.ofRoot) EXCEPT !.call = "fields"]
           called == SchemaFor(Field.type, FALSE)
           rest == Append(Front(stack), f)
<1>1. /\ graph' = graph /\ root' = root /\ walk' = "walking" /\ walk = "walking"
      /\ \/ Flattened(Field) /\ Field.tag # "-" /\ stack' = Append(rest, flat)
         \/ Walked(Field) /\ stack' = Append(rest, called)
         \/ ~Walked(Field) /\ stack' = rest
  BY FieldAt DEF WalkField, Walks, Walked, Promoted, Flattened
<1>2. Top \in Frames /\ Top.next \in Nat \ {0} /\ Top.ofRoot \in BOOLEAN
      /\ Top.call = "fields" /\ Kind(Top.type) = "struct"
  BY <1>1, FieldAt, WalkingStack DEF Frames
<1>3. f \in Frames /\ f.type = Top.type /\ f.call = "fields" /\ f.next = Top.next + 1
  BY <1>2 DEF Frames
<1>4. called \in Frames /\ called.call = "schemaFor" /\ called.next = 1
      /\ called.type = Field.type
  BY FieldAt DEF Frames, SchemaFor
<1>5. flat \in Frames /\ flat.call = "fields" /\ flat.next = 1 /\ flat.type = Field.type
  <2> DEFINE g == SchemaFor(Field.type, Top.ofRoot)
  <2>1. g \in Frames /\ g.next = 1 /\ g.type = Field.type
    BY <1>2, FieldAt DEF Frames, SchemaFor
  <2> HIDE DEF g
  <2>2. /\ [g EXCEPT !.call = "fields"] \in Frames
        /\ [g EXCEPT !.call = "fields"].call = "fields"
        /\ [g EXCEPT !.call = "fields"].next = 1
        /\ [g EXCEPT !.call = "fields"].type = Field.type
    BY <2>1 DEF Frames
  <2> QED
    BY <2>2 DEF g
<1> HIDE DEF f, flat, called, rest
<1>6. /\ rest \in Seq(Frames) /\ Len(rest) = Len(stack) /\ rest[Len(stack)] = f /\ Last(rest) = f
      /\ \A i \in 1..(Len(stack) - 1) : rest[i] = stack[i]
  BY <1>1, <1>3, WalkingStack, ReplacedTop DEF rest
<1>7. Chain(rest)
  <2>1. f.type = stack[Len(stack)].type
    BY <1>1, <1>3, WalkingStack
  <2> QED
    BY <1>1, <1>2, <1>3, <1>6, <2>1, WalkingStack, ChainReplace
<1>8. (Walked(Field) => Sound(Field.type)) => Ready(f)
  <2> DEFINE fields == graph[Top.type].fields
  <2> SUFFICES ASSUME Walked(Field) => Sound(Field.type),
                      NEW i \in DOMAIN fields, i < f.next, Walked(fields[i])
               PROVE  Sound(fields[i].type)
    BY <1>3 DEF Ready
  <2>1. DOMAIN fields = 1..Len(fields)
    BY <1>1, WalkingStack DEF GraphLegal, LegalType
  <2>2. CASE i = Top.next
    BY <2>2, FieldAt
  <2>3. CASE i # Top.next
    <3>1. i < Top.next
      BY <1>2, <1>3, <2>1, <2>3
    <3> QED
      BY <1>1, <1>2, <3>1, WalkingStack DEF Ready
  <2> QED
    BY <2>2, <2>3
<1>9. CASE ~Walked(Field) /\ stack' = rest
  <2>1. Ready(Last(rest))
    BY <1>6, <1>8, <1>9
  <2> QED
    BY <1>1, <1>7, <1>9, <2>1, WalkingStack, VerdictStays
<1>10. ASSUME NEW g \in Frames, g.type = Field.type, g.next = 1, Walked(Field),
              g.call # "list", g.call = "fields" => Kind(g.type) = "struct",
              stack' = Append(rest, g)
       PROVE  VInv'
  <2>1. Len(rest) > 0 /\ rest[Len(rest)] = f
    BY <1>1, <1>6, WalkingStack
  <2>2. g.type \in Leads[f.type]
    <3>1. Leads[Top.type] = {h.type : h \in {k \in FieldsOf(Top.type) : Walked(k)}}
      BY <1>1, <1>2, WalkingStack, LeadsByKind
    <3> QED
      BY <1>3, <1>10, <3>1, FieldAt
  <2>3. Chain(Append(rest, g))
    BY <1>1, <1>3, <1>6, <1>7, <1>8, <1>10, <2>1, <2>2, WalkingStack, ChainPush
  <2>4. Ready(Last(Append(rest, g)))
    <3>1. Last(Append(rest, g)) = g
      BY <1>6, LastAppended
    <3>2. \A i \in DOMAIN graph[g.type].fields : ~(i < g.next)
      BY <1>1, <1>10, FieldAt, WalkingStack DEF GraphLegal, LegalType
    <3> QED
      BY <1>10, <3>1, <3>2 DEF Ready
  <2> QED
    BY <1>1, <1>10, <2>3, <2>4, WalkingStack, VerdictStays
<1>11. CASE Flattened(Field) /\ Field.tag # "-" /\ stack' = Append(rest, flat)
  <2>1. Walked(Field) /\ Kind(flat.type) = "struct"
    BY <1>5, <1>11 DEF Walked, Promoted, Flattened
  <2> QED
    BY <1>5, <1>10, <1>11, <2>1
<1>12. CASE Walked(Field) /\ stack' = Append(rest, called)
  BY <1>4, <1>10, <1>12
<1> QED
  BY <1>1, <1>9, <1>11, <1>12

\* A struct that is being visited leads back to itself.
LEMMA FailsVInv == SInv /\ VInv /\ Fails => VInv'
<1> SUFFICES ASSUME SInv, VInv, Fails PROVE VInv'
  OBVIOUS
<1>1. /\ walk = "walking" /\ Top.call = "schemaFor"
      /\ Kind(Top.type) = "unsupported" \/ Top.type \in visiting
      /\ graph' = graph /\ root' = root /\ walk' = "error"
  BY DEF Fails, Walks, Visited
<1>2. ASSUME Top.type \in visiting PROVE Top.type \in From(Top.type, Leads)
  <2>1. PICK i \in 1..Len(stack) : stack[i].marked /\ stack[i].type = Top.type
    BY <1>1, <1>2 DEF SInv, Marks
  <2>2. i # Len(stack)
    BY <1>1, <2>1, WalkingStack DEF SInv, WellFormed
  <2>3. i \in 1..(Len(stack) - 1) /\ Len(stack) \in 1..Len(stack) /\ Top = stack[Len(stack)]
    BY <1>1, <2>2, WalkingStack
  <2>4. stack[Len(stack)].type \in From(stack[i].type, Leads)
    BY <1>1, <2>3, WalkingStack DEF Chain
  <2> QED
    BY <2>1, <2>3, <2>4
<1>3. ~Sound(root)
  BY <1>1, <1>2, WalkingStack DEF Sound, Reached
<1>4. Leads' = Leads
  BY <1>1 DEF Leads, FieldsOf, Walked, Promoted, Kind
<1>5. ~Sound(root)'
  BY <1>1, <1>3, <1>4 DEF Sound, Kind
<1> QED
  BY <1>1, <1>5 DEF VInv

LEMMA SchemaNextVInv == SInv /\ VInv /\ [SchemaNext]_schemaVars => VInv'
<1> SUFFICES ASSUME SInv, VInv, [SchemaNext]_schemaVars PROVE VInv'
  OBVIOUS
<1>1. CASE Overflow
  BY <1>1 DEF VInv, Overflow
<1>2. CASE UNCHANGED schemaVars
  <2>1. /\ graph' = graph /\ root' = root /\ stack' = stack /\ walk' = walk
    BY <1>2 DEF schemaVars
  <2>2. Leads' = Leads
    BY <2>1 DEF Leads, FieldsOf, Walked, Promoted, Kind
  <2>3. Sound(root)' <=> Sound(root)
    BY <2>1, <2>2 DEF Sound, Kind
  <2>4. CASE walk = "walking"
    BY <2>1, <2>4, WalkingStack, VerdictStays DEF Top
  <2>5. CASE walk # "walking"
    BY <2>1, <2>3, <2>5 DEF VInv
  <2> QED
    BY <2>4, <2>5
<1> QED
  BY <1>1, <1>2, FromReflectTypeVInv, DerefVInv, ReturnVInv, ElementVInv, EnterStructVInv,
     WalkFieldVInv, FailsVInv DEF SchemaNext, Step

\* For type graphs of any size and walks of any depth: a walk that ends rejects the
\* types that lead back to themselves or to one that no schema can describe, and
\* accepts all others.
THEOREM VerdictIsExact == SchemaSpec => []VerdictExact
<1>1. SchemaInit => SInv /\ VInv
  BY DEF SchemaInit, SInv, VInv
<1>2. SInv /\ VInv /\ [SchemaNext]_schemaVars => (SInv /\ VInv)'
  BY SchemaNextSInv, SchemaNextVInv
<1>3. VInv => VerdictExact
  BY DEF VInv, VerdictExact, Ended, Sound, Reached, Recursive
<1> QED
  BY <1>1, <1>2, <1>3, PTL DEF SchemaSpec

--------------------------------------------------------------------------------
(* The root object. It is of interest if the root is a struct: then the first *)
(* frame is the root's, and those that add to the root's properties are it   *)
(* and, in one piece, the frames of the structs that are flattened into it.  *)

USE DEF Structs

Required == {f \in Candidates : ~f.optional}

Kept(f) == f.name \in DOMAIN props /\ (~f.optional => f.name \in Range(required))

\* All that t contributes is there.
Covered(t) ==
  \A u \in {t} \cup From(t, Flattens) : \A f \in FieldsOf(u) : Emits(f) => Kept(f)

LEMMA FlattensTyped ==
  ASSUME GraphLegal
  PROVE  Flattens \in [DOMAIN graph -> SUBSET DOMAIN graph]
<1> SUFFICES ASSUME NEW t \in DOMAIN graph PROVE Flattens[t] \subseteq DOMAIN graph
  BY DEF Flattens
<1>1. \A i \in DOMAIN graph[t].fields : graph[t].fields[i].type \in DOMAIN graph
  BY DEF GraphLegal, LegalType
<1>2. \A f \in FieldsOf(t) : f.type \in DOMAIN graph
  BY <1>1 DEF FieldsOf, Range
<1> QED
  BY <1>2 DEF Flattens

LEMMA CoveredBySuccessors ==
  ASSUME GraphLegal, NEW t \in DOMAIN graph,
         \A f \in FieldsOf(t) : Emits(f) => Kept(f),
         \A u \in Flattens[t] : Covered(u)
  PROVE  Covered(t)
<1>1. \A u \in From(t, Flattens) : u \in Flattens[t] \/ \E w \in Flattens[t] : u \in From(w, Flattens)
  BY FlattensTyped, Reaches
<1> QED
  BY <1>1 DEF Covered

\* What the loop of f has done for the root's properties so far, but for the
\* struct that is being flattened by the frame g above it.
Handled(f, g) ==
  LET fields == graph[f.type].fields IN
    f.call = "fields" /\ f.ofRoot =>
      \A i \in DOMAIN fields : i < f.next =>
        /\ Emits(fields[i]) => Kept(fields[i])
        /\ fields[i].tag # "-" /\ Promoted(fields[i]) =>
             Covered(fields[i].type) \/ (g.ofRoot /\ g.type = fields[i].type)

NoFrame == [ofRoot |-> FALSE, type |-> root]

FlatShape(st) ==
  /\ st[1].type = root /\ st[1].ofRoot /\ st[1].call # "list"
  /\ \A j \in 1..Len(st) :
       st[j].ofRoot =>
         /\ st[j].type \in {root} \cup From(root, Flattens)
         /\ Kind(st[j].type) = "struct"
         /\ j = 1 \/ st[j].call = "fields"

FlatStack(st) ==
  FlatShape(st) /\ \A j \in 1..(Len(st) - 1) : Handled(st[j], st[j + 1])

Bounded ==
  /\ DOMAIN props \subseteq {f.name : f \in Candidates}
  /\ required \in Seq({f.name : f \in Required})

RInv ==
  /\ walk = "idle" => props = <<>> /\ required = <<>>
  /\ walk = "walking" /\ Kind(root) = "struct" =>
       Bounded /\ FlatStack(stack) /\ Handled(Top, NoFrame)
  /\ walk = "ok" /\ Kind(root) = "struct" => Bounded /\ Covered(root)

\* Nothing of the root's properties is ever taken back.
Grows ==
  /\ graph' = graph /\ root' = root
  /\ DOMAIN props \subseteq DOMAIN props'
  /\ Range(required) \subseteq Range(required')

LEMMA KeptGrows == ASSUME Grows, NEW f, Kept(f) PROVE Kept(f)'
  BY DEF Grows, Kept

LEMMA CoveredGrows == ASSUME Grows, NEW t, Covered(t) PROVE Covered(t)'
<1>1. Flattens' = Flattens
  BY DEF Grows, Flattens, FieldsOf, Promoted, Kind
<1>2. \A f : Kept(f) => Kept(f)'
  BY KeptGrows
<1>3. \A u : FieldsOf(u)' = FieldsOf(u)
  BY DEF Grows, FieldsOf
<1>4. \A f : Emits(f)' <=> Emits(f)
  BY DEF Grows, Emits, Promoted, Kind
<1> QED
  BY <1>1, <1>2, <1>3, <1>4 DEF Covered

LEMMA HandledGrows == ASSUME Grows, NEW f, NEW g, Handled(f, g) PROVE Handled(f, g)'
<1>1. \A h : Kept(h) => Kept(h)'
  BY KeptGrows
<1>2. \A t : Covered(t) => Covered(t)'
  BY CoveredGrows
<1>3. \A h : Emits(h)' <=> Emits(h)
  BY DEF Grows, Emits, Promoted, Kind
<1>4. \A h : Promoted(h)' <=> Promoted(h)
  BY DEF Grows, Promoted, Kind
<1>5. graph' = graph
  BY DEF Grows
<1> QED
  BY <1>1, <1>2, <1>3, <1>4, <1>5 DEF Handled

\* The step of the walk, seen from the stack and the properties it leaves.
LEMMA RootStays ==
  ASSUME Grows, walk' = "walking",
         DOMAIN props' \subseteq {f.name : f \in Candidates},
         required' \in Seq({f.name : f \in Required}),
         FlatShape(stack'),
         \A j \in 1..(Len(stack') - 1) : Handled(stack[j], stack[j + 1])',
         Handled(Top, NoFrame)'
  PROVE  RInv'
<1>1. graph' = graph /\ root' = root
  BY DEF Grows
<1>2. Flattens' = Flattens
  BY <1>1 DEF Flattens, FieldsOf, Promoted, Kind
<1>3. Candidates' = Candidates
  BY <1>1, <1>2 DEF Candidates, FieldsOf, Emits, Promoted, Kind
<1>4. Bounded'
  BY <1>3 DEF Bounded, Required
<1>5. FlatStack(stack)'
  BY <1>1, <1>2 DEF FlatStack, FlatShape, Kind
<1> QED
  BY <1>4, <1>5 DEF RInv

\* ... when it leaves the properties alone.
LEMMA RootStaysPut ==
  ASSUME UNCHANGED <<graph, root, props, required>>, walk' = "walking", Bounded,
         FlatStack(stack'), Handled(Last(stack'), NoFrame)
  PROVE  RInv'
<1>1. Grows
  BY DEF Grows
<1>2. \A f, g : Handled(f, g) => Handled(f, g)'
  BY <1>1, HandledGrows
<1>3. ASSUME NEW j \in 1..(Len(stack') - 1) PROVE Handled(stack[j], stack[j + 1])'
  <2>1. Handled(stack'[j], stack'[j + 1])
    BY DEF FlatStack
  <2> QED
    BY <1>2, <2>1
<1>4. Handled(Top, NoFrame)'
  <2>1. NoFrame' = NoFrame /\ Top' = Last(stack')
    BY DEF NoFrame, Top
  <2> QED
    BY <1>2, <2>1
<1> QED
  BY <1>1, <1>3, <1>4, RootStays DEF FlatStack, Bounded

\* A frame is put in the place of the top one.
LEMMA FlatReplace ==
  ASSUME NEW st \in Seq(Frames), Len(st) > 0, FlatStack(st),
         NEW f \in Frames, NEW new \in Seq(Frames), Len(new) = Len(st),
         \A i \in 1..(Len(st) - 1) : new[i] = st[i],
         new[Len(st)] = f,
         f.ofRoot = st[Len(st)].ofRoot,
         f.ofRoot => f.type = st[Len(st)].type /\ f.call = "fields"
  PROVE  FlatStack(new)
<1> DEFINE n == Len(st)
<1>1. n \in Nat \ {0} /\ n \in 1..n
  OBVIOUS
<1>2. \A j \in 1..n : j = n \/ (j \in 1..(n - 1) /\ new[j] = st[j])
  BY <1>1
<1>3. new[1].type = root /\ new[1].ofRoot /\ new[1].call # "list"
  <2>1. st[1].type = root /\ st[1].ofRoot /\ st[1].call # "list"
    BY DEF FlatStack, FlatShape
  <2>2. CASE n = 1
    BY <2>1, <2>2
  <2>3. CASE n # 1
    <3>1. new[1] = st[1]
      BY <1>1, <2>3
    <3> QED
      BY <2>1, <3>1
  <2> QED
    BY <2>2, <2>3
<1>4. FlatShape(new)
  <2>1. ASSUME NEW j \in 1..n, new[j].ofRoot
        PROVE  /\ new[j].type \in {root} \cup From(root, Flattens)
               /\ Kind(new[j].type) = "struct"
               /\ j = 1 \/ new[j].call = "fields"
    <3>1. st[j].ofRoot /\ new[j].type = st[j].type /\ (new[j] = st[j] \/ new[j].call = "fields")
      BY <1>2, <2>1
    <3> QED
      BY <3>1 DEF FlatStack, FlatShape
  <2> QED
    BY <1>3, <2>1 DEF FlatShape
<1>5. ASSUME NEW j \in 1..(n - 1) PROVE Handled(new[j], new[j + 1])
  <2>1. new[j] = st[j] /\ Handled(st[j], st[j + 1]) /\ j + 1 \in 1..n
    BY <1>1 DEF FlatStack
  <2>2. new[j + 1] = st[j + 1] \/ (st[j + 1].ofRoot => new[j + 1].ofRoot /\ new[j + 1].type = st[j + 1].type)
    BY <1>2, <2>1
  <2> QED
    BY <2>1, <2>2 DEF Handled
<1> QED
  BY <1>4, <1>5 DEF FlatStack

LEMMA ShapePush ==
  ASSUME NEW st \in Seq(Frames), Len(st) > 0, FlatShape(st), NEW g \in Frames,
         g.ofRoot => /\ g.type \in {root} \cup From(root, Flattens)
                     /\ Kind(g.type) = "struct" /\ g.call = "fields"
  PROVE  FlatShape(Append(st, g))
<1> DEFINE new == Append(st, g)
<1>1. /\ Len(st) \in Nat \ {0} /\ Len(new) = Len(st) + 1 /\ new[Len(st) + 1] = g
      /\ \A i \in 1..Len(st) : new[i] = st[i]
  OBVIOUS
<1> HIDE DEF new
<1>2. new[1] = st[1]
  BY <1>1
<1>3. \A j \in 1..Len(new) : new[j] = g \/ (j \in 1..Len(st) /\ new[j] = st[j])
  BY <1>1
<1> QED
  BY <1>2, <1>3 DEF FlatShape, new

LEMMA FlatPush ==
  ASSUME NEW st \in Seq(Frames), Len(st) > 0, FlatStack(st),
         NEW g \in Frames, Handled(st[Len(st)], g), ~g.ofRoot
  PROVE  FlatStack(Append(st, g))
<1> DEFINE n == Len(st)
           new == Append(st, g)
<1>1. /\ n \in Nat \ {0} /\ Len(new) = n + 1 /\ new[n + 1] = g
      /\ \A i \in 1..n : new[i] = st[i]
  OBVIOUS
<1>2. FlatShape(new)
  BY ShapePush DEF FlatStack
<1> HIDE DEF new
<1>3. ASSUME NEW j \in 1..(Len(new) - 1) PROVE Handled(new[j], new[j + 1])
  <2>1. j \in 1..n /\ new[j] = st[j]
    BY <1>1
  <2>2. CASE j = n
    BY <1>1, <2>1, <2>2
  <2>3. CASE j # n
    <3>1. j \in 1..(n - 1) /\ new[j + 1] = st[j + 1]
      BY <1>1, <2>1, <2>3
    <3> QED
      BY <2>1, <3>1 DEF FlatStack
  <2> QED
    BY <2>2, <2>3
<1> QED
  BY <1>2, <1>3 DEF FlatStack, new

LEMMA FlatPop ==
  ASSUME NEW st \in Seq(Frames), Len(st) > 1, FlatStack(st),
         st[Len(st)].ofRoot => Covered(st[Len(st)].type)
  PROVE  FlatStack(Front(st)) /\ Handled(Last(Front(st)), NoFrame)
<1> DEFINE n == Len(st)
           rest == Front(st)
<1>1. /\ n \in Nat /\ n > 1 /\ rest \in Seq(Frames) /\ Len(rest) = n - 1
      /\ \A i \in 1..(n - 1) : rest[i] = st[i]
  BY TopAndRest
<1> HIDE DEF n, rest
<1>2. Last(rest) = st[n - 1]
  <2>1. Len(rest) > 0 /\ n - 1 \in 1..(n - 1)
    BY <1>1
  <2> QED
    BY <1>1, <2>1, TopAndRest
<1>3. Handled(st[n - 1], NoFrame)
  <2>1. n - 1 \in 1..(n - 1) /\ (n - 1) + 1 = n
    BY <1>1
  <2>2. Handled(st[n - 1], st[n])
    <3>1. Handled(st[n - 1], st[(n - 1) + 1])
      BY <2>1 DEF FlatStack, n
    <3> QED
      BY <2>1, <3>1
  <2> QED
    BY <2>2 DEF Handled, NoFrame, n
<1>4. FlatStack(rest)
  <2>1. \A j \in 1..Len(rest) : j \in 1..n /\ rest[j] = st[j]
    BY <1>1
  <2>2. rest[1] = st[1]
    BY <1>1
  <2>3. \A j \in 1..(Len(rest) - 1) : j \in 1..(n - 1) /\ rest[j] = st[j] /\ rest[j + 1] = st[j + 1]
    BY <1>1
  <2>4. FlatShape(rest)
    BY <2>1, <2>2 DEF FlatStack, FlatShape, n
  <2> QED
    BY <2>3, <2>4 DEF FlatStack, n
<1> QED
  BY <1>2, <1>3, <1>4 DEF rest

\* What a step of the walk of a struct finds of the root's properties.
LEMMA WalkingRoot ==
  ASSUME SInv, VInv, RInv, walk = "walking", Kind(root) = "struct"
  PROVE  /\ Bounded /\ FlatStack(stack) /\ Handled(Top, NoFrame)
         /\ Top.ofRoot => /\ Top.type \in {root} \cup From(root, Flattens)
                          /\ Kind(Top.type) = "struct"
         /\ Len(stack) = 1 => Top.ofRoot /\ Top.type = root
<1>1. Bounded /\ FlatStack(stack) /\ Handled(Top, NoFrame)
  BY DEF RInv
<1> QED
  BY <1>1, WalkingStack DEF FlatStack, FlatShape

LEMMA FromReflectTypeRInv == RInv /\ FromReflectType => RInv'
<1> SUFFICES ASSUME RInv, FromReflectType PROVE RInv'
  OBVIOUS
<1> DEFINE f == SchemaFor(root', TRUE)
<1>1. /\ walk' = "walking" /\ stack' = <<f>> /\ props' = <<>> /\ required' = <<>>
  BY DEF FromReflectType, RInv
<1>2. Len(stack') = 1 /\ stack'[1] = f /\ Last(stack') = f
  BY <1>1 DEF Last
<1>3. f.call = "schemaFor" /\ f.type = root' /\ f.ofRoot
  BY DEF SchemaFor
<1> HIDE DEF f
<1>4. Bounded'
  BY <1>1 DEF Bounded
<1>5. (Kind(root) = "struct" => FlatStack(stack))'
  BY <1>2, <1>3 DEF FlatStack, FlatShape
<1>6. Handled(Top, NoFrame)'
  BY <1>2, <1>3 DEF Handled, Top
<1> QED
  BY <1>1, <1>4, <1>5, <1>6 DEF RInv

\* The top frame is replaced by one for the same struct, or by one that is not the
\* root's, and no property is added.
LEMMA ReplaceRInv ==
  ASSUME SInv, VInv, RInv, walk = "walking", walk' = "walking",
         UNCHANGED <<graph, root, props, required>>,
         NEW f \in Frames, stack' = Append(Front(stack), f),
         f.ofRoot = Top.ofRoot, f.ofRoot => f.type = Top.type /\ f.call = "fields",
         Kind(root) = "struct" => Handled(f, NoFrame)
  PROVE  RInv'
<1>1. CASE Kind(root) # "struct"
  BY <1>1 DEF RInv, Kind
<1>2. CASE Kind(root) = "struct"
  <2> DEFINE new == Append(Front(stack), f)
  <2>1. /\ new \in Seq(Frames) /\ Len(new) = Len(stack) /\ new[Len(stack)] = f /\ Last(new) = f
        /\ \A i \in 1..(Len(stack) - 1) : new[i] = stack[i]
    BY WalkingStack, ReplacedTop
  <2> HIDE DEF new
  <2>2. FlatStack(new)
    <3>1. Top = stack[Len(stack)]
      BY WalkingStack
    <3> QED
      BY <1>2, <2>1, <3>1, WalkingStack, WalkingRoot, FlatReplace
  <2> QED
    BY <1>2, <2>1, <2>2, WalkingRoot, RootStaysPut DEF new
<1> QED
  BY <1>1, <1>2

LEMMA DerefRInv == SInv /\ VInv /\ RInv /\ Deref => RInv'
<1> SUFFICES ASSUME SInv, VInv, RInv, Deref PROVE RInv'
  OBVIOUS
<1> DEFINE f == [Top EXCEPT !.type = graph[Top.type].elem]
<1>1. /\ walk = "walking" /\ Top.call = "schemaFor" /\ Kind(Top.type) = "pointer"
      /\ stack' = Append(Front(stack), f) /\ walk' = "walking"
      /\ UNCHANGED <<graph, root, props, required>>
  BY DEF Deref, Walks, Replace
<1>2. f \in Frames /\ f.ofRoot = Top.ofRoot /\ f.call = "schemaFor"
  <2>1. graph[Top.type].elem \in DOMAIN graph
    BY <1>1, WalkingStack DEF GraphLegal, LegalType, Kind
  <2>2. Top \in Frames
    BY <1>1, WalkingStack
  <2> QED
    BY <1>1, <2>1, <2>2 DEF Frames
<1> HIDE DEF f
<1>3. CASE Kind(root) # "struct"
  BY <1>1, <1>3 DEF RInv, Kind
<1>4. CASE Kind(root) = "struct"
  <2>1. ~Top.ofRoot
    BY <1>1, <1>4, WalkingRoot
  <2>2. Handled(f, NoFrame)
    BY <1>2 DEF Handled
  <2> QED
    BY <1>1, <1>2, <2>1, <2>2, ReplaceRInv
<1> QED
  BY <1>3, <1>4

LEMMA EnterStructRInv == SInv /\ VInv /\ RInv /\ EnterStruct => RInv'
<1> SUFFICES ASSUME SInv, VInv, RInv, EnterStruct PROVE RInv'
  OBVIOUS
<1> DEFINE f == [Top EXCEPT !.call = "fields", !.marked = TRUE]
<1>1. /\ walk = "walking" /\ Top.call = "schemaFor"
      /\ stack' = Append(Front(stack), f) /\ walk' = "walking"
      /\ UNCHANGED <<graph, root, props, required>>
  BY DEF EnterStruct, Walks, Replace
<1>2. /\ f \in Frames /\ f.ofRoot = Top.ofRoot /\ f.type = Top.type /\ f.call = "fields"
      /\ f.next = 1
  <2>1. Top \in Frames /\ Top.next = 1
    BY <1>1, WalkingStack
  <2> QED
    BY <2>1 DEF Frames
<1> HIDE DEF f
<1>3. Handled(f, NoFrame)
  <2>1. \A i \in DOMAIN graph[f.type].fields : ~(i < f.next)
    BY <1>1, <1>2, WalkingStack DEF GraphLegal, LegalType
  <2> QED
    BY <2>1 DEF Handled
<1> QED
  BY <1>1, <1>2, <1>3, ReplaceRInv

LEMMA ElementRInv == SInv /\ VInv /\ RInv /\ Element => RInv'
<1> SUFFICES ASSUME SInv, VInv, RInv, Element PROVE RInv'
  OBVIOUS
<1> DEFINE f == [Top EXCEPT !.call = "list"]
           g == SchemaFor(graph[Top.type].elem, FALSE)
           mid == Append(Front(stack), f)
           new == Append(mid, g)
<1>1. /\ walk = "walking" /\ Top.call = "schemaFor" /\ Kind(Top.type) = "list"
      /\ stack' = new /\ walk' = "walking"
      /\ UNCHANGED <<graph, root, props, required>>
  BY DEF Element, Walks
<1>2. f \in Frames /\ f.ofRoot = Top.ofRoot
  <2>1. Top \in Frames
    BY <1>1, WalkingStack
  <2> QED
    BY <2>1 DEF Frames
<1>3. g \in Frames /\ ~g.ofRoot /\ g.call = "schemaFor"
  <2>1. graph[Top.type].elem \in DOMAIN graph
    BY <1>1, WalkingStack DEF GraphLegal, LegalType, Kind
  <2> QED
    BY <2>1 DEF Frames, SchemaFor
<1> HIDE DEF f, g, mid, new
<1>4. CASE Kind(root) # "struct"
  BY <1>1, <1>4 DEF RInv, Kind
<1>5. CASE Kind(root) = "struct"
  <2>1. ~f.ofRoot
    BY <1>1, <1>2, <1>5, WalkingRoot
  <2>2. /\ mid \in Seq(Frames) /\ Len(mid) = Len(stack) /\ mid[Len(stack)] = f
        /\ \A i \in 1..(Len(stack) - 1) : mid[i] = stack[i]
    BY <1>1, <1>2, WalkingStack, ReplacedTop DEF mid
  <2>3. f.ofRoot = stack[Len(stack)].ofRoot
    BY <1>1, <1>2, WalkingStack
  <2>4. FlatStack(mid)
    BY <1>1, <1>2, <1>5, <2>1, <2>2, <2>3, WalkingStack, WalkingRoot, FlatReplace
  <2>5. Len(mid) > 0 /\ mid[Len(mid)] = f /\ Handled(f, g)
    BY <1>1, <2>1, <2>2, WalkingStack DEF Handled
  <2>6. FlatStack(new)
    BY <1>3, <2>2, <2>4, <2>5, FlatPush DEF new
  <2>7. Last(new) = g /\ Handled(g, NoFrame)
    BY <1>3, <2>2, LastAppended DEF Handled, new
  <2> QED
    BY <1>1, <1>5, <2>6, <2>7, WalkingRoot, RootStaysPut
<1> QED
  BY <1>4, <1>5

LEMMA PopRInv ==
  ASSUME SInv, VInv, RInv, walk = "walking", Pop,
         Kind(root) = "struct" /\ Top.ofRoot => Covered(Top.type)
  PROVE  RInv'
<1>1. /\ stack' = Front(stack) /\ UNCHANGED <<graph, root, props, required>>
      /\ walk' = IF Len(stack) = 1 THEN "ok" ELSE "walking"
  BY DEF Pop
<1>2. CASE Kind(root) # "struct"
  BY <1>1, <1>2 DEF RInv, Kind
<1>3. CASE Kind(root) = "struct" /\ Len(stack) = 1
  <2>1. Covered(root) /\ Bounded
    BY <1>3, WalkingRoot
  <2>2. Grows
    BY <1>1 DEF Grows
  <2>3. Covered(root)'
    BY <1>1, <2>1, <2>2, CoveredGrows
  <2>4. Bounded'
    <3>1. Flattens' = Flattens
      BY <1>1 DEF Flattens, FieldsOf, Promoted, Kind
    <3>2. Candidates' = Candidates
      BY <1>1, <3>1 DEF Candidates, FieldsOf, Emits, Promoted, Kind
    <3> QED
      BY <1>1, <2>1, <3>2 DEF Bounded, Required
  <2> QED
    BY <1>1, <1>3, <2>3, <2>4 DEF RInv
<1>4. CASE Kind(root) = "struct" /\ Len(stack) # 1
  <2>1. Top = stack[Len(stack)] /\ Len(stack) > 1
    BY <1>4, WalkingStack
  <2>2. FlatStack(Front(stack)) /\ Handled(Last(Front(stack)), NoFrame)
    BY <1>4, <2>1, WalkingStack, WalkingRoot, FlatPop
  <2> QED
    BY <1>1, <1>4, <2>2, WalkingRoot, RootStaysPut
<1> QED
  BY <1>2, <1>3, <1>4

LEMMA ReturnRInv == SInv /\ VInv /\ RInv /\ (Leaf \/ EndList \/ EndStruct) => RInv'
<1> SUFFICES ASSUME SInv, VInv, RInv, Leaf \/ EndList \/ EndStruct PROVE RInv'
  OBVIOUS
<1>1. walk = "walking" /\ Pop
  BY DEF Leaf, EndList, EndStruct, Walks
<1>2. ASSUME Kind(root) = "struct", Top.ofRoot PROVE Covered(Top.type)
  <2> DEFINE fields == graph[Top.type].fields
  <2>1. Kind(Top.type) = "struct"
    BY <1>1, <1>2, WalkingRoot
  <2>2. EndStruct
    BY <1>1, <2>1, WalkingStack DEF Leaf, EndList, Walks
  <2>3. Top.call = "fields" /\ Top.next > Len(fields) /\ Top.next \in Nat
    BY <1>1, <2>2, WalkingStack DEF EndStruct, Walks, Frames
  <2>4. \A i \in DOMAIN fields : i < Top.next
    BY <1>1, <2>3, WalkingStack DEF GraphLegal, LegalType
  <2>5. \A i \in DOMAIN fields :
          /\ Emits(fields[i]) => Kept(fields[i])
          /\ fields[i].tag # "-" /\ Promoted(fields[i]) => Covered(fields[i].type)
    BY <1>1, <1>2, <2>3, <2>4, WalkingRoot DEF Handled, NoFrame
  <2>6. \A f \in FieldsOf(Top.type) :
          /\ Emits(f) => Kept(f)
          /\ f.tag # "-" /\ Promoted(f) => Covered(f.type)
    BY <2>5 DEF FieldsOf, Range
  <2>7. \A u \in Flattens[Top.type] : Covered(u)
    BY <1>1, <2>6, WalkingStack DEF Flattens
  <2> QED
    BY <1>1, <2>6, <2>7, WalkingStack, CoveredBySuccessors
<1> QED
  BY <1>1, <1>2, PopRInv

\* The loop has handled one more field, for the frame x that it may have pushed.
LEMMA HandledNext ==
  ASSUME SInv, VInv, RInv, WalkField, Kind(root) = "struct", Grows,
         NEW f, f = [Top EXCEPT !.next = @ + 1],
         NEW h, h = Field, NEW x,
         Top.ofRoot /\ Emits(h) => Kept(h)',
         Top.ofRoot /\ h.tag # "-" /\ Promoted(h) => x.ofRoot /\ x.type = h.type
  PROVE  Handled(f, x)'
<1> DEFINE fields == graph[f.type].fields
<1>1. walk = "walking" /\ Top \in Frames
  BY FieldAt, WalkingStack
<1>2. f.type = Top.type /\ f.call = Top.call /\ f.ofRoot = Top.ofRoot /\ f.next = Top.next + 1
  BY <1>1 DEF Frames
<1>3. CASE ~Top.ofRoot
  BY <1>2, <1>3 DEF Handled
<1>4. CASE Top.ofRoot
  <2>1. graph' = graph /\ root' = root
    BY DEF Grows
  <2>2. \A i \in DOMAIN fields : i < f.next => i < Top.next \/ fields[i] = h
    BY <1>1, <1>2, FieldAt, WalkingStack DEF GraphLegal, LegalType, Frames
  <2>3. \A i \in DOMAIN fields : i < Top.next =>
          /\ Emits(fields[i]) => Kept(fields[i])
          /\ fields[i].tag # "-" /\ Promoted(fields[i]) => Covered(fields[i].type)
    BY <1>1, <1>2, <1>4, FieldAt, WalkingRoot DEF Handled, NoFrame
  <2>4. (\A k : Kept(k) => Kept(k)') /\ (\A t : Covered(t) => Covered(t)')
    BY KeptGrows, CoveredGrows
  <2>5. \A k : (Emits(k)' <=> Emits(k)) /\ (Promoted(k)' <=> Promoted(k))
    BY <2>1 DEF Emits, Promoted, Kind
  <2>6. \A i \in DOMAIN fields : i < f.next =>
          /\ Emits(fields[i]) => Kept(fields[i]) \/ fields[i] = h
          /\ fields[i].tag # "-" /\ Promoted(fields[i]) =>
               Covered(fields[i].type) \/ (x.ofRoot /\ x.type = fields[i].type)
    BY <1>4, <2>2, <2>3
  <2>7. ASSUME NEW k \in Range(fields),
               Emits(k) => Kept(k) \/ k = h,
               k.tag # "-" /\ Promoted(k) => Covered(k.type) \/ (x.ofRoot /\ x.type = k.type)
        PROVE  /\ Emits(k)' => Kept(k)'
               /\ k.tag # "-" /\ Promoted(k)' => Covered(k.type)' \/ (x.ofRoot /\ x.type = k.type)
    BY <1>4, <2>4, <2>5, <2>7
  <2>8. ASSUME NEW i \in DOMAIN fields, i < f.next, NEW k, k = fields[i]
        PROVE  /\ Emits(k)' => Kept(k)'
               /\ k.tag # "-" /\ Promoted(k)' => Covered(k.type)' \/ (x.ofRoot /\ x.type = k.type)
    <3>1. k \in Range(fields)
      BY <2>8 DEF Range
    <3>2. /\ Emits(k) => Kept(k) \/ k = h
          /\ k.tag # "-" /\ Promoted(k) => Covered(k.type) \/ (x.ofRoot /\ x.type = k.type)
      BY <2>6, <2>8
    <3> QED
      BY <2>7, <3>1, <3>2
  <2> QED
    BY <1>2, <2>1, <2>8 DEF Handled
<1> QED
  BY <1>3, <1>4

\* What the loop adds to the root's properties: an emitted field of the root's.
LEMMA Adds ==
  ASSUME SInv, VInv, RInv, WalkField, Kind(root) = "struct", NEW h, h = Field
  PROVE  /\ Grows
         /\ DOMAIN props' \subseteq {f.name : f \in Candidates}
         /\ required' \in Seq({f.name : f \in Required})
         /\ Top.ofRoot /\ Emits(h) => Kept(h)'
<1> DEFINE Names == {f.name : f \in Required}
<1>1. /\ walk = "walking" /\ graph' = graph /\ root' = root /\ Bounded
      /\ UNCHANGED <<props, required>>
         \/ (Add(h) /\ h.tag # "-" /\ ~Promoted(h) /\ h.exported)
  BY FieldAt, WalkingRoot DEF WalkField, Flattened, Promoted
<1>2. required \in Seq(Names) /\ DOMAIN props \subseteq {f.name : f \in Candidates}
  BY <1>1 DEF Bounded
<1>3. CASE UNCHANGED <<props, required>>
  <2>1. ~(Top.ofRoot /\ Emits(h)) \/ (Add(h) /\ Top.ofRoot)
    BY <1>1, FieldAt DEF WalkField, Flattened, Emits, Promoted
  <2>2. Grows
    BY <1>1, <1>3 DEF Grows
  <2>3. Add(h) /\ Top.ofRoot => Kept(h)'
    <3> SUFFICES ASSUME Add(h), Top.ofRoot PROVE Kept(h)'
      OBVIOUS
    <3>1. h.name \in DOMAIN props'
      BY DEF Add
    <3>2. ~h.optional => h.name \in Range(required')
      <4> SUFFICES ASSUME ~h.optional PROVE h.name \in Range(required')
        OBVIOUS
      <4>1. required' = Append(required, h.name)
        BY DEF Add
      <4>2. Append(required, h.name)[Len(required) + 1] = h.name
            /\ Len(required) + 1 \in DOMAIN Append(required, h.name)
        BY <1>2
      <4> QED
        BY <4>1, <4>2 DEF Range
    <3> QED
      BY <3>1, <3>2 DEF Kept
  <2> QED
    BY <1>2, <1>3, <2>1, <2>2, <2>3
<1>4. CASE Add(h) /\ h.tag # "-" /\ ~Promoted(h) /\ h.exported /\ Top.ofRoot
  <2>1. h \in Candidates
    <3>1. Top.type \in {root} \cup From(root, Flattens) /\ h \in FieldsOf(Top.type)
      BY <1>1, <1>4, FieldAt, WalkingRoot
    <3> QED
      BY <1>4, <3>1 DEF Candidates, Emits
  <2>2. DOMAIN props' = DOMAIN props \cup {h.name}
    BY <1>4 DEF Add
  <2>3. required' = IF h.optional THEN required ELSE Append(required, h.name)
    BY <1>4 DEF Add
  <2>4. ~h.optional => h.name \in Names
    BY <2>1 DEF Required
  <2> HIDE DEF Names
  <2>5. /\ required' \in Seq(Names) /\ Range(required) \subseteq Range(required')
        /\ ~h.optional => h.name \in Range(required')
    <3>1. CASE h.optional
      BY <1>2, <2>3, <3>1
    <3>2. CASE ~h.optional
      <4> DEFINE new == Append(required, h.name)
      <4>1. /\ new \in Seq(Names) /\ Len(new) = Len(required) + 1 /\ Len(required) \in Nat
            /\ \A i \in 1..Len(required) : new[i] = required[i]
            /\ new[Len(required) + 1] = h.name
        BY <1>2, <2>4, <3>2, Pushed
      <4>2. DOMAIN required = 1..Len(required) /\ DOMAIN new = 1..(Len(required) + 1)
        BY <1>2, <4>1
      <4> HIDE DEF new
      <4>3. \A i \in DOMAIN required : i \in DOMAIN new /\ new[i] = required[i]
        BY <4>1, <4>2
      <4>4. Len(required) + 1 \in DOMAIN new
        BY <4>1, <4>2
      <4>5. required' = new
        BY <2>3, <3>2 DEF new
      <4> QED
        BY <4>1, <4>3, <4>4, <4>5 DEF Range
    <3> QED
      BY <3>1, <3>2
  <2>6. Grows
    BY <1>1, <2>2, <2>5 DEF Grows
  <2>7. Kept(h)'
    BY <2>2, <2>5 DEF Kept
  <2>8. h.name \in {f.name : f \in Candidates}
    BY <2>1
  <2> QED
    BY <1>2, <2>2, <2>5, <2>6, <2>7, <2>8 DEF Names
<1> QED
  BY <1>1, <1>3, <1>4 DEF Add

LEMMA WalkFieldRInv == SInv /\ VInv /\ RInv /\ WalkField => RInv'
<1> SUFFICES ASSUME SInv, VInv, RInv, WalkField PROVE RInv'
  OBVIOUS
<1> DEFINE f == [Top EXCEPT !.next = @ + 1]
           flat == [SchemaFor(Field.type, Top.ofRoot) EXCEPT !.call = "fields"]
           called == SchemaFor(Field.type, FALSE)
           rest == Append(Front(stack), f)
<1>1. /\ graph' = graph /\ root' = root /\ walk' = "walking" /\ walk = "walking"
      /\ \/ Promoted(Field) /\ Field.tag # "-" /\ stack' = Append(rest, flat)
         \/ ~(Promoted(Field) /\ Field.tag # "-") /\ stack' \in {rest, Append(rest, called)}
  BY FieldAt DEF WalkField, Walks, Promoted, Flattened
<1>2. Top \in Frames /\ Top.call = "fields" /\ Top.ofRoot \in BOOLEAN
  BY <1>1, FieldAt, WalkingStack DEF Frames
<1>3. f \in Frames /\ f.type = Top.type /\ f.call = "fields" /\ f.ofRoot = Top.ofRoot
  BY <1>2 DEF Frames
<1>4. called \in Frames /\ ~called.ofRoot /\ called.call = "schemaFor"
  BY FieldAt DEF Frames, SchemaFor
<1>5. /\ flat \in Frames /\ flat.call = "fields" /\ flat.ofRoot = Top.ofRoot
      /\ flat.type = Field.type /\ flat.next = 1
  <2> DEFINE g == SchemaFor(Field.type, Top.ofRoot)
  <2>1. g \in Frames /\ g.type = Field.type /\ g.ofRoot = Top.ofRoot /\ g.next = 1
    BY <1>2, FieldAt DEF Frames, SchemaFor
  <2> HIDE DEF g
  <2>2. /\ [g EXCEPT !.call = "fields"] \in Frames
        /\ [g EXCEPT !.call = "fields"].call = "fields"
        /\ [g EXCEPT !.call = "fields"].ofRoot = Top.ofRoot
        /\ [g EXCEPT !.call = "fields"].type = Field.type
        /\ [g EXCEPT !.call = "fields"].next = 1
    BY <2>1 DEF Frames
  <2> QED
    BY <2>2 DEF g
<1>6. CASE Kind(root) # "struct"
  BY <1>1, <1>6 DEF RInv, Kind
<1>7. CASE Kind(root) = "struct"
  <2>1. f = [Top EXCEPT !.next = @ + 1]
    OBVIOUS
  <2> HIDE DEF f, flat, called, rest
  <2>2. /\ rest \in Seq(Frames) /\ Len(rest) = Len(stack) /\ rest[Len(stack)] = f /\ Last(rest) = f
        /\ \A i \in 1..(Len(stack) - 1) : rest[i] = stack[i]
    BY <1>1, <1>3, WalkingStack, ReplacedTop DEF rest
  <2>3. FlatStack(rest)
    <3>1. Top = stack[Len(stack)]
      BY <1>1, WalkingStack
    <3> QED
      BY <1>1, <1>3, <1>7, <2>2, <3>1, WalkingStack, WalkingRoot, FlatReplace
  <2>4. /\ Grows
        /\ DOMAIN props' \subseteq {g.name : g \in Candidates}
        /\ required' \in Seq({g.name : g \in Required})
    BY <1>7, Adds
  <2>5. Top.ofRoot /\ Emits(Field) => \A h : h = Field => Kept(h)'
    BY <1>7, Adds
  <2>6. Len(stack) \in Nat \ {0}
    BY <1>1, WalkingStack
  <2>7. \A j \in 1..(Len(stack) - 1) : Handled(rest[j], rest[j + 1])
    BY <2>2, <2>3 DEF FlatStack
  <2>8. \A g, x : Handled(g, x) => Handled(g, x)'
    BY <2>4, HandledGrows
  <2>9. ASSUME NEW x, Top.ofRoot /\ Field.tag # "-" /\ Promoted(Field) => x.ofRoot /\ x.type = Field.type
        PROVE  \A g : g = f => Handled(g, x)'
    BY <1>7, <2>1, <2>4, <2>5, <2>9, HandledNext
  <2>10. CASE stack' = rest /\ ~(Promoted(Field) /\ Field.tag # "-")
    <3>1. \A j \in 1..(Len(stack') - 1) : Handled(stack[j], stack[j + 1])'
      BY <2>2, <2>7, <2>8, <2>10
    <3>2. Top' = f /\ NoFrame' = NoFrame
      BY <1>1, <2>2, <2>10 DEF Top, NoFrame
    <3>3. Handled(Top, NoFrame)'
      BY <2>9, <2>10, <3>2
    <3> QED
      BY <1>1, <2>3, <2>4, <2>10, <3>1, <3>3, RootStays DEF FlatStack
  <2>11. ASSUME NEW g \in Frames, stack' = Append(rest, g),
                g.ofRoot => /\ g.type \in {root} \cup From(root, Flattens)
                            /\ Kind(g.type) = "struct" /\ g.call = "fields" /\ g.next = 1,
                Top.ofRoot /\ Field.tag # "-" /\ Promoted(Field) => g.ofRoot /\ g.type = Field.type
         PROVE  RInv'
    <3>1. FlatShape(stack')
      BY <2>2, <2>3, <2>6, <2>11, ShapePush DEF FlatStack
    <3>2. /\ Len(stack') = Len(stack) + 1 /\ stack'[Len(stack) + 1] = g
          /\ \A i \in 1..Len(stack) : stack'[i] = rest[i]
      BY <2>2, <2>6, <2>11, Pushed
    <3>3. ASSUME NEW j \in 1..(Len(stack') - 1) PROVE Handled(stack[j], stack[j + 1])'
      <4>1. CASE j = Len(stack)
        <5>1. stack'[j] = f /\ stack'[j + 1] = g
          BY <2>2, <2>6, <3>2, <4>1
        <5> QED
          BY <2>9, <2>11, <5>1
      <4>2. CASE j # Len(stack)
        <5>1. j \in 1..(Len(stack) - 1) /\ stack'[j] = rest[j] /\ stack'[j + 1] = rest[j + 1]
          BY <2>6, <3>2, <4>2
        <5> QED
          BY <2>7, <2>8, <5>1
      <4> QED
        BY <4>1, <4>2
    <3>4. Top' = g /\ NoFrame' = NoFrame
      <4>1. Last(stack') = g
        BY <2>2, <2>11, LastAppended
      <4> QED
        BY <1>1, <4>1 DEF Top, NoFrame
    <3>5. Handled(g, NoFrame)
      <4>1. ASSUME g.ofRoot PROVE \A i \in DOMAIN graph[g.type].fields : ~(i < g.next)
        BY <1>1, <2>11, <4>1, WalkingStack DEF GraphLegal, LegalType, Frames
      <4> QED
        BY <4>1 DEF Handled
    <3>6. Handled(Top, NoFrame)'
      BY <2>8, <3>4, <3>5
    <3> QED
      BY <1>1, <2>4, <3>1, <3>3, <3>6, RootStays
  <2>12. CASE Promoted(Field) /\ Field.tag # "-" /\ stack' = Append(rest, flat)
    <3>1. Kind(flat.type) = "struct"
      BY <1>5, <2>12 DEF Promoted
    <3>2. Top.ofRoot => flat.type \in {root} \cup From(root, Flattens)
      <4> SUFFICES ASSUME Top.ofRoot PROVE Field.type \in {root} \cup From(root, Flattens)
        BY <1>5
      <4>1. Top.type \in DOMAIN graph /\ Top.type \in {root} \cup From(root, Flattens)
        BY <1>1, <1>7, WalkingStack, WalkingRoot
      <4>2. Field.type \in Flattens[Top.type]
        BY <2>12, <4>1, FieldAt DEF Flattens
      <4>3. root \in DOMAIN graph /\ Flattens \in [DOMAIN graph -> SUBSET DOMAIN graph]
        BY <1>1, WalkingStack, FlattensTyped
      <4> QED
        BY <4>1, <4>2, <4>3, Reaches
    <3> QED
      BY <1>5, <2>11, <2>12, <3>1, <3>2
  <2>13. CASE ~(Promoted(Field) /\ Field.tag # "-") /\ stack' = Append(rest, called)
    BY <1>4, <2>11, <2>13
  <2> QED
    BY <1>1, <2>10, <2>12, <2>13
<1> QED
  BY <1>6, <1>7

LEMMA SchemaNextRInv == SInv /\ VInv /\ RInv /\ [SchemaNext]_schemaVars => RInv'
<1> SUFFICES ASSUME SInv, VInv, RInv, [SchemaNext]_schemaVars PROVE RInv'
  OBVIOUS
<1>1. CASE Overflow \/ Fails
  BY <1>1 DEF RInv, Overflow, Fails
<1>2. CASE UNCHANGED schemaVars
  <2>1. UNCHANGED <<graph, root, props, required>> /\ stack' = stack /\ walk' = walk
    BY <1>2 DEF schemaVars
  <2>2. CASE walk = "walking"
    <3>1. CASE Kind(root) = "struct"
      BY <2>1, <2>2, <3>1, WalkingRoot, RootStaysPut DEF Top
    <3>2. CASE Kind(root) # "struct"
      BY <2>1, <2>2, <3>2 DEF RInv, Kind
    <3> QED
      BY <3>1, <3>2
  <2>3. CASE walk = "ok" /\ Kind(root) = "struct"
    <3>1. Covered(root)'
      <4>1. Grows /\ Covered(root)
        BY <2>1, <2>3 DEF Grows, RInv
      <4> QED
        BY <2>1, <4>1, CoveredGrows
    <3>2. Bounded'
      <4>1. Flattens' = Flattens
        BY <2>1 DEF Flattens, FieldsOf, Promoted, Kind
      <4>2. Candidates' = Candidates
        BY <2>1, <4>1 DEF Candidates, FieldsOf, Emits, Promoted, Kind
      <4> QED
        BY <2>1, <2>3, <4>2 DEF RInv, Bounded, Required
    <3> QED
      BY <2>1, <2>3, <3>1, <3>2 DEF RInv
  <2>4. CASE walk # "walking" /\ ~(walk = "ok" /\ Kind(root) = "struct")
    BY <2>1, <2>4 DEF RInv, Kind
  <2> QED
    BY <2>2, <2>3, <2>4
<1> QED
  BY <1>1, <1>2, FromReflectTypeRInv, DerefRInv, ReturnRInv, ElementRInv, EnterStructRInv,
     WalkFieldRInv DEF SchemaNext, Step

\* The root's properties have the types of candidates of their names.
OfFields ==
  walk \in {"walking", "ok"} /\ Kind(root) = "struct" =>
    \A n \in DOMAIN props : \E f \in Candidates : f.name = n /\ f.type = props[n]

LEMMA OfFieldsStep == SInv /\ VInv /\ RInv /\ OfFields /\ [SchemaNext]_schemaVars => OfFields'
<1> SUFFICES ASSUME SInv, VInv, RInv, OfFields, [SchemaNext]_schemaVars PROVE OfFields'
  OBVIOUS
<1>1. ASSUME graph' = graph, root' = root PROVE Candidates' = Candidates /\ Kind(root)' = Kind(root)
  <2>1. Flattens' = Flattens
    BY <1>1 DEF Flattens, FieldsOf, Promoted, Kind
  <2> QED
    BY <1>1, <2>1 DEF Candidates, FieldsOf, Emits, Promoted, Kind
<1>2. CASE FromReflectType
  <2>1. DOMAIN props' = {}
    BY <1>2 DEF FromReflectType, RInv
  <2> QED
    BY <2>1 DEF OfFields
<1>3. CASE Overflow \/ Fails
  BY <1>3 DEF OfFields, Overflow, Fails
<1>4. CASE Deref \/ Leaf \/ Element \/ EndList \/ EnterStruct \/ EndStruct
  <2>1. walk = "walking" /\ UNCHANGED <<graph, root, props>>
    BY <1>4 DEF Deref, Leaf, Element, EndList, EnterStruct, EndStruct, Walks, Pop
  <2> QED
    BY <1>1, <2>1 DEF OfFields
<1>5. CASE WalkField
  <2> SUFFICES ASSUME Kind(root) = "struct", NEW n \in DOMAIN props'
               PROVE  \E f \in Candidates : f.name = n /\ f.type = props'[n]
    BY <1>1, <1>5 DEF WalkField, OfFields
  <2>1. /\ walk = "walking"
        /\ \/ UNCHANGED props
           \/ Add(Field) /\ Field.tag # "-" /\ ~Promoted(Field) /\ Field.exported
    BY <1>5, FieldAt DEF WalkField, Flattened, Promoted
  <2>2. \A m \in DOMAIN props : \E f \in Candidates : f.name = m /\ f.type = props[m]
    BY <2>1 DEF OfFields
  <2>3. CASE UNCHANGED props
    BY <2>2, <2>3
  <2>4. CASE Add(Field) /\ Field.tag # "-" /\ ~Promoted(Field) /\ Field.exported /\ Top.ofRoot
    <3> DEFINE h == Field
    <3>1. h \in Candidates
      <4>1. Top.type \in {root} \cup From(root, Flattens) /\ h \in FieldsOf(Top.type)
        BY <1>5, <2>1, <2>4, FieldAt, WalkingRoot
      <4> QED
        BY <2>4, <4>1 DEF Candidates, Emits
    <3>2. props' = [m \in DOMAIN props \cup {h.name} |-> IF m = h.name THEN h.type ELSE props[m]]
      BY <2>4 DEF Add
    <3> HIDE DEF h
    <3>3. CASE n = h.name
      BY <3>1, <3>2, <3>3
    <3>4. CASE n # h.name
      BY <2>2, <3>2, <3>4
    <3> QED
      BY <3>3, <3>4
  <2> QED
    BY <2>1, <2>3, <2>4 DEF Add
<1>6. CASE UNCHANGED schemaVars
  <2>1. UNCHANGED <<graph, root, props, walk>>
    BY <1>6 DEF schemaVars
  <2> QED
    BY <1>1, <2>1 DEF OfFields
<1> QED
  BY <1>2, <1>3, <1>4, <1>5, <1>6 DEF SchemaNext, Step

LEMMA CandidatesHavePlaces ==
  /\ \A p \in CandidatePlaces : At(p) \in Candidates
  /\ \A f \in Candidates : \E p \in CandidatePlaces : At(p) = f
<1>1. \A t \in Structs : FieldsOf(t) = {At(<<t, i>>) : i \in DOMAIN graph[t].fields}
  BY DEF FieldsOf, Range, At
<1>2. \A t \in Structs : \A i \in DOMAIN graph[t].fields : <<t, i>> \in FieldPlaces
  BY DEF FieldPlaces
<1>3. ASSUME NEW p \in CandidatePlaces PROVE At(p) \in Candidates
  <2>1. PICK t \in Structs : \E i \in DOMAIN graph[t].fields : p = <<t, i>>
    BY DEF CandidatePlaces, FieldPlaces
  <2>2. At(p) \in FieldsOf(t) /\ Emits(At(p))
    BY <1>1, <2>1 DEF CandidatePlaces
  <2> QED
    BY <2>1, <2>2 DEF Candidates
<1>4. ASSUME NEW f \in Candidates PROVE \E p \in CandidatePlaces : At(p) = f
  <2>1. PICK t \in Structs : f \in FieldsOf(t)
    BY DEF Candidates
  <2>2. PICK i \in DOMAIN graph[t].fields : f = At(<<t, i>>)
    BY <1>1, <2>1
  <2>3. Emits(f) /\ <<t, i>> \in FieldPlaces
    BY <1>2 DEF Candidates
  <2> QED
    BY <2>2, <2>3 DEF CandidatePlaces
<1> QED
  BY <1>3, <1>4

\* For type graphs of any size and walks of any depth: the object schema of a struct
\* describes every field that encoding/json emits, exactly those whose names do not
\* clash, and nothing but these and fields that clash.
THEOREM RootIsComplete == SchemaSpec => []RootHasItsFields
<1> DEFINE All == SInv /\ VInv /\ RInv /\ OfFields
<1>1. SchemaInit => All
  BY DEF SchemaInit, SInv, VInv, RInv, OfFields
<1>2. All /\ [SchemaNext]_schemaVars => All'
  BY SchemaNextSInv, SchemaNextVInv, SchemaNextRInv, OfFieldsStep
<1>3. All => RootHasItsFields
  <2> SUFFICES ASSUME RInv, OfFields, walk = "ok", Kind(root) = "struct"
               PROVE  RootHasItsFields
    BY Zenon DEF RootHasItsFields
  <2>1. Bounded /\ Covered(root)
    BY DEF RInv
  <2>2. \A f \in Candidates : Kept(f)
    BY <2>1 DEF Candidates, Structs, Covered
  <2>3. \A n \in Range(required) : \E f \in Candidates : f.name = n /\ ~f.optional
    BY <2>1 DEF Bounded, Range, Required
  <2>4. \A n \in DOMAIN props : \E f \in Candidates : f.name = n /\ f.type = props[n]
    BY DEF OfFields
  <2>5. \A p \in CandidatePlaces : p \in Emitted \/ Clashes(p)
    BY DEF Emitted, Clashes
  <2>6. Emitted \subseteq CandidatePlaces
    BY DEF Emitted
  <2>7. ASSUME NEW p \in Emitted
        PROVE  /\ At(p).name \in DOMAIN props
               /\ At(p).name \in Range(required) \/ At(p).optional
               /\ ~Clashes(p) => /\ props[At(p).name] = At(p).type
                                 /\ At(p).name \in Range(required) => ~At(p).optional
    <3>1. Kept(At(p)) /\ p \in CandidatePlaces
      BY <2>2, <2>6, CandidatesHavePlaces
    <3>2. ASSUME ~Clashes(p), NEW f \in Candidates, f.name = At(p).name PROVE f = At(p)
      BY <3>2, CandidatesHavePlaces DEF Clashes
    <3> QED
      BY <2>3, <2>4, <3>1, <3>2 DEF Kept
  <2>8. ASSUME NEW n \in DOMAIN props \cup Range(required)
        PROVE  \E p \in CandidatePlaces : At(p).name = n /\ (p \in Emitted \/ Clashes(p))
    <3>1. PICK f \in Candidates : f.name = n
      BY <2>3, <2>4, <2>8
    <3> QED
      BY <2>5, <3>1, CandidatesHavePlaces
  <2> QED
    BY <2>7, <2>8 DEF RootHasItsFields
<1> QED
  BY <1>1, <1>2, <1>3, PTL DEF SchemaSpec

\* A property of the root has the schema of one of the fields of its name, so an outer
\* field loses to a promoted one (as it does, against encoding/json) only where the
\* two have one name and different types.
THEOREM OnlyRepeatedNamesAreShadowed ==
  SchemaSpec =>
    [](\/ OuterFieldWins
       \/ \E f \in FieldsOf(root), g \in Candidates :
            f.name = g.name /\ f.type # g.type /\ props[f.name] = g.type)
<1> DEFINE All == SInv /\ VInv /\ RInv /\ OfFields
           Shadowed == \E f \in FieldsOf(root), g \in Candidates :
                         f.name = g.name /\ f.type # g.type /\ props[f.name] = g.type
<1>1. SchemaInit => All
  BY DEF SchemaInit, SInv, VInv, RInv, OfFields
<1>2. All /\ [SchemaNext]_schemaVars => All'
  BY SchemaNextSInv, SchemaNextVInv, SchemaNextRInv, OfFieldsStep
<1>3. All => OuterFieldWins \/ Shadowed
  <2> SUFFICES ASSUME RInv, OfFields, walk = "ok", Kind(root) = "struct",
                      NEW f \in FieldsOf(root), f.exported, f.tag = "none", ~Promoted(f),
                      props[f.name] # f.type
               PROVE  Shadowed
    BY DEF OuterFieldWins
  <2>1. f \in Candidates
    BY DEF Candidates, Emits
  <2>2. f.name \in DOMAIN props
    BY <2>1 DEF RInv, Candidates, Covered, Kept
  <2>3. PICK g \in Candidates : g.name = f.name /\ g.type = props[f.name]
    BY <2>2 DEF OfFields
  <2> QED
    BY <2>3
<1> QED
  BY <1>1, <1>2, <1>3, PTL DEF SchemaSpec

--------------------------------------------------------------------------------
(* The depth of the walk. Between two marks, every frame's type leads to    *)
(* those above it by calls that mark nothing.                               *)

\* Is f past the check for recursion, or of a type that is not checked?
Passed(f) == f.call # "schemaFor" \/ Kind(f.type) # "struct"

\* Frames above i, up to j, that have marked no struct.
NoMark(st, i, j) == \A k \in 1..Len(st) : i < k /\ k <= j => ~st[k].marked

Linked(st) ==
  \A i, j \in 1..Len(st) :
    i < j /\ Passed(st[j]) /\ NoMark(st, i, j) => st[j].type \in From(st[i].type, LeadsUnmarked)

\* Below the top frame no two agree in their type and in the struct that was marked
\* last, unless the type leads back to itself unmarked: a stack has no more frames.
Deepest(g) == LET n == Cardinality(DOMAIN g) IN 1 + (n + 1) * n

\* The goroutine's stack has room for more than that.
Roomy == MaxDepth \in Nat /\ \A g \in Graphs : IsFiniteSet(DOMAIN g) /\ Deepest(g) < MaxDepth

DInv ==
  /\ walk = "walking" => Linked(stack) /\ graph \in Graphs
  /\ walk = "crashed" /\ Roomy => Unguarded

LEMMA UnmarkedTyped ==
  ASSUME GraphLegal
  PROVE  LeadsUnmarked \in [DOMAIN graph -> SUBSET DOMAIN graph]
BY LeadsTyped DEF LeadsUnmarked

\* Another frame is put in the place of the top one.
LEMMA LinkedReplace ==
  ASSUME GraphLegal, NEW st \in Seq(Frames), Len(st) > 0, Linked(st),
         NEW f \in Frames, NEW new \in Seq(Frames), Len(new) = Len(st),
         \A i \in 1..(Len(st) - 1) : new[i] = st[i],
         new[Len(st)] = f,
         \/ f.marked
         \/ ~Passed(f)
         \/ /\ Passed(st[Len(st)]) /\ ~st[Len(st)].marked
            /\ \/ f.type = st[Len(st)].type
               \/ f.type \in LeadsUnmarked[st[Len(st)].type]
  PROVE  Linked(new)
<1> DEFINE n == Len(st)
           top == st[n]
<1>1. /\ n \in Nat \ {0} /\ n \in 1..n
      /\ \A i \in 1..n : st[i] \in Frames /\ st[i].type \in DOMAIN graph
  <2>1. n \in Nat \ {0} /\ n \in 1..n /\ \A i \in 1..n : st[i] \in Frames
    OBVIOUS
  <2>2. \A h \in Frames : h.type \in DOMAIN graph
    BY DEF Frames
  <2> QED
    BY <2>1, <2>2
<1>2. \A i \in 1..n : i # n => new[i] = st[i]
  BY <1>1
<1>3. \A t \in DOMAIN graph : \A u, v :
        u \in From(t, LeadsUnmarked) /\ v \in LeadsUnmarked[u] => v \in From(t, LeadsUnmarked)
  BY UnmarkedTyped, Reaches
<1> SUFFICES ASSUME NEW i \in 1..n, NEW j \in 1..n, i < j, Passed(new[j]), NoMark(new, i, j)
             PROVE  new[j].type \in From(new[i].type, LeadsUnmarked)
  BY DEF Linked
<1>4. i # n /\ new[i] = st[i]
  BY <1>1, <1>2
<1>5. CASE j # n
  <2>1. \A k \in 1..n : i < k /\ k <= j => k # n
    BY <1>1, <1>5
  <2>2. NoMark(st, i, j) /\ new[j] = st[j]
    BY <1>2, <1>5, <2>1 DEF NoMark
  <2> QED
    BY <1>4, <2>2 DEF Linked
<1>6. CASE j = n
  <2>1. ~f.marked /\ Passed(f)
    BY <1>1, <1>6 DEF NoMark
  <2>2. NoMark(st, i, n) /\ Passed(top)
    BY <1>2, <1>6, <2>1 DEF NoMark
  <2>3. top.type \in From(st[i].type, LeadsUnmarked)
    BY <1>1, <1>6, <2>2 DEF Linked
  <2>4. st[i].type \in DOMAIN graph
    BY <1>1
  <2> QED
    BY <1>3, <1>4, <1>6, <2>1, <2>3, <2>4
<1> QED
  BY <1>5, <1>6

\* A call is made, for a type that the top frame's leads to.
LEMMA LinkedPush ==
  ASSUME GraphLegal, NEW st \in Seq(Frames), Len(st) > 0, Linked(st),
         Passed(st[Len(st)]), NEW g \in Frames,
         Passed(g) => g.type \in LeadsUnmarked[st[Len(st)].type]
  PROVE  Linked(Append(st, g))
<1> DEFINE n == Len(st)
           top == st[n]
           new == Append(st, g)
<1>1. /\ n \in Nat \ {0} /\ n \in 1..n
      /\ \A i \in 1..n : st[i] \in Frames /\ st[i].type \in DOMAIN graph
  <2>1. n \in Nat \ {0} /\ n \in 1..n /\ \A i \in 1..n : st[i] \in Frames
    OBVIOUS
  <2>2. \A h \in Frames : h.type \in DOMAIN graph
    BY DEF Frames
  <2> QED
    BY <2>1, <2>2
<1>2. Len(new) = n + 1 /\ new[n + 1] = g /\ \A i \in 1..n : new[i] = st[i]
  BY <1>1
<1> HIDE DEF new
<1>3. LeadsUnmarked \in [DOMAIN graph -> SUBSET DOMAIN graph]
  BY UnmarkedTyped
<1>4. \A t \in DOMAIN graph : \A u, v :
        u \in From(t, LeadsUnmarked) /\ v \in LeadsUnmarked[u] => v \in From(t, LeadsUnmarked)
  BY <1>3, Reaches
<1> SUFFICES ASSUME NEW i \in 1..(n + 1), NEW j \in 1..(n + 1), i < j, Passed(new[j]),
                    NoMark(new, i, j)
             PROVE  new[j].type \in From(new[i].type, LeadsUnmarked)
  BY <1>2 DEF Linked, new
<1>5. i \in 1..n /\ new[i] = st[i] /\ st[i].type \in DOMAIN graph
  BY <1>1, <1>2
<1>6. \A k \in 1..n : k \in 1..(n + 1) /\ new[k] = st[k]
  BY <1>1, <1>2
<1>7. CASE j \in 1..n
  <2>1. NoMark(st, i, j)
    BY <1>2, <1>6 DEF NoMark
  <2> QED
    BY <1>5, <1>6, <1>7, <2>1 DEF Linked
<1>8. CASE j = n + 1
  <2>1. g.type \in LeadsUnmarked[top.type]
    BY <1>2, <1>8
  <2>2. CASE i = n
    BY <1>1, <1>2, <1>3, <1>5, <1>8, <2>1, <2>2, Reaches
  <2>3. CASE i # n
    <3>1. NoMark(st, i, n)
      <4>1. \A k \in 1..n : k <= n => k <= j
        BY <1>1, <1>8
      <4> QED
        BY <1>2, <1>6, <4>1 DEF NoMark
    <3>2. i < n
      BY <1>1, <1>5, <2>3
    <3>3. top.type \in From(st[i].type, LeadsUnmarked)
      BY <1>1, <1>5, <3>1, <3>2 DEF Linked
    <3> QED
      BY <1>2, <1>4, <1>5, <1>8, <2>1, <3>3
  <2> QED
    BY <2>2, <2>3
<1>9. j \in 1..n \/ j = n + 1
  BY <1>1
<1> QED
  BY <1>7, <1>8, <1>9

LEMMA LinkedPop ==
  ASSUME NEW st \in Seq(Frames), Len(st) > 0, Linked(st)
  PROVE  Linked(Front(st))
<1> DEFINE rest == Front(st)
<1>1. /\ Len(st) \in Nat /\ Len(rest) = Len(st) - 1
      /\ \A i \in 1..(Len(st) - 1) : rest[i] = st[i]
  BY TopAndRest
<1> HIDE DEF rest
<1>2. \A i \in 1..Len(rest) : i \in 1..Len(st) /\ rest[i] = st[i]
  BY <1>1
<1> SUFFICES ASSUME NEW i \in 1..Len(rest), NEW j \in 1..Len(rest), i < j, Passed(rest[j]),
                    NoMark(rest, i, j)
             PROVE  rest[j].type \in From(rest[i].type, LeadsUnmarked)
  BY DEF Linked, rest
<1>3. NoMark(st, i, j)
  <2>1. \A k \in 1..Len(st) : k <= j => k \in 1..Len(rest)
    BY <1>1
  <2> QED
    BY <1>2, <2>1 DEF NoMark
<1> QED
  BY <1>2, <1>3 DEF Linked

\* The step of the walk, seen from the stack it leaves.
LEMMA DepthStays ==
  ASSUME DInv, walk = "walking", graph' = graph, walk' = "walking", Linked(stack')
  PROVE  DInv'
<1>1. LeadsUnmarked' = LeadsUnmarked
  BY DEF LeadsUnmarked, Leads, Flattens, FieldsOf, Walked, Promoted, Kind
<1>2. \A f : Passed(f)' <=> Passed(f)
  BY DEF Passed, Kind
<1>3. Linked(stack)'
  BY <1>1, <1>2 DEF Linked, NoMark, Passed, Kind
<1> QED
  BY <1>3 DEF DInv

LEMMA FromReflectTypeDInv == SInv /\ FromReflectType => DInv'
<1> SUFFICES ASSUME SInv, FromReflectType PROVE DInv'
  OBVIOUS
<1>1. walk' = "walking" /\ Len(stack') = 1 /\ graph' \in Graphs
  BY DEF FromReflectType
<1>2. \A i, j \in 1..Len(stack') : ~(i < j)
  BY <1>1
<1>3. Linked(stack)'
  BY <1>2 DEF Linked
<1> QED
  BY <1>1, <1>3 DEF DInv

\* A field, an element or a pointer of type u: if u is no struct, the call marks none.
LEMMA LeadsOrStruct ==
  ASSUME GraphLegal, NEW t \in DOMAIN graph, NEW u \in Leads[t],
         Kind(u) # "struct" \/ u \in Flattens[t]
  PROVE  u \in LeadsUnmarked[t]
BY DEF LeadsUnmarked

LEMMA ReplaceDInv ==
  ASSUME SInv, VInv, DInv, walk = "walking", graph' = graph, walk' = "walking",
         NEW f \in Frames, stack' = Append(Front(stack), f),
         \/ f.marked
         \/ ~Passed(f)
         \/ /\ Passed(Top) /\ ~Top.marked
            /\ f.type = Top.type \/ f.type \in LeadsUnmarked[Top.type]
  PROVE  DInv'
<1> DEFINE new == Append(Front(stack), f)
<1>1. /\ new \in Seq(Frames) /\ Len(new) = Len(stack) /\ new[Len(stack)] = f
      /\ \A i \in 1..(Len(stack) - 1) : new[i] = stack[i]
  BY WalkingStack, ReplacedTop
<1> HIDE DEF new
<1>2. Linked(stack) /\ Top = stack[Len(stack)]
  BY WalkingStack DEF DInv
<1>3. Linked(new)
  BY <1>1, <1>2, WalkingStack, LinkedReplace
<1> QED
  BY <1>3, DepthStays DEF new

LEMMA DerefDInv == SInv /\ VInv /\ DInv /\ Deref => DInv'
<1> SUFFICES ASSUME SInv, VInv, DInv, Deref PROVE DInv'
  OBVIOUS
<1> DEFINE f == [Top EXCEPT !.type = graph[Top.type].elem]
<1>1. /\ walk = "walking" /\ Top.call = "schemaFor" /\ Kind(Top.type) = "pointer"
      /\ stack' = Append(Front(stack), f)
      /\ graph' = graph /\ walk' = "walking"
  BY DEF Deref, Walks, Replace
<1>2. ~Top.marked
  BY <1>1, WalkingBelow DEF Below
<1>3. /\ f \in Frames /\ f.type = graph[Top.type].elem /\ f.call = "schemaFor"
      /\ f.type \in Leads[Top.type]
  <2>1. graph[Top.type].elem \in DOMAIN graph
    BY <1>1, WalkingStack DEF GraphLegal, LegalType, Kind
  <2>2. Top \in Frames
    BY <1>1, WalkingStack
  <2>3. f \in Frames /\ f.type = graph[Top.type].elem /\ f.call = "schemaFor"
    BY <1>1, <2>1, <2>2 DEF Frames
  <2>4. Leads[Top.type] = {graph[Top.type].elem}
    BY <1>1, WalkingStack, LeadsByKind
  <2> QED
    BY <2>3, <2>4
<1>4. Passed(f) => f.type \in LeadsUnmarked[Top.type]
  BY <1>1, <1>3, WalkingStack, LeadsOrStruct DEF Passed
<1>5. Passed(Top)
  BY <1>1 DEF Passed
<1> HIDE DEF f
<1> QED
  BY <1>1, <1>2, <1>3, <1>4, <1>5, ReplaceDInv

LEMMA EnterStructDInv == SInv /\ VInv /\ DInv /\ EnterStruct => DInv'
<1> SUFFICES ASSUME SInv, VInv, DInv, EnterStruct PROVE DInv'
  OBVIOUS
<1> DEFINE f == [Top EXCEPT !.call = "fields", !.marked = TRUE]
<1>1. /\ walk = "walking" /\ stack' = Append(Front(stack), f)
      /\ graph' = graph /\ walk' = "walking"
  BY DEF EnterStruct, Walks, Replace
<1>2. f \in Frames /\ f.marked
  <2>1. Top \in Frames
    BY <1>1, WalkingStack
  <2> QED
    BY <2>1 DEF Frames
<1> HIDE DEF f
<1> QED
  BY <1>1, <1>2, ReplaceDInv

LEMMA PopDInv ==
  ASSUME SInv, VInv, DInv, walk = "walking", Pop
  PROVE  DInv'
<1>1. /\ stack' = Front(stack) /\ graph' = graph
      /\ walk' = IF Len(stack) = 1 THEN "ok" ELSE "walking"
  BY DEF Pop
<1>2. CASE walk' = "ok"
  BY <1>2 DEF DInv
<1>3. CASE walk' = "walking"
  <2>1. Linked(Front(stack))
    BY WalkingStack, LinkedPop DEF DInv
  <2> QED
    BY <1>1, <1>3, <2>1, DepthStays
<1> QED
  BY <1>1, <1>2, <1>3

LEMMA PushDInv ==
  ASSUME SInv, VInv, DInv, walk = "walking", graph' = graph, walk' = "walking",
         NEW f \in Frames, f.type = Top.type, f.marked = Top.marked,
         Passed(Top), Passed(f),
         NEW g \in Frames, Passed(g) => g.type \in LeadsUnmarked[f.type],
         stack' = Append(Append(Front(stack), f), g)
  PROVE  DInv'
<1> DEFINE mid == Append(Front(stack), f)
<1>1. /\ mid \in Seq(Frames) /\ Len(mid) = Len(stack) /\ mid[Len(stack)] = f
      /\ \A i \in 1..(Len(stack) - 1) : mid[i] = stack[i]
  BY WalkingStack, ReplacedTop
<1> HIDE DEF mid
<1>2. Linked(stack) /\ Top = stack[Len(stack)]
  BY WalkingStack DEF DInv
<1>3. f.marked \/ ~Top.marked
  BY WalkingStack DEF Frames
<1>4. Linked(mid)
  BY <1>1, <1>2, <1>3, WalkingStack, LinkedReplace
<1>5. Len(mid) > 0 /\ mid[Len(mid)] = f
  BY <1>1, WalkingStack
<1>6. Linked(Append(mid, g))
  BY <1>1, <1>4, <1>5, WalkingStack, LinkedPush
<1> QED
  BY <1>6, DepthStays DEF mid

LEMMA ElementDInv == SInv /\ VInv /\ DInv /\ Element => DInv'
<1> SUFFICES ASSUME SInv, VInv, DInv, Element PROVE DInv'
  OBVIOUS
<1> DEFINE f == [Top EXCEPT !.call = "list"]
           g == SchemaFor(graph[Top.type].elem, FALSE)
<1>1. /\ walk = "walking" /\ Top.call = "schemaFor" /\ Kind(Top.type) = "list"
      /\ stack' = Append(Append(Front(stack), f), g)
      /\ graph' = graph /\ walk' = "walking"
  BY DEF Element, Walks
<1>2. Leads[Top.type] = {graph[Top.type].elem} /\ graph[Top.type].elem \in DOMAIN graph
  BY <1>1, WalkingStack, LeadsByKind DEF GraphLegal, LegalType, Kind
<1>3. f \in Frames /\ f.type = Top.type /\ f.marked = Top.marked /\ f.call = "list"
  <2>1. Top \in Frames
    BY <1>1, WalkingStack
  <2> QED
    BY <2>1 DEF Frames
<1>4. g \in Frames /\ g.call = "schemaFor" /\ g.type \in Leads[f.type]
  BY <1>2, <1>3 DEF Frames, SchemaFor
<1>5. Passed(g) => g.type \in LeadsUnmarked[f.type]
  BY <1>1, <1>3, <1>4, WalkingStack, LeadsOrStruct DEF Passed
<1>6. Passed(Top) /\ Passed(f)
  BY <1>1, <1>3 DEF Passed
<1> HIDE DEF f, g
<1> QED
  BY <1>1, <1>3, <1>4, <1>5, <1>6, PushDInv

LEMMA WalkFieldDInv == SInv /\ VInv /\ DInv /\ WalkField => DInv'
<1> SUFFICES ASSUME SInv, VInv, DInv, WalkField PROVE DInv'
  OBVIOUS
<1> DEFINE f == [Top EXCEPT !.next = @ + 1]
           flat == [SchemaFor(Field.type, Top.ofRoot) EXCEPT !.call = "fields"]
           called == SchemaFor(Field.type, FALSE)
<1>1. /\ graph' = graph /\ walk' = "walking" /\ walk = "walking"
      /\ \/ /\ Flattened(Field) /\ Field.tag # "-"
            /\ stack' = Append(Append(Front(stack), f), flat)
         \/ /\ Walked(Field)
            /\ stack' = Append(Append(Front(stack), f), called)
         \/ stack' = Append(Front(stack), f)
  BY FieldAt DEF WalkField, Walks, Walked, Promoted, Flattened
<1>2. Top \in Frames /\ Top.next \in Nat \ {0} /\ Top.ofRoot \in BOOLEAN
      /\ Top.call = "fields" /\ Kind(Top.type) = "struct" /\ Top.type \in DOMAIN graph
  BY <1>1, FieldAt, WalkingStack DEF Frames
<1>3. f \in Frames /\ f.type = Top.type /\ f.call = "fields" /\ f.marked = Top.marked
  BY <1>2 DEF Frames
<1>4. called \in Frames /\ called.call = "schemaFor" /\ called.type = Field.type
  BY FieldAt DEF Frames, SchemaFor
<1>5. flat \in Frames /\ flat.call = "fields" /\ flat.type = Field.type
  <2> DEFINE g == SchemaFor(Field.type, Top.ofRoot)
  <2>1. g \in Frames /\ g.type = Field.type
    BY <1>2, FieldAt DEF Frames, SchemaFor
  <2> HIDE DEF g
  <2>2. /\ [g EXCEPT !.call = "fields"] \in Frames
        /\ [g EXCEPT !.call = "fields"].call = "fields"
        /\ [g EXCEPT !.call = "fields"].type = Field.type
    BY <2>1 DEF Frames
  <2> QED
    BY <2>2 DEF g
<1>6. Walked(Field) => Field.type \in Leads[Top.type]
  <2>1. Leads[Top.type] = {h.type : h \in {k \in FieldsOf(Top.type) : Walked(k)}}
    BY <1>1, <1>2, WalkingStack, LeadsByKind
  <2> QED
    BY <2>1, FieldAt
<1>7. Flattened(Field) /\ Field.tag # "-" => Walked(Field) /\ Field.type \in Flattens[Top.type]
  BY <1>2, FieldAt DEF Flattens, Flattened, Promoted, Walked
<1>8. Passed(Top) /\ Passed(f)
  BY <1>2, <1>3 DEF Passed
<1> HIDE DEF f, flat, called
<1>9. CASE stack' = Append(Front(stack), f)
  <2>1. f.marked \/ ~Top.marked
    BY <1>2, <1>3 DEF Frames
  <2> QED
    BY <1>1, <1>3, <1>8, <1>9, <2>1, ReplaceDInv
<1>10. CASE Walked(Field) /\ stack' = Append(Append(Front(stack), f), called)
  <2>1. Passed(called) => called.type \in LeadsUnmarked[f.type]
    BY <1>1, <1>3, <1>4, <1>6, <1>10, WalkingStack, LeadsOrStruct DEF Passed
  <2> QED
    BY <1>1, <1>3, <1>4, <1>8, <1>10, <2>1, PushDInv
<1>11. CASE /\ Flattened(Field) /\ Field.tag # "-"
            /\ stack' = Append(Append(Front(stack), f), flat)
  <2>1. flat.type \in LeadsUnmarked[f.type]
    BY <1>1, <1>3, <1>5, <1>6, <1>7, <1>11, WalkingStack, LeadsOrStruct
  <2> QED
    BY <1>1, <1>3, <1>5, <1>8, <1>11, <2>1, PushDInv
<1> QED
  BY <1>1, <1>9, <1>10, <1>11

--------------------------------------------------------------------------------
(* How deep a walk can be.                                                 *)

\* The last of the marked frames up to i.
LastMark(st, i, m) == m \in 1..i /\ st[m].marked /\ NoMark(st, m, i)

LEMMA LastMarkExists ==
  ASSUME NEW st \in Seq(Frames), NEW i \in 1..Len(st), ~NoMark(st, 0, i)
  PROVE  \E m \in 1..i : LastMark(st, i, m)
<1> DEFINE I == {i - k : k \in {k \in 1..i : st[k].marked}}
<1>1. i \in Nat /\ i <= Len(st) /\ \A k \in 1..i : i - k \in Nat
  OBVIOUS
<1>2. I \in SUBSET Nat
  BY <1>1
<1>3. I # {}
  <2>1. PICK k \in 1..Len(st) : k <= i /\ st[k].marked
    BY DEF NoMark
  <2>2. k \in 1..i
    BY <1>1, <2>1
  <2> QED
    BY <2>1, <2>2
<1>4. PICK x \in I : \A y \in I : ~ (<<y, x>> \in OpToRel(<, Nat))
  <2> HIDE DEF I
  <2> QED
    BY <1>2, <1>3, NatLessThanWellFounded, WFMin, Zenon
<1>5. PICK m \in 1..i : st[m].marked /\ x = i - m
  OBVIOUS
<1>6. NoMark(st, m, i)
  <2> SUFFICES ASSUME NEW k \in 1..Len(st), m < k, k <= i, st[k].marked PROVE FALSE
    BY DEF NoMark
  <2>1. k \in 1..i /\ i - k \in I
    BY <1>1
  <2>2. i - k \in Nat /\ x \in Nat /\ i - k < x
    BY <1>1, <1>5, <2>1
  <2>3. <<i - k, x>> \in Nat \X Nat /\ <<i - k, x>>[1] < <<i - k, x>>[2]
    BY <2>2
  <2>4. <<i - k, x>> \in OpToRel(<, Nat)
    BY <2>3 DEF OpToRel
  <2> QED
    BY <1>4, <2>1, <2>4
<1> QED
  BY <1>5, <1>6 DEF LastMark

\* Two frames of one type, above the same last mark or both below the first: the
\* type leads back to itself past no struct but flattened ones.
LEMMA RepeatIsUnguarded ==
  ASSUME SInv, VInv, DInv, walk = "walking",
         NEW i \in 1..Len(stack), NEW j \in 1..Len(stack), i < j, j < Len(stack),
         stack[i].type = stack[j].type,
         \/ NoMark(stack, 0, j)
         \/ \E m, n \in 1..Len(stack) :
              /\ LastMark(stack, i, m) /\ LastMark(stack, j, n)
              /\ stack[m].type = stack[n].type
  PROVE  Unguarded
<1>1. NoMark(stack, i, j)
  <2>1. CASE NoMark(stack, 0, j)
    BY <2>1 DEF NoMark
  <2>2. ASSUME NEW m \in 1..Len(stack), NEW n \in 1..Len(stack),
               LastMark(stack, i, m), LastMark(stack, j, n), stack[m].type = stack[n].type
        PROVE  NoMark(stack, i, j)
    <3>1. m = n
      BY <2>2 DEF SInv, Marks, LastMark
    <3>2. n <= i
      BY <2>2, <3>1 DEF LastMark
    <3> QED
      BY <2>2, <3>2 DEF LastMark, NoMark
  <2> QED
    BY <2>1, <2>2
<1>2. stack[j].call # "schemaFor" /\ stack[j].type \in Reached
  <2>1. j \in 1..(Len(stack) - 1)
    BY WalkingStack
  <2> QED
    BY <2>1, WalkingStack DEF Chain
<1>3. stack[j].type \in From(stack[j].type, LeadsUnmarked)
  BY <1>1, <1>2 DEF DInv, Linked, Passed
<1> QED
  BY <1>2, <1>3 DEF Unguarded

LEMMA DepthBound ==
  ASSUME SInv, VInv, DInv, walk = "walking", IsFiniteSet(DOMAIN graph), ~Unguarded
  PROVE  Len(stack) <= Deepest(graph)
<1> DEFINE D == DOMAIN graph
           n == Cardinality(D)
           top == Len(stack)
<1>1. n \in Nat /\ top \in Nat \ {0} /\ \A i \in 1..top : stack[i].type \in D
  <2>1. n \in Nat
    BY FS_CardinalityType
  <2>2. top \in Nat \ {0} /\ \A i \in 1..top : stack[i] \in Frames
    BY WalkingStack
  <2> QED
    BY <2>1, <2>2 DEF Frames
<1>2. PICK number : number \in Injection(D, 1..n)
  <2>1. ExistsBijection(D, 1..n)
    BY FS_CardinalityType, Fun_ExistsBijSymmetric
  <2> QED
    BY <2>1 DEF ExistsBijection, Bijection
<1>3. number \in [D -> 1..n] /\ \A s, t \in D : number[s] = number[t] => s = t
  BY <1>2 DEF Injection, IsInjective
<1> SUFFICES ASSUME top > 1 + (n + 1) * n PROVE FALSE
  <2>1. (n + 1) * n \in Nat
    BY <1>1
  <2> QED
    BY <1>1, <2>1 DEF Deepest
<1> DEFINE mark(i) == CHOOSE m \in 1..i : LastMark(stack, i, m)
           at == [i \in 1..(top - 1) |->
                    <<IF NoMark(stack, 0, i) THEN 0 ELSE number[stack[mark(i)].type],
                      stack[i].type>>]
           S == 1..(top - 1)
           T == (0..n) \X D
<1>4. ASSUME NEW i \in S, ~NoMark(stack, 0, i)
      PROVE  LastMark(stack, i, mark(i)) /\ mark(i) \in 1..top
  <2>1. i \in 1..top /\ \A m \in 1..i : m \in 1..top
    BY <1>1
  <2>2. \E m \in 1..i : LastMark(stack, i, m)
    BY <1>4, <2>1, LastMarkExists, WalkingStack
  <2> QED
    BY <2>1, <2>2
<1> HIDE DEF mark
<1>5. \A i \in S : at[i] \in T
  <2> SUFFICES ASSUME NEW i \in S PROVE at[i] \in T
    OBVIOUS
  <2>1. stack[i].type \in D
    BY <1>1
  <2>2. ~NoMark(stack, 0, i) => number[stack[mark(i)].type] \in 1..n
    BY <1>1, <1>3, <1>4
  <2> QED
    BY <1>1, <2>1, <2>2
<1>6. IsFiniteSet(S) /\ Cardinality(S) = top - 1
  <2> DEFINE m == top - 1
  <2>1. m \in Int /\ 0 <= m
    BY <1>1
  <2> HIDE DEF m
  <2>2. IsFiniteSet(1..m) /\ Cardinality(1..m) = IF 1 > m THEN 0 ELSE m - 1 + 1
    BY <2>1, FS_Interval
  <2>3. Cardinality(1..m) = m
    BY <2>1, <2>2
  <2> QED
    BY <2>2, <2>3 DEF m
<1>7. IsFiniteSet(T) /\ Cardinality(T) = (n + 1) * n
  <2>1. IsFiniteSet(0..n) /\ Cardinality(0..n) = n + 1
    BY <1>1, FS_Interval
  <2> QED
    BY <2>1, FS_Product
<1>8. Cardinality(T) < Cardinality(S)
  <2>1. (n + 1) * n \in Nat
    BY <1>1
  <2> QED
    BY <1>1, <1>6, <1>7, <2>1
<1>9. at \in [S -> T]
  BY <1>5
<1> HIDE DEF at, S, T
<1>10. PICK x, y \in S : x # y /\ at[x] = at[y]
  BY <1>6, <1>7, <1>8, <1>9, FS_PigeonHole
<1>11. PICK i, j \in S : i < j /\ at[i] = at[j]
  <2>1. x < y \/ y < x
    BY <1>1, <1>10 DEF S
  <2> QED
    BY <1>10, <2>1
<1>12. i \in 1..top /\ j \in 1..top /\ j < top
  BY <1>1 DEF S
<1>13. stack[i].type = stack[j].type
  BY <1>11 DEF at, S
<1>14. \/ NoMark(stack, 0, j)
       \/ \E l, m \in 1..top : /\ LastMark(stack, i, l) /\ LastMark(stack, j, m)
                               /\ stack[l].type = stack[m].type
  <2> SUFFICES ASSUME ~NoMark(stack, 0, j)
               PROVE  \E l, m \in 1..top : /\ LastMark(stack, i, l) /\ LastMark(stack, j, m)
                                           /\ stack[l].type = stack[m].type
    OBVIOUS
  <2>1. LastMark(stack, j, mark(j)) /\ mark(j) \in 1..top
    BY <1>4
  <2>2. number[stack[mark(j)].type] \in 1..n
    BY <1>1, <1>3, <2>1
  <2>3. at[j][1] = number[stack[mark(j)].type]
    BY DEF at, S
  <2>4. ~NoMark(stack, 0, i)
    <3>1. at[i][1] # 0
      BY <1>1, <1>11, <2>2, <2>3
    <3> QED
      BY <3>1 DEF at, S
  <2>5. LastMark(stack, i, mark(i)) /\ mark(i) \in 1..top
    BY <1>4, <2>4
  <2>6. at[i][1] = number[stack[mark(i)].type]
    BY <2>4 DEF at, S
  <2>7. stack[mark(i)].type = stack[mark(j)].type
    BY <1>1, <1>3, <1>11, <2>1, <2>3, <2>5, <2>6
  <2> QED
    BY <2>1, <2>5, <2>7
<1>15. Unguarded
  BY <1>11, <1>12, <1>13, <1>14, RepeatIsUnguarded
<1> QED
  BY <1>15

LEMMA OverflowDInv == SInv /\ VInv /\ DInv /\ Overflow => DInv'
<1> SUFFICES ASSUME SInv, VInv, DInv, Overflow, Roomy PROVE Unguarded'
  BY DEF DInv, Overflow, Roomy
<1>1. /\ walk = "walking" /\ Len(stack) >= MaxDepth
      /\ graph' = graph /\ root' = root
  BY DEF Overflow
<1>2. IsFiniteSet(DOMAIN graph) /\ Deepest(graph) < MaxDepth /\ MaxDepth \in Nat
  BY <1>1 DEF DInv, Roomy
<1>3. Deepest(graph) \in Nat
  <2>1. Cardinality(DOMAIN graph) \in Nat
    BY <1>2, FS_CardinalityType
  <2> QED
    BY <2>1 DEF Deepest
<1>4. ~(Len(stack) <= Deepest(graph))
  BY <1>1, <1>2, <1>3, WalkingStack
<1>5. Unguarded
  BY <1>1, <1>2, <1>4, DepthBound
<1> QED
  BY <1>1, <1>5 DEF Unguarded, Reached, LeadsUnmarked, Leads, Flattens, FieldsOf, Walked,
       Promoted, Kind

LEMMA SchemaNextDInv == SInv /\ VInv /\ DInv /\ [SchemaNext]_schemaVars => DInv'
<1> SUFFICES ASSUME SInv, VInv, DInv, [SchemaNext]_schemaVars PROVE DInv'
  OBVIOUS
<1>1. CASE Fails
  BY <1>1 DEF DInv, Fails
<1>2. CASE UNCHANGED schemaVars
  <2>1. graph' = graph /\ root' = root /\ stack' = stack /\ walk' = walk
    BY <1>2 DEF schemaVars
  <2>2. LeadsUnmarked' = LeadsUnmarked /\ Leads' = Leads
    BY <2>1 DEF LeadsUnmarked, Leads, Flattens, FieldsOf, Walked, Promoted, Kind
  <2>3. Unguarded' <=> Unguarded
    BY <2>1, <2>2 DEF Unguarded, Reached
  <2>4. CASE walk = "walking"
    BY <2>1, <2>4, DepthStays DEF DInv
  <2>5. CASE walk # "walking"
    BY <2>1, <2>3, <2>5 DEF DInv, Roomy
  <2> QED
    BY <2>4, <2>5
<1>3. CASE Leaf \/ EndList \/ EndStruct
  BY <1>3, PopDInv DEF Leaf, EndList, EndStruct, Walks
<1> QED
  BY <1>1, <1>2, <1>3, FromReflectTypeDInv, DerefDInv, EnterStructDInv, ElementDInv,
     WalkFieldDInv, OverflowDInv DEF SchemaNext, Step

--------------------------------------------------------------------------------
LEMMA WalksAreLinked == SchemaSpec => [](SInv /\ VInv /\ DInv)
<1>1. SchemaInit => SInv /\ VInv /\ DInv
  BY DEF SchemaInit, SInv, VInv, DInv
<1>2. SInv /\ VInv /\ DInv /\ [SchemaNext]_schemaVars => (SInv /\ VInv /\ DInv)'
  BY SchemaNextSInv, SchemaNextVInv, SchemaNextDInv
<1> QED
  BY <1>1, <1>2, PTL DEF SchemaSpec

\* For type graphs of any size: unless the type leads back to itself past no struct
\* but flattened ones, the calls of schemaFor and addStructFields nest no deeper
\* than the square of the number of types, whatever the order of the fields.
THEOREM StackIsBounded ==
  SchemaSpec =>
    [](walk = "walking" /\ ~Unguarded /\ IsFiniteSet(DOMAIN graph) =>
         Len(stack) <= Deepest(graph))
<1>1. SInv /\ VInv /\ DInv =>
        (walk = "walking" /\ ~Unguarded /\ IsFiniteSet(DOMAIN graph) =>
           Len(stack) <= Deepest(graph))
  BY DepthBound
<1> QED
  BY <1>1, WalksAreLinked, PTL

\* With that much room, the walk runs out of stack only on such a type: what WalkEnds
\* promises the other types never fails by an overflow.
THEOREM OnlyUnguardedOverflows ==
  ASSUME Roomy
  PROVE  SchemaSpec => [](walk = "crashed" => Unguarded)
<1>1. SInv /\ VInv /\ DInv => (walk = "crashed" => Unguarded)
  BY Roomy DEF DInv
<1> QED
  BY <1>1, WalksAreLinked, PTL
================================================================================
