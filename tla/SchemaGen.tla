------------------------------- MODULE SchemaGen -------------------------------
(***************************************************************************)
(* jsonschema.FromReflectType: the walk over a Go type, with its call      *)
(* stack. A type graph gives every type its kind, its element and its      *)
(* fields; "leaf" is any type that gets a schema without a further walk (a *)
(* scalar, an interface, time.Time, json.RawMessage, []byte, a Marshaler), *)
(* "list" a slice, an array or a map with string keys. A field of struct   *)
(* type may hold a pointer to it: the walk sees no difference.             *)
(***************************************************************************)
EXTENDS Naturals, Sequences, SequencesExt, Functions

CONSTANTS
  Graphs,     \* type graphs: [types -> [kind, elem, fields]]
  Roots,      \* types a schema is asked for
  MaxDepth    \* bound: frames at which the goroutine's stack overflows

\* Types are made of types of the graph; only structs have fields.
LegalType(g, t) ==
  LET fields == g[t].fields IN
    /\ g[t].kind \in {"pointer", "list", "leaf", "struct", "unsupported"}
    /\ g[t].kind \in {"pointer", "list"} => g[t].elem \in DOMAIN g
    /\ Len(fields) \in Nat /\ DOMAIN fields = 1..Len(fields)
    /\ g[t].kind # "struct" => Len(fields) = 0
    /\ \A i \in DOMAIN fields :
         fields[i].type \in DOMAIN g /\ fields[i].tag \in {"none", "string", "-"}

ASSUME GraphAssumption ==
  \A g \in Graphs : Roots \subseteq DOMAIN g /\ \A t \in DOMAIN g : LegalType(g, t)

VARIABLES
  graph, root,
  stack,      \* the calls of schemaFor and addStructFields in progress
  visiting,
  props,      \* properties of the root object: the type of each
  required,   \* its required names
  walk        \* idle, walking, ok, error, crashed

schemaVars == <<graph, root, stack, visiting, props, required, walk>>

SchemaInit ==
  /\ graph = <<>> /\ root = "none" /\ stack = <<>> /\ visiting = {}
  /\ props = <<>> /\ required = <<>> /\ walk = "idle"

Kind(t) == graph[t].kind
Top == Last(stack)

SchemaFor(t, ofRoot) == [call |-> "schemaFor", type |-> t, next |-> 1, marked |-> FALSE,
                         ofRoot |-> ofRoot]

Replace(frame) == stack' = Append(Front(stack), frame)

FromReflectType ==
  /\ walk = "idle" /\ walk' = "walking"
  /\ graph' \in Graphs /\ root' \in Roots
  /\ stack' = <<SchemaFor(root', TRUE)>>
  /\ UNCHANGED <<visiting, props, required>>

\* A step of the walk, of the call on top of the stack.
Walks(call) == walk = "walking" /\ Len(stack) < MaxDepth /\ Top.call = call

Deref ==
  /\ Walks("schemaFor") /\ Kind(Top.type) = "pointer"
  /\ Replace([Top EXCEPT !.type = graph[Top.type].elem])
  /\ UNCHANGED <<graph, root, visiting, props, required, walk>>

Pop ==
  /\ stack' = Front(stack)
  /\ walk' = IF Len(stack) = 1 THEN "ok" ELSE "walking"
  /\ UNCHANGED <<graph, root, props, required>>

Leaf == Walks("schemaFor") /\ Kind(Top.type) = "leaf" /\ Pop /\ UNCHANGED visiting

NeverVisited == FALSE   \* mutant: no check for recursion

Visited == Top.type \in visiting

\* Slices, arrays and maps recurse into their element, with nothing marked.
Element ==
  /\ Walks("schemaFor") /\ Kind(Top.type) = "list"
  /\ stack' = Append(Append(Front(stack), [Top EXCEPT !.call = "list"]),
                     SchemaFor(graph[Top.type].elem, FALSE))
  /\ UNCHANGED <<graph, root, visiting, props, required, walk>>

EndList == Walks("list") /\ Pop /\ UNCHANGED visiting

Fails ==
  /\ Walks("schemaFor")
  /\ Kind(Top.type) = "unsupported" \/ (Kind(Top.type) = "struct" /\ Visited)
  /\ walk' = "error" /\ stack' = <<>> /\ visiting' = {}
  /\ UNCHANGED <<graph, root, props, required>>

EnterStruct ==
  /\ Walks("schemaFor") /\ Kind(Top.type) = "struct" /\ ~Visited
  /\ visiting' = visiting \cup {Top.type}
  /\ Replace([Top EXCEPT !.call = "fields", !.marked = TRUE])
  /\ UNCHANGED <<graph, root, props, required, walk>>

Field == graph[Top.type].fields[Top.next]

\* Mutant: an unexported embedded struct is passed over.
FlattenedExported(f) == f.embedded /\ f.exported /\ Kind(f.type) = "struct"

Flattened(f) == f.embedded /\ Kind(f.type) = "struct"

\* properties[name] = prop: a later field of one name replaces an earlier one.
\* Only the root's are kept here; flattened fields are the root's too.
Add(f) ==
  IF Top.ofRoot
  THEN /\ props' = [n \in DOMAIN props \cup {f.name} |-> IF n = f.name THEN f.type ELSE props[n]]
       /\ required' = IF f.optional THEN required ELSE Append(required, f.name)
  ELSE UNCHANGED <<props, required>>

\* One round of addStructFields' loop, up to the call it makes, if any.
WalkField ==
  /\ Walks("fields") /\ Top.next <= Len(graph[Top.type].fields)
  /\ LET rest == Append(Front(stack), [Top EXCEPT !.next = @ + 1]) IN
       \/ /\ Field.tag # "-" /\ Flattened(Field)
          /\ stack' = Append(rest, [SchemaFor(Field.type, Top.ofRoot) EXCEPT !.call = "fields"])
          /\ UNCHANGED <<props, required>>
       \/ /\ Field.tag = "-" \/ (~Flattened(Field) /\ ~Field.exported)
          /\ stack' = rest
          /\ UNCHANGED <<props, required>>
       \/ /\ Field.tag # "-" /\ ~Flattened(Field) /\ Field.exported
          /\ stack' = IF Field.tag = "string" THEN rest
                      ELSE Append(rest, SchemaFor(Field.type, FALSE))
          /\ Add(Field)
  /\ UNCHANGED <<graph, root, visiting, walk>>

Unmark == visiting   \* mutant: no delete
UnmarkAll == {}      \* mutant: the set is emptied

Unmarked == IF Top.marked THEN visiting \ {Top.type} ELSE visiting

\* The deferred delete runs when schemaFor returns, not when a flattened struct
\* has been walked.
EndStruct ==
  /\ Walks("fields") /\ Top.next > Len(graph[Top.type].fields)
  /\ Pop
  /\ visiting' = Unmarked

\* "goroutine stack exceeds 1000000000-byte limit": the process dies.
Overflow ==
  /\ walk = "walking" /\ Len(stack) >= MaxDepth
  /\ walk' = "crashed" /\ stack' = <<>>
  /\ UNCHANGED <<graph, root, visiting, props, required>>

Step == \/ Deref \/ Leaf \/ Element \/ EndList \/ Fails \/ EnterStruct \/ WalkField
        \/ EndStruct \/ Overflow

SchemaNext == FromReflectType \/ Step

\* The walk is sequential code.
SchemaSpec == SchemaInit /\ [][SchemaNext]_schemaVars /\ WF_schemaVars(Step)

--------------------------------------------------------------------------------
(* Properties, with the type graph as a relation.                          *)

\* encoding/json promotes the fields of an embedded struct, exported or not.
Promoted(f) == f.embedded /\ Kind(f.type) = "struct"
Walked(f) == (f.tag # "-" /\ Promoted(f)) \/ (f.tag = "none" /\ f.exported)
FieldsOf(t) == Range(graph[t].fields)

\* The structs that each type is flattened with.
Flattens ==
  [t \in DOMAIN graph |-> {f.type : f \in {g \in FieldsOf(t) : g.tag # "-" /\ Promoted(g)}}]

\* The types that the walk comes to from each type,
Leads ==
  [t \in DOMAIN graph |->
     {f.type : f \in {g \in FieldsOf(t) : Walked(g)}}
     \cup IF Kind(t) \in {"pointer", "list"} THEN {graph[t].elem} ELSE {}]

\* ... and those it comes to by a call that marks no struct.
LeadsUnmarked ==
  [t \in DOMAIN graph |-> {u \in Leads[t] : Kind(u) # "struct" \/ u \in Flattens[t]}]

\* The types to which steps of next lead from t, in one step or more: they are in
\* every set that the steps from t and from its own members stay in.
From(t, next) ==
  {u \in DOMAIN next :
     \A S \in SUBSET DOMAIN next : (\A s \in S \cup {t} : next[s] \subseteq S) => u \in S}

Reached == {root} \cup From(root, Leads)
Recursive == \E t \in Reached : t \in From(t, Leads)
Unguarded == \E t \in Reached : t \in From(t, LeadsUnmarked)

\* The structs marked as being visited are those of the calls of schemaFor still in
\* progress, each marked once, at every moment of the walk: the deferred deletes
\* of nested calls undo the marks in the order the calls return.
VisitingIsOpen ==
  walk = "walking" =>
    LET open == {i \in DOMAIN stack : stack[i].marked} IN
      /\ visiting = {stack[i].type : i \in open}
      /\ IsInjective([i \in open |-> stack[i].type])

Ended == walk \in {"ok", "error"}

\* A walk that ends rejects the types that lead back to themselves, or to one
\* that no schema can describe, and no others: a struct that is met twice, not
\* within itself, is no recursion.
VerdictExact ==
  Ended => (walk = "error" <=>
              Recursive \/ \E t \in Reached : Kind(t) = "unsupported")

\* The fields that encoding/json chooses from for the root, its own and the
\* promoted ones, and where they stand: the fields of two structs may be alike.
Structs == {root} \cup From(root, Flattens)
Emits(f) == f.exported /\ f.tag # "-" /\ ~Promoted(f)
Candidates == {f \in UNION {FieldsOf(t) : t \in Structs} : Emits(f)}

At(p) == graph[p[1]].fields[p[2]]
FieldPlaces == UNION {{<<t, i>> : i \in DOMAIN graph[t].fields} : t \in Structs}
CandidatePlaces == {p \in FieldPlaces : Emits(At(p))}

\* The structs that are flattened into the root within k steps.
Within[k \in Nat] ==
  IF k = 0 THEN {root}
  ELSE LET W == Within[k - 1] IN W \cup UNION {Flattens[t] : t \in W}

Shallower(t, u) == \E k \in 0..Cardinality(DOMAIN graph) : t \in Within[k] /\ u \notin Within[k]

\* Is t flattened more than once at the least depth at which it is?
Doubled(t) ==
  LET embeds == {p \in FieldPlaces : At(p).tag # "-" /\ Promoted(At(p)) /\ At(p).type = t}
      first == {p \in embeds : \A q \in embeds : ~Shallower(q[1], p[1])}
  IN Cardinality(first) > 1

\* Of the fields of one name encoding/json emits the shallowest; if there are
\* several of the least depth, it emits none of them (a tag that decides between
\* these is left out).
Emitted ==
  {p \in CandidatePlaces :
     /\ ~Doubled(p[1])
     /\ \A q \in CandidatePlaces \ {p} : At(q).name = At(p).name => Shallower(p[1], q[1])}

Clashes(p) == Doubled(p[1]) \/ \E q \in CandidatePlaces \ {p} : At(q).name = At(p).name

\* The root object has a property for each field that encoding/json emits, required
\* if the field is. A field whose name no other has is described exactly: its type
\* is the property's, it is required if and only if it has no omitempty. Where
\* names clash the schema says more than encoding/json does: it has properties for
\* fields that are not emitted, and requires a name if any of its fields is.
RootHasItsFields ==
  walk = "ok" /\ Kind(root) = "struct" =>
    /\ \A p \in Emitted :
         /\ At(p).name \in DOMAIN props
         /\ At(p).name \in Range(required) \/ At(p).optional
         /\ ~Clashes(p) => /\ props[At(p).name] = At(p).type
                           /\ At(p).name \in Range(required) => ~At(p).optional
    /\ \A n \in DOMAIN props \cup Range(required) :
         \E p \in CandidatePlaces : At(p).name = n /\ (p \in Emitted \/ Clashes(p))

\* Recursion is noticed at structs, so a walk ends, without running out of
\* stack, unless the type leads back to itself past no struct but flattened ones.
WalkEnds == (walk = "walking" /\ ~Unguarded) ~> Ended

\* generate.go:6 "recursive types are rejected", README.md:179 "recursive types
\* return an error instead of looping".
RecursionIsRefused == walk # "crashed"

\* README.md:170 "Follows encoding/json semantics": where a struct and one that is
\* embedded in it have a field of one name, the outer struct's is the one emitted.
OuterFieldWins ==
  walk = "ok" /\ Kind(root) = "struct" =>
    \A f \in FieldsOf(root) :
      \/ ~f.exported \/ f.tag # "none" \/ Promoted(f)
      \/ \E g \in FieldsOf(root) \ {f} : g.name = f.name
      \/ props[f.name] = f.type
================================================================================
