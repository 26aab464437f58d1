-------------------------------- MODULE UnionOf --------------------------------
(***************************************************************************)
(* jsonschema.UnionOf: the properties of several structs merged into one   *)
(* object schema. A variant has props, the map from names to properties    *)
(* that FromReflectType makes of the value, and is ok unless the value has *)
(* no such schema (an untyped nil, no struct, a type that is refused). A   *)
(* property has a type, the values of its enum and the parts of its        *)
(* description, both <<>> when it has none, and the rest of its schema,    *)
(* nested: the properties, required and items of an object or an array.    *)
(***************************************************************************)
EXTENDS Naturals, Sequences, SequencesExt, Functions

CONSTANT VariantLists   \* the arguments of a call

IsProperty(p) ==
  /\ {"type", "enum", "description", "nested"} \subseteq DOMAIN p
  /\ p.enum \in Seq(Range(p.enum)) /\ p.description \in Seq(Range(p.description))

ASSUME VariantAssumption ==
  \A vs \in VariantLists :
    /\ vs \in Seq(Range(vs))
    /\ \A i \in DOMAIN vs :
         /\ vs[i].ok \in BOOLEAN
         /\ \A n \in DOMAIN vs[i].props : IsProperty(vs[i].props[n])

VARIABLES
  variants,   \* of the call
  at,         \* the variant whose properties are being merged
  names,      \* those of its properties still to merge: a Go map, in any order
  merged,
  union       \* idle, merging, ok, error

unionVars == <<variants, at, names, merged, union>>

UnionInit ==
  variants = <<>> /\ at = 0 /\ names = {} /\ merged = <<>> /\ union = "idle"

UnionCall ==
  /\ union = "idle"
  /\ variants' \in VariantLists
  /\ union' = IF variants' = <<>> THEN "error" ELSE "merging"
  /\ UNCHANGED <<at, names, merged>>

NextVariant ==
  /\ union = "merging" /\ names = {} /\ at < Len(variants)
  /\ at' = at + 1
  /\ IF variants[at'].ok
     THEN names' = DOMAIN variants[at'].props /\ UNCHANGED union
     ELSE union' = "error" /\ UNCHANGED names
  /\ UNCHANGED <<variants, merged>>

LaterEnum(existing, prop) == prop.enum   \* mutant: the later enum replaces

\* The values of prop's enum that are not there yet go to the end.
UnitedEnum(existing, prop) ==
  LET united[n \in 0..Len(prop.enum)] ==
        IF n = 0 THEN existing.enum
        ELSE IF prop.enum[n] \in Range(united[n - 1]) THEN united[n - 1]
        ELSE Append(united[n - 1], prop.enum[n])
  IN united[Len(prop.enum)]

JoinedDescription(existing, prop) ==
  IF prop.description = existing.description THEN existing.description
  ELSE existing.description \o prop.description

\* The rest of what existing has, its nested schema too, stays as it is.
FoldedProperty(existing, prop) ==
  [existing EXCEPT !.enum = UnitedEnum(existing, prop),
                   !.description = JoinedDescription(existing, prop)]

\* Mutant: a property with no type agrees with every other.
ConflictIfTyped(existing, prop) ==
  existing.type # "any" /\ prop.type # "any" /\ existing.type # prop.type

Conflict(existing, prop) == existing.type # prop.type

MergeProperty ==
  /\ union = "merging"
  /\ \E n \in names :
       LET prop == variants[at].props[n]
           known == n \in DOMAIN merged
           folded == IF known
                     THEN FoldedProperty(merged[n], prop)
                     ELSE prop
       IN IF known /\ Conflict(merged[n], prop)
          THEN union' = "error" /\ UNCHANGED <<names, merged>>
          ELSE /\ merged' = [m \in DOMAIN merged \cup {n} |->
                               IF m = n THEN folded ELSE merged[m]]
               /\ names' = names \ {n}
               /\ UNCHANGED union
  /\ UNCHANGED <<variants, at>>

UnionDone ==
  /\ union = "merging" /\ names = {} /\ at = Len(variants)
  /\ union' = "ok"
  /\ UNCHANGED <<variants, at, names, merged>>

UnionNext == UnionCall \/ NextVariant \/ MergeProperty \/ UnionDone

UnionSpec == UnionInit /\ [][UnionNext]_unionVars

--------------------------------------------------------------------------------
Props(i) == variants[i].props
Having(n) == {i \in DOMAIN variants : n \in DOMAIN Props(i)}

\* Whatever the order in which Go's maps hand out the names: the call fails just
\* when a variant has no object schema or two of them disagree on a field's type,
\* be they neighbours or not.
UnionVerdict ==
  union \in {"ok", "error"} =>
    (union = "error" <=>
       \/ variants = <<>> \/ \E i \in DOMAIN variants : ~variants[i].ok
       \/ \E n \in UNION {DOMAIN Props(i) : i \in DOMAIN variants} :
            \E i, j \in Having(n) : Props(i)[n].type # Props(j)[n].type)

\* The enums of field n, by variant. One value is seen before another when the walk
\* over them meets it first: in an earlier variant, or earlier in the same tag.
Enums(n) == [i \in Having(n) |-> Props(i)[n].enum]
SeenBefore(enums, x, y) ==
  \E i \in DOMAIN enums : \E a \in DOMAIN enums[i] :
    /\ enums[i][a] = x
    /\ \A j \in DOMAIN enums : \A b \in DOMAIN enums[j] :
         enums[j][b] = y => i < j \/ (i = j /\ a < b)

\* union.go:15-17: the merged field has the type that all its variants have, the
\* values of all their enums and no others, in the order in which they are first
\* seen (so none twice, unless one tag repeats it), and every variant's description.
\* Of the nested schema it has the first variant's alone: a later one's properties,
\* required and items are dropped though the call succeeds. And a variant without
\* an enum is narrowed to the values of the others'.
MergedField ==
  union = "ok" =>
    \A n \in UNION {DOMAIN Props(i) : i \in DOMAIN variants} :
      LET q == merged[n] IN
        /\ Range(q.enum) = UNION {Range(e) : e \in Range(Enums(n))}
        /\ (\A e \in Range(Enums(n)) : IsInjective(e)) =>
             \A k, l \in DOMAIN q.enum : k < l => SeenBefore(Enums(n), q.enum[k], q.enum[l])
        /\ \A i \in Having(n) :
             /\ q.type = Props(i)[n].type
             /\ Range(Props(i)[n].description) \subseteq Range(q.description)
             /\ (\A j \in Having(n) : i <= j) => q.nested = Props(i)[n].nested
================================================================================
