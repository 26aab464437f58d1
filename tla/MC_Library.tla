------------------------------ MODULE MC_Library ------------------------------
(***************************************************************************)
(* Small instances of the packages that work beside a CLI run: terminal,   *)
(* the installers, prompt and jsonschema. They share no state; a behaviour *)
(* is one of the part it chose at the start.                               *)
(***************************************************************************)
EXTENDS Terminal, Installer, PromptRender, SchemaGen, UnionOf, TLC

CONSTANT Parts    \* the parts that take a turn

VARIABLE part

vars == <<part, termVars, installVars, promptVars, schemaVars, unionVars>>

--------------------------------------------------------------------------------
(* The terminal: what its keys are, by what it speaks.                     *)

MCKeysOf ==
  "legacy" :> {"a", "enter", "backspace", "tab", "ctrl+c", "ctrl+d", "escape", "arrow"} @@
  "kitty"  :> {"a", "u", "enter", "backspace", "shift+enter", "paste", "escape"} @@
  "xterm"  :> {"a", "shift+enter", "backspace", "arrow"} @@
  "pipe"   :> {"a", "enter", "crlf"}

ASSUME KeysAssumption == Decodable(MCKeysOf)

\* The extensions are on and report ctrl+c as a sequence.
MCInterrupt == "kitty" :> {"a", "ctrl+c"} @@ "xterm" :> {"a", "ctrl+c"}

--------------------------------------------------------------------------------
(* The installers: two calls for claude and one for codex.                 *)

MCInstalls == 1..3
MCBinOf == <<"claude", "codex", "claude">>
MCDefaultDirs == {"claude" :> "home" @@ "codex" :> d : d \in {"opt", "NoDir"}}
MCPaths == {<<>>, <<"usr", "home">>, <<"usr", "opt">>, <<"home", "usr">>}

Bare == [d \in {"usr", "home", "opt"} |-> [b \in {"claude", "codex"} |-> "none"]]
MCDisks ==
  {Bare,
   [Bare EXCEPT !["usr"]["claude"] = "executable", !["home"]["claude"] = "plain"],
   [Bare EXCEPT !["opt"]["codex"] = "executable", !["opt"]["claude"] = "executable"]}

--------------------------------------------------------------------------------
(* Prompts: two placeholders, values that hold placeholders themselves.    *)

MCTemplates == UNION {[1..n -> {"x", "y", "text"}] : n \in 0..3}
P(k, v) == [kind |-> k, value |-> v]
MCParamMaps ==
  LET Values == {P("text", <<"y", "text">>), P("json", <<"x", "json">>), P("text", <<>>),
                 P("unencodable", <<>>), P("zero", <<>>)}
  IN UNION {[ks -> Values] : ks \in SUBSET {"x", "y", "Bad"}}

--------------------------------------------------------------------------------
(* Types: all the ways A and B can be defined in terms of each other, of   *)
(* two scalars and of a channel.                                           *)

Scalars == {"str", "num"}
Types == {"A", "B", "chan"} \cup Scalars

Type(k, e, fs) == [kind |-> k, elem |-> e, fields |-> fs]
FieldOf(n, t, tag, embedded, exported, optional) ==
  [name |-> n, type |-> t, tag |-> tag, embedded |-> embedded, exported |-> exported,
   optional |-> optional]

Fields ==
  {FieldOf("x", t, "none", FALSE, TRUE, FALSE) : t \in Types} \cup
  {FieldOf("x", "str", "none", FALSE, TRUE, TRUE)} \cup
  {FieldOf("e", t, "none", TRUE, FALSE, FALSE) : t \in {"A", "B"}} \cup
  {FieldOf("s", "B", "string", TRUE, TRUE, FALSE)} \cup
  {FieldOf("y", "chan", "string", FALSE, TRUE, TRUE), FieldOf("z", "chan", "-", FALSE, TRUE, FALSE)}

Definitions ==
  {Type(k, t, <<>>) : k \in {"pointer", "list"}, t \in Types} \cup
  {Type("struct", "none", fs) : fs \in UNION {[1..n -> Fields] : n \in 0..2}}

GraphOf(a, b) ==
  [t \in Types |-> CASE t = "A" -> a [] t = "B" -> b
                     [] t = "chan" -> Type("unsupported", "none", <<>>)
                     [] OTHER -> Type("leaf", "none", <<>>)]

\* Go allows no embedded type that is itself a pointer.
LegalGraph(g) ==
  \A t \in {"A", "B"} : \A i \in DOMAIN g[t].fields :
    g[t].fields[i].embedded => g[g[t].fields[i].type].kind # "pointer"

MCGraphs == {g \in {GraphOf(a, b) : a \in Definitions, b \in Definitions} : LegalGraph(g)}

--------------------------------------------------------------------------------
(* Variants of a union: an enum or none, two types and no type, a          *)
(* description or none, two nested schemas; a name that all have and a     *)
(* name that some have.                                                    *)

Property(t, e, d) == [type |-> t, enum |-> e, description |-> d, nested |-> "none"]
Properties ==
  {Property(t, e, <<>>) : t \in {"string", "any"}, e \in {<<>>, <<"v", "w">>, <<"w", "u">>}} \cup
  {Property("string", <<>>, <<"d">>), Property("string", <<"w">>, <<"c">>)} \cup
  {[Property("object", <<>>, <<>>) EXCEPT !.nested = o] : o \in {"left", "right"}}

Variant(m) == [ok |-> TRUE, props |-> m]
MCVariants ==
  {[ok |-> FALSE, props |-> <<>>], Variant(<<>>)} \cup
  {Variant("n" :> p) : p \in Properties} \cup
  {Variant("n" :> p @@ "m" :> Property("string", <<"v">>, <<"d">>)) : p \in Properties}
MCVariantLists == UNION {[1..n -> MCVariants] : n \in 0..3}

--------------------------------------------------------------------------------
(* One part at a time; the others stay as they begin.                      *)

Init ==
  /\ part \in Parts
  /\ TermInit /\ InstallInit /\ PromptInit /\ SchemaInit /\ UnionInit
  /\ part # "terminal" => speaks = CHOOSE s \in DOMAIN KeysOf : TRUE
  /\ part # "install" =>
       /\ dirs = (CHOOSE d \in DefaultDirs : TRUE)
       /\ path = <<>> /\ bins = Bare

Next ==
  \/ /\ part = "terminal" /\ TermNext
     /\ UNCHANGED <<part, installVars, promptVars, schemaVars, unionVars>>
  \/ /\ part = "install" /\ InstallNext
     /\ UNCHANGED <<part, termVars, promptVars, schemaVars, unionVars>>
  \/ /\ part = "prompt" /\ PromptNext
     /\ UNCHANGED <<part, termVars, installVars, schemaVars, unionVars>>
  \/ /\ part = "schema" /\ SchemaNext
     /\ UNCHANGED <<part, termVars, installVars, promptVars, unionVars>>
  \/ /\ part = "union" /\ UnionNext
     /\ UNCHANGED <<part, termVars, installVars, promptVars, schemaVars>>

\* A walk is sequential code: it does not stop by itself.
Spec ==
  /\ Init /\ [][Next]_vars
  /\ WF_vars(Step /\ UNCHANGED <<part, termVars, installVars, promptVars, unionVars>>)

--------------------------------------------------------------------------------
\* terminal.go:3 and README.md:30: ctrl+c interrupts the read. Once everything
\* that was typed has been read, there is an interrupted read for every ctrl+c.
CtrlCInterrupts ==
  Consumed /\ ~closed =>
    Cardinality({i \in DOMAIN keys : keys[i] = "ctrl+c"})
      = Cardinality({i \in DOMAIN results : results[i][2] = "interrupted"})
================================================================================
