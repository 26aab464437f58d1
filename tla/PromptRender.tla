----------------------------- MODULE PromptRender -----------------------------
(***************************************************************************)
(* prompt.Render and RenderStrict. A template and a value are sequences of *)
(* tokens: a key stands for its placeholder {key}, every other token for   *)
(* text that is none. "ws" is the white space of indented JSON.            *)
(***************************************************************************)
EXTENDS Naturals, Sequences, FiniteSets, FiniteSetsExt, SequencesExt

CONSTANTS
  ValidKeys,    \* keys in lower snake case
  Templates,    \* templates to render
  ParamMaps     \* maps from keys to params [kind, value]: Text, JSON of a value that
                \* marshals (json) or not (unencodable), or the zero value

Kinds == {"text", "json", "unencodable", "zero"}

\* White space that Indent adds is its own token: it can be told from all other text.
Plain(s) == s \in Seq(Range(s)) /\ "ws" \notin Range(s)

ASSUME PromptAssumption ==
  /\ \A s \in Templates : Plain(s)
  /\ \A ps \in ParamMaps : \A k \in DOMAIN ps : ps[k].kind \in Kinds /\ Plain(ps[k].value)

VARIABLES
  rendering,           \* idle, encoding, done
  tpl, params, strict, \* the call
  todo,                \* keys the range loop has not visited
  llmVals, debugVals,
  rendered

promptVars == <<rendering, tpl, params, strict, todo, llmVals, debugVals, rendered>>

NoResult == [ok |-> FALSE, llm |-> <<>>, debug |-> <<>>, unreplaced |-> <<>>]

PromptInit ==
  /\ rendering = "idle"
  /\ tpl = <<>> /\ params = <<>> /\ strict = FALSE
  /\ todo = {} /\ llmVals = <<>> /\ debugVals = <<>>
  /\ rendered = NoResult

Places(s, t) == {i \in DOMAIN s : s[i] = t}
Occurrences(s, t) == Cardinality(Places(s, t))

--------------------------------------------------------------------------------

Render ==
  /\ rendering = "idle" /\ rendering' = "encoding"
  /\ tpl' \in Templates /\ params' \in ParamMaps /\ strict' \in BOOLEAN
  /\ todo' = DOMAIN params'
  /\ UNCHANGED <<llmVals, debugVals, rendered>>

ReindentedTail(v) == <<"ws">> \o Tail(v)    \* mutant

\* json.Indent of the compact encoding: white space and nothing else.
Indented(v) == FlattenSeq([i \in DOMAIN v |-> <<"ws", v[i]>>])

AcceptsZero(k) == k \in ValidKeys /\ Contains(tpl, k) /\ params[k].kind # "unencodable"    \* mutant

\* The key is valid and occurs in the template, the param encodes.
Accepts(k) == k \in ValidKeys /\ Contains(tpl, k) /\ params[k].kind \in {"text", "json"}

\* A map is visited in any order; the first param that fails ends the call.
EncodeParam(k) ==
  /\ rendering = "encoding" /\ k \in todo
  /\ IF Accepts(k)
     THEN /\ todo' = todo \ {k}
          /\ llmVals' = [j \in DOMAIN llmVals \cup {k} |-> params[j].value]
          /\ debugVals' = [j \in DOMAIN debugVals \cup {k} |->
                             IF params[j].kind = "json" THEN Indented(params[j].value)
                             ELSE params[j].value]
          /\ UNCHANGED rendering
     ELSE rendering' = "done" /\ UNCHANGED <<todo, llmVals, debugVals>>
  /\ UNCHANGED <<tpl, params, strict, rendered>>

Replaced(s, k, v) == FlattenSeq([i \in DOMAIN s |-> IF s[i] = k THEN v ELSE <<s[i]>>])

\* Mutant: one strings.ReplaceAll per key.
SubstituteByKey(s, vals) ==
  FoldSet(LAMBDA k, done : Replaced(done, k, vals[k]), s, DOMAIN vals)

\* One pass over the template; a value is not looked at again.
Substitute(s, vals) ==
  FlattenSeq([i \in DOMAIN s |-> IF s[i] \in DOMAIN vals THEN vals[s[i]] ELSE <<s[i]>>])

\* Mutant: the output is scanned.
OutputLeftovers ==
  SelectSeq(Substitute(tpl, llmVals), LAMBDA t : t \in ValidKeys \ DOMAIN params)

\* The template's placeholders without a param, at their first occurrence.
Leftovers ==
  LET order[n \in 0..Len(tpl)] ==
        IF n = 0 THEN <<>>
        ELSE IF tpl[n] \in (ValidKeys \ DOMAIN params) \ Range(order[n - 1])
             THEN Append(order[n - 1], tpl[n])
        ELSE order[n - 1]
  IN order[Len(tpl)]

\* RenderStrict returns the renderings with its error.
Finish ==
  /\ rendering = "encoding" /\ todo = {} /\ rendering' = "done"
  /\ rendered' = [ok |-> strict => Leftovers = <<>>,
                llm |-> Substitute(tpl, llmVals),
                debug |-> Substitute(tpl, debugVals),
                unreplaced |-> Leftovers]
  /\ UNCHANGED <<tpl, params, strict, todo, llmVals, debugVals>>

PromptNext == Render \/ (\E k \in todo : EncodeParam(k)) \/ Finish

PromptSpec == PromptInit /\ [][PromptNext]_promptVars

--------------------------------------------------------------------------------
(* Properties.                                                             *)

Rendered == rendering = "done" /\ todo = {}

\* In whatever order the params are visited, a call renders if and only if every
\* param is good, and succeeds if it need not be strict or nothing is unbound.
\* RenderStrict's own error comes with both renderings, every other with none.
VerdictIsOrderless ==
  rendering = "done" =>
    /\ Rendered <=> \A k \in DOMAIN params :
         /\ k \in ValidKeys /\ Occurrences(tpl, k) > 0
         /\ params[k].kind # "zero" /\ params[k].kind # "unencodable"
    /\ rendered.ok <=>
         Rendered /\ (strict => \A i \in DOMAIN tpl : tpl[i] \in ValidKeys => tpl[i] \in DOMAIN params)
    /\ ~Rendered => rendered = NoResult

\* The places of t within the values that the template asks for, at each place
\* where it does.
InValues(t) ==
  UNION {{i} \X Places(params[tpl[i]].value, t) : i \in {i \in DOMAIN tpl : tpl[i] \in DOMAIN params}}

\* "Values are never re-scanned": every token of the rendering comes from the
\* template or from a value put there, each the right number of times; a
\* placeholder within a value is data and stays.
OnePass ==
  Rendered =>
    \A t \in Range(tpl) \cup UNION {Range(params[k].value) : k \in DOMAIN params} :
      Occurrences(rendered.llm, t) =
        (IF t \in DOMAIN params THEN 0 ELSE Occurrences(tpl, t)) + Cardinality(InValues(t))

WithoutSpace(s) == FlattenSeq([i \in DOMAIN s |-> IF s[i] = "ws" THEN <<>> ELSE <<s[i]>>])

\* "so a debug dump faithfully shows what the model saw": the two renderings
\* differ in white space only.
DebugShowsPrompt ==
  Rendered => WithoutSpace(rendered.debug) = rendered.llm

\* Unreplaced has every placeholder of the template without a param, each once,
\* by first occurrence, and nothing that came in with a value.
LeftoversAreTemplates ==
  Rendered =>
    LET u == rendered.unreplaced IN
      /\ Range(u) = (Range(tpl) \cap ValidKeys) \ DOMAIN params
      /\ IsInjective(u)
      /\ \A i, j \in DOMAIN u : i < j =>
           \E a \in DOMAIN tpl : tpl[a] = u[i] /\ \A b \in 1..a : tpl[b] # u[j]
================================================================================
