---------------------------- MODULE MC_ProviderRun ----------------------------
(* Two concurrent calls of ProviderRun for TLC. Two names are alike once     *)
(* they are file names: "a/b" and "a-b".                                     *)
EXTENDS ProviderRun, TLC

CONSTANTS c1, c2

MCNames == {"a/b", "a-b"}
MCDebugName == [n \in MCNames |-> "a-b"]

\* A plain call of codex.Run with dumps, and what the other requests have else.
Plain == [provider |-> "codex", front |-> FALSE, structured |-> FALSE,
          schema |-> "given", valid |-> TRUE, stream |-> FALSE, name |-> "a-b",
          dumps |-> TRUE]

Codex1 == [Plain EXCEPT !.name = "a/b", !.stream = TRUE]
Codex2 == [Plain EXCEPT !.front = TRUE, !.structured = TRUE, !.schema = "derived",
                        !.dumps = FALSE]
Claude1 == [Plain EXCEPT !.provider = "claude", !.schema = "none"]
Claude2 == [Plain EXCEPT !.provider = "claude", !.structured = TRUE, !.stream = TRUE]
Invalid == [Plain EXCEPT !.provider = "claude", !.valid = FALSE]
Other == [Plain EXCEPT !.front = TRUE, !.provider = "other"]

Underivable == [Plain EXCEPT !.structured = TRUE, !.schema = "underivable"]

MCRequests == {Plain, Codex1, Codex2, Claude1, Claude2, Invalid, Other, Underivable}

MCMaxLines == c1 :> 2 @@ c2 :> 0

\* The pairs of requests that are checked side by side: two full runs of codex
\* whose files are alike; a run of each kind next to one that fails at once, or
\* that never begins.
MCInit ==
  /\ Init
  /\ <<req[c1], req[c2]>> \in
       {<<Codex1, Plain>>, <<Claude2, Invalid>>, <<Claude1, Invalid>>,
        <<Claude1, Other>>, <<Codex2, Underivable>>}

MCSpec == MCInit /\ [][Next]_vars
================================================================================
