----------------------------- MODULE ProviderRun -----------------------------
(***************************************************************************)
(* claude.Run, codex.Run and the front door aclio on top of them: calls    *)
(* that run concurrently in one host, share one TempDir, one clock and one *)
(* disk, and drive their child through internal/cliexec, which is taken as *)
(* GuardedCall specifies it.                                               *)
(*                                                                         *)
(* A step is what another call, the child or the caller can observe: a     *)
(* file written, a log line, a line handled, a step of GuardedCall. The    *)
(* text a call returns is the set of the numbers of the stdout lines it    *)
(* consists of.                                                            *)
(***************************************************************************)
EXTENDS Naturals, Sequences

CONSTANTS
  Calls,      \* the calls the host makes, each once
  Requests,   \* what a call may ask for, see RequestType
  Names,      \* RunOpts.Name
  DebugName,  \* the name as it stands in file names
  Slashed,    \* names with a separator in them
  Claude,     \* types of the events claude prints with --output-format stream-json
  Codex,      \* types of the events codex prints with --json
  MaxTime,    \* bound: distinct readings of the clock
  MaxLines    \* bound: lines the child of each call prints

RequestType ==
  [provider : {"claude", "codex", "other"},
   front : BOOLEAN,       \* aclio.Run rather than the provider's own Run
   structured : BOOLEAN,  \* RunStructured
   schema : {"none", "given", "derived", "underivable"},
   valid : BOOLEAN,       \* buildArgs accepts model, tools, sandbox, session
   stream : BOOLEAN,
   name : Names,
   dumps : BOOLEAN]       \* TempDir is set

ASSUME CallAssumption ==
  /\ Requests \subseteq RequestType
  /\ DebugName \in [Names -> Names]
  /\ Slashed \subseteq Names
  /\ {"start", "done"} \cap (Claude \cup Codex) = {}    \* what the calls log themselves
  /\ MaxTime \in Nat
  /\ MaxLines \in [Calls -> Nat]

VARIABLES
  pc, req,
  stamp,   \* DebugStamp of each call, a reading of the clock in milliseconds
  disk,    \* TempDir's file system: ok or full
  files,   \* TempDir: at most one file per stamp, name and kind
  ephemeral,   \* does the call's own temporary schema directory exist?
  deferred,    \* does the call remove it when it returns?
  read,    \* history: whose schema the child found
  lines,   \* history: types of the lines the child printed
  last,    \* number of the last result event, or agent message
  thread,  \* number of the last thread.started event
  log,     \* what the call wrote to LogWriter
  text, err, \* what Run, then the front door, returns
  phase, child, noticed, outcome   \* GuardedCall

GC == INSTANCE GuardedCall WITH Runs <- Calls

guardedVars == <<phase, child, noticed, outcome>>
dirVars == <<ephemeral, deferred>>
fileVars == <<disk, files, dirVars>>
streamVars == <<read, lines, last, thread>>
retVars == <<text, err>>
vars == <<pc, req, stamp, fileVars, streamVars, log, retVars, guardedVars>>

Pcs == {"idle", "schema", "write", "args", "spawn", "running", "leave", "returned"}
Kinds == {"schema", "settings", "prompt", "output", "error"}
FileNames == [at : 0..MaxTime, name : Names, kind : Kinds]
Files == [file : FileNames, by : Calls, whole : BOOLEAN]

Init ==
  /\ pc = [c \in Calls |-> "idle"]
  /\ req \in [Calls -> Requests]
  /\ stamp = [c \in Calls |-> 0]
  /\ disk = "ok"
  /\ files = {}
  /\ ephemeral = [c \in Calls |-> FALSE]
  /\ deferred = [c \in Calls |-> FALSE]
  /\ read = [c \in Calls |-> {}]
  /\ lines = [c \in Calls |-> <<>>]
  /\ last = [c \in Calls |-> 0]
  /\ thread = [c \in Calls |-> 0]
  /\ log = [c \in Calls |-> <<>>]
  /\ text = [c \in Calls |-> {}]
  /\ err = [c \in Calls |-> "none"]
  /\ GC!Init

Goto(c, from, to) ==
  /\ pc[c] = from
  /\ pc' = [pc EXCEPT ![c] = to]

IsClaude(c) == req[c].provider = "claude"
HasSchema(c) == req[c].schema \in {"given", "derived"}
Streams(c) == req[c].stream \/ ~IsClaude(c)
Fail(c, e) == err' = [err EXCEPT ![c] = e]

Unstamped(c, kind, name) == [at |-> 0, name |-> name, kind |-> kind]    \* mutant

FileName(c, kind, name) == [at |-> stamp[c], name |-> name, kind |-> kind]

\* os.WriteFile, for each of the names: it replaces the file of that name, and
\* on a full disk leaves it empty.
Put(c, names) ==
  files' = {f \in files : f.file \notin names}
           \cup {[file |-> n, by |-> c, whole |-> disk = "ok"] : n \in names}

\* WriteDebugFile: best effort, a no-op without TempDir.
Dump(c, names) == Put(c, IF req[c].dumps THEN names ELSE {})

Normal(c) == DebugName[req[c].name]

--------------------------------------------------------------------------------
(* Up to the spawn.                                                        *)

\* An unknown provider, or a type no schema can be derived from: the call is
\* over before the provider sees it, with no stamp and no dump.
Refuse(c) ==
  /\ Goto(c, "idle", "returned")
  /\ req[c].provider = "other" \/ req[c].schema = "underivable"
  /\ Fail(c, "refused")
  /\ UNCHANGED <<req, stamp, fileVars, streamVars, log, text, guardedVars>>

\* The wall clock may stand still between two calls, or be set back.
Begin(c) ==
  /\ Goto(c, "idle", IF ~IsClaude(c) /\ HasSchema(c) THEN "schema" ELSE "args")
  /\ req[c].provider # "other" /\ req[c].schema # "underivable"
  /\ \E t \in 0..MaxTime : stamp' = [stamp EXCEPT ![c] = t]
  /\ UNCHANGED <<req, fileVars, streamVars, log, retVars, guardedVars>>

\* codex, writeSchemaFile: a fresh directory of the call's own, or TempDir. A full
\* disk may still have room for it.
MakeSchemaDir(c) ==
  /\ Goto(c, "schema", "write")
  /\ ephemeral' = [ephemeral EXCEPT ![c] = ~req[c].dumps]
  /\ UNCHANGED <<req, stamp, disk, files, deferred, streamVars, log, retVars, guardedVars>>

\* Not if TempDir is there already; if not, the error dump finds no place either.
SchemaDirFails(c) ==
  /\ Goto(c, "schema", "leave")
  /\ disk = "full"
  /\ req[c].dumps => files = {}
  /\ Fail(c, "file")
  /\ UNCHANGED <<req, stamp, fileVars, streamVars, log, text, guardedVars>>

\* The removal of the directory is deferred once there is a file for the child.
WriteSchemaFile(c) ==
  /\ Goto(c, "write", "args")
  /\ disk = "ok"
  /\ Dump(c, {FileName(c, "schema", Normal(c))})
  /\ deferred' = [deferred EXCEPT ![c] = ephemeral[c]]
  /\ UNCHANGED <<req, stamp, disk, ephemeral, streamVars, log, retVars, guardedVars>>

SchemaFileFailsDirty(c) ==    \* mutant: the directory is not removed
  /\ Goto(c, "write", "leave")
  /\ disk = "full"
  /\ Fail(c, "file")
  /\ Dump(c, {FileName(c, k, Normal(c)) : k \in {"schema", "error"}})
  /\ UNCHANGED <<req, stamp, disk, dirVars, streamVars, log, text, guardedVars>>

\* Nothing is deferred yet: the directory is removed here.
SchemaFileFails(c) ==
  /\ Goto(c, "write", "leave")
  /\ disk = "full"
  /\ Fail(c, "file")
  /\ Dump(c, {FileName(c, k, Normal(c)) : k \in {"schema", "error"}})
  /\ ephemeral' = [ephemeral EXCEPT ![c] = FALSE]
  /\ UNCHANGED <<req, stamp, disk, deferred, streamVars, log, text, guardedVars>>

\* Mutant: the start line is written before the arguments are checked.
BuildArgsLate(c) ==
  /\ Goto(c, "args", "leave")
  /\ ~req[c].valid
  /\ Fail(c, "args")
  /\ log' = [log EXCEPT ![c] = <<"start">>]
  /\ Dump(c, {FileName(c, "error", Normal(c))})
  /\ UNCHANGED <<req, stamp, disk, dirVars, streamVars, text, guardedVars>>

BuildArgsFails(c) ==
  /\ Goto(c, "args", "leave")
  /\ ~req[c].valid
  /\ Fail(c, "args")
  /\ Dump(c, {FileName(c, "error", Normal(c))})
  /\ UNCHANGED <<req, stamp, disk, dirVars, streamVars, log, text, guardedVars>>

\* buildArgs, logStart, debugSettings, debugPrompt.
Prepare(c) ==
  /\ Goto(c, "args", "spawn")
  /\ req[c].valid
  /\ log' = [log EXCEPT ![c] = <<"start">>]
  /\ Dump(c, {FileName(c, k, Normal(c)) : k \in {"settings", "prompt"}})
  /\ UNCHANGED <<req, stamp, disk, dirVars, streamVars, retVars, guardedVars>>

\* The call of Capture or Stream, and its end when the child does not start.
Spawn(c) ==
  /\ Goto(c, "spawn", "running")
  /\ GC!Spawn(c) \/ GC!Refuse(c)
  /\ UNCHANGED <<req, stamp, fileVars, streamVars, log, retVars>>

--------------------------------------------------------------------------------
(* The child, and the lines of it that reach the call.                     *)

\* codex opens the file that --output-schema names.
Schema(c) ==
  IF req[c].dumps
  THEN {f.by : f \in {g \in files :
          g.file = FileName(c, "schema", Normal(c)) /\ g.whole}}
  ELSE IF ephemeral[c] THEN {c} ELSE {}

ReadSchema(c) ==
  /\ child[c] = "present" /\ ~IsClaude(c) /\ HasSchema(c)
  /\ read[c] = {}
  /\ read' = [read EXCEPT ![c] = IF Schema(c) = {} THEN {"nothing"} ELSE Schema(c)]
  /\ UNCHANGED <<pc, req, stamp, fileVars, lines, last, thread, log, retVars,
                 guardedVars>>

\* handleStreamLine and its printers, one [tag] per log line; an assistant event
\* has a block of each kind. An event that does not parse, or has nothing to
\* show, logs nothing.
ClaudeTags(t) ==
  CASE t = "assistant" -> <<"thinking", "text", "tool">>
    [] t = "user" -> <<"denied">>
    [] t \in {"blank", "result", "malformed"} -> <<>>
    [] OTHER -> <<t>>

\* codex's runStream and handleItem.
CodexTags(c, t) ==
  IF ~req[c].stream \/ t \in {"turn.completed", "malformed"} THEN <<>> ELSE <<t>>

Answer(c) == IF IsClaude(c) THEN "result" ELSE "agent_message"

FirstAnswer(c, t) == IF t = Answer(c) /\ last[c] = 0 THEN 1 ELSE last[c]    \* mutant

NextAnswer(c, t) == IF t = Answer(c) THEN Len(lines[c]) + 2 ELSE last[c]    \* mutant

\* The last result event, the last agent message: a later one replaces it.
LastAnswer(c, t) == IF t = Answer(c) THEN Len(lines[c]) + 1 ELSE last[c]

\* onLine; without Stream claude's output is only collected.
Line(c) ==
  /\ pc[c] = "running" /\ phase[c] = "running"
  /\ Streams(c) => child[c] = "present"
  /\ Len(lines[c]) < MaxLines[c]
  /\ \E t \in (IF ~Streams(c) THEN {"part"} ELSE IF IsClaude(c) THEN Claude ELSE Codex) :
       /\ lines' = [lines EXCEPT ![c] = Append(@, t)]
       /\ last' = [last EXCEPT ![c] = IF Streams(c) THEN LastAnswer(c, t) ELSE 0]
       /\ thread' = [thread EXCEPT ![c] = IF t = "thread.started" THEN Len(lines[c]) + 1
                                          ELSE @]
       /\ log' = [log EXCEPT ![c] = @ \o (IF ~Streams(c) THEN <<>>
                                          ELSE IF IsClaude(c) THEN ClaudeTags(t)
                                          ELSE CodexTags(c, t))]
  /\ UNCHANGED <<pc, req, stamp, fileVars, read, retVars, guardedVars>>

Guarded(c) ==
  /\ pc[c] = "running"
  /\ GC!Settle(c) \/ GC!Finish(c)
  /\ UNCHANGED <<pc, req, stamp, fileVars, streamVars, log, retVars>>

ChildGone(c) ==
  /\ GC!ChildGone(c)
  /\ UNCHANGED <<pc, req, stamp, fileVars, streamVars, log, retVars>>

Notice(c) ==
  /\ GC!Notice(c)
  /\ UNCHANGED <<pc, req, stamp, fileVars, streamVars, log, retVars>>

--------------------------------------------------------------------------------
(* After the run.                                                          *)

\* claude's runStream also fails when no result event came.
RunErr(c) ==
  IF outcome[c] # "ok" THEN outcome[c]
  ELSE IF IsClaude(c) /\ Streams(c) /\ last[c] = 0 THEN "noResult"
  ELSE "none"

AnyOutput(c) == IF ~Streams(c) THEN 1..Len(lines[c]) ELSE {last[c]} \ {0}    \* mutant

\* Capture returns what it has with its error, the two runStreams return nothing.
Output(c) ==
  IF ~Streams(c) THEN 1..Len(lines[c])
  ELSE IF RunErr(c) = "none" /\ last[c] # 0 THEN {last[c]}
  ELSE {}

\* claude dumps whatever output there is, codex that of a good run, under the
\* name as it was given: one with a separator names no file there. Both dump an
\* error.
OutputDumps(c) ==
  IF IsClaude(c)
  THEN {FileName(c, "output", Normal(c)) : i \in Output(c)}
  ELSE {FileName(c, "output", n) :
          n \in {n \in {req[c].name} \ Slashed : RunErr(c) = "none"}}

NoErrorDump(c) == {}    \* mutant

ErrorDump(c) == IF RunErr(c) = "none" THEN {} ELSE {FileName(c, "error", Normal(c))}

\* runStream or Capture has returned. logCacheMetrics and logUsage write a line
\* for a run without error, with an output that parses and counted tokens.
Report(c) ==
  /\ Goto(c, "running", "leave")
  /\ phase[c] = "over"
  /\ Fail(c, RunErr(c))
  /\ text' = [text EXCEPT ![c] = Output(c)]
  /\ \E counted \in BOOLEAN :
       /\ counted => RunErr(c) = "none" /\ (IsClaude(c) => Output(c) # {})
       /\ log' = [log EXCEPT ![c] = IF counted THEN Append(@, "done") ELSE @]
  /\ Dump(c, OutputDumps(c) \cup ErrorDump(c))
  /\ UNCHANGED <<req, stamp, disk, dirVars, streamVars, guardedVars>>

\* Does the caller get more than Run's text: a decoded value or a Result?
Decodes(c) == req[c].structured \/ (req[c].front /\ IsClaude(c))

\* Run returns, its deferred cleanup removes the directory. Its text is decoded,
\* if it has any and parses; a failure to decode leaves no dump. The front door
\* returns nothing with an error, RunStructured nothing with an error of Run and
\* what it had with one of its own.
Leave(c) ==
  /\ Goto(c, "leave", "returned")
  /\ ephemeral' = [ephemeral EXCEPT ![c] = @ /\ ~deferred[c]]
  /\ \/ /\ err[c] = "none"
        /\ Decodes(c) => text[c] # {}
        /\ UNCHANGED retVars
     \/ /\ err[c] = "none" /\ Decodes(c)
        /\ Fail(c, "decode")
        /\ \E kept \in {{}, text[c]} :
             /\ req[c].front => kept = {}
             /\ text' = [text EXCEPT ![c] = kept]
     \/ /\ err[c] # "none"
        /\ text' = [text EXCEPT ![c] = IF req[c].front \/ req[c].structured THEN {} ELSE @]
        /\ UNCHANGED err
  /\ UNCHANGED <<req, stamp, disk, files, deferred, streamVars, log, guardedVars>>

--------------------------------------------------------------------------------
(* The disk fills; what can happen.                                        *)

DiskFills ==
  /\ disk = "ok"
  /\ disk' = "full"
  /\ UNCHANGED <<pc, req, stamp, files, dirVars, streamVars, log, retVars,
                 guardedVars>>

Run(c) ==
  \/ MakeSchemaDir(c) \/ SchemaDirFails(c) \/ WriteSchemaFile(c) \/ SchemaFileFails(c)
  \/ BuildArgsFails(c) \/ Prepare(c)
  \/ Spawn(c) \/ Guarded(c) \/ Report(c) \/ Leave(c)

Next ==
  \/ \E c \in Calls :
       \/ Refuse(c) \/ Begin(c) \/ Run(c)
       \/ ReadSchema(c) \/ Line(c) \/ ChildGone(c) \/ Notice(c)
  \/ DiskFills

Spec == Init /\ [][Next]_vars

--------------------------------------------------------------------------------
(* Properties.                                                             *)

Events == Claude \cup Codex \cup {"part"}
Outcomes == GC!Verdicts \cup {"none", "interrupted", "startErr"}

TypeOK ==
  /\ pc \in [Calls -> Pcs]
  /\ req \in [Calls -> Requests]
  /\ stamp \in [Calls -> 0..MaxTime]
  /\ disk \in {"ok", "full"}
  /\ files \subseteq Files
  /\ \A f, g \in files : f.file = g.file => f = g
  /\ ephemeral \in [Calls -> BOOLEAN] /\ deferred \in [Calls -> BOOLEAN]
  /\ read \in [Calls -> SUBSET (Calls \cup {"nothing"})]
  /\ lines \in [Calls -> Seq(Events)]
  /\ log \in [Calls -> Seq(Events \cup {"start", "done", "thinking", "text", "tool", "denied"})]
  /\ last \in [Calls -> Nat] /\ thread \in [Calls -> Nat]
  /\ text \in [Calls -> SUBSET Nat]
  /\ \A c \in Calls :
       last[c] <= MaxLines[c] /\ thread[c] <= MaxLines[c] /\ text[c] \subseteq 1..MaxLines[c]
  /\ err \in [Calls -> Outcomes \cup {"refused", "file", "args", "noResult", "decode"}]
  /\ phase \in [Calls -> {"idle", "running", "settled", "over"}]
  /\ child \in [Calls -> {"none", "present", "gone"}]
  /\ noticed \in [Calls -> BOOLEAN]
  /\ outcome \in [Calls -> Outcomes]

\* What the answer of a run with these lines should be: the number of the last
\* line that carries one.
Final(c, t) ==
  {i \in DOMAIN lines[c] :
     lines[c][i] = t /\ \A j \in DOMAIN lines[c] : lines[c][j] = t => j <= i}

\* A call returns nil only if its own child ended well, and then its text is
\* the last answer that child gave (claude: the last result event, of which
\* there must be one; without Stream the whole output; codex: the last agent
\* message, and the last thread.started names the session). Events before and
\* after, errors among them, and a second answer do not change that.
AnswerIsFinal ==
  \A c \in Calls :
    pc[c] = "returned" /\ err[c] = "none" =>
      /\ outcome[c] = "ok" /\ child[c] = "gone"
      /\ text[c] = IF Streams(c) THEN Final(c, Answer(c)) ELSE DOMAIN lines[c]
      /\ IsClaude(c) /\ Streams(c) => text[c] # {}
      /\ {thread[c]} \ {0} = Final(c, "thread.started")

\* What a child printed before it failed is never mistaken for an answer: an
\* error comes with no text. There are two exceptions below the front door:
\* claude.Run without Stream hands out what it has, and RunStructured the result
\* of a good run that it cannot decode.
NoAnswerWithError ==
  \A c \in Calls :
    pc[c] = "returned" /\ err[c] # "none" /\ text[c] # {} =>
      /\ ~req[c].front
      /\ IF req[c].structured THEN err[c] = "decode" /\ outcome[c] = "ok"
         ELSE IsClaude(c) /\ ~Streams(c)

\* Do two calls name their files alike? Two calls of one name, or of two names
\* that DebugName maps together, that began in the same millisecond.
SameFiles(c, d) == stamp[c] = stamp[d] /\ Normal(c) = Normal(d)
Alone(c) == \A d \in Calls \ {c} : ~SameFiles(c, d) \/ pc[d] = "idle" \/ ~req[d].dumps

\* debugError: "so a call that produced no output still leaves a trace". Once
\* Run has returned, with TempDir set and no other call's files of the same
\* name, there is an error dump if and only if Run failed, while the disk has
\* room. A failure to decode comes after Run and leaves none.
FailureLeavesTrace ==
  \A c \in Calls :
    pc[c] \in {"leave", "returned"} /\ req[c].dumps /\ disk = "ok" /\ Alone(c) =>
      ( [file |-> FileName(c, "error", Normal(c)), by |-> c, whole |-> TRUE] \in files
        <=> err[c] \notin {"none", "refused", "decode"} )

\* The schema file is there for as long as the child may open it, whole, and
\* it is the call's own, unless another call names its files alike.
SchemaIsOwn ==
  \A c \in Calls : read[c] \subseteq {c} \/ (req[c].dumps /\ ~Alone(c))

\* The call's own schema directory is there from before its child starts until the
\* child is gone, and it is gone when the call has returned, by whatever path: also
\* when the disk filled up between the directory and the file in it, where nothing
\* is deferred yet.
SchemaDirLasts ==
  \A c \in Calls :
    /\ child[c] = "present" /\ ~IsClaude(c) /\ HasSchema(c) /\ ~req[c].dumps => ephemeral[c]
    /\ pc[c] = "returned" => ~ephemeral[c]

\* The log tells how far a call came: a call that was refused before the launch
\* wrote nothing, any other a start line, first and once, before its child is
\* there; events are logged only of a child that was launched, and the completion
\* line comes last and only from a run without error. A start line does not tell
\* that a child was launched, as claude.go:176 and codex.go:192 have it: a command
\* that does not start leaves a start line, and nothing after it.
LogPairsUp ==
  \A c \in Calls :
    /\ pc[c] = "returned" => (log[c] = <<>> <=> outcome[c] = "none")
    /\ child[c] # "none" => log[c] # <<>>
    /\ Len(log[c]) > 1 => child[c] # "none"
    /\ \A i \in DOMAIN log[c] :
         /\ log[c][i] = "start" <=> i = 1
         /\ log[c][i] = "done" => i = Len(log[c]) /\ outcome[c] = "ok"
================================================================================
