--------------------------- MODULE ProviderRunProofs ---------------------------
(***************************************************************************)
(* Theorems about ProviderRun for any number of calls, of any requests,    *)
(* with any events in any number, under any way the names are normalised:  *)
(* its answers, errors, files and log, and that a call has few steps to    *)
(* take of its own.                                                        *)
(***************************************************************************)
EXTENDS ProviderRun, TLAPS

USE CallAssumption DEF dirVars

Tags == Events \cup {"start", "done", "thinking", "text", "tool", "denied"}

Typed ==
  /\ TypeOK
  /\ \A c \in Calls : Len(lines[c]) <= MaxLines[c]

--------------------------------------------------------------------------------
(* Types.                                                                  *)

\* What os.WriteFile leaves has the type of the files, one per name.
LEMMA PutFiles ==
  ASSUME NEW c \in Calls, NEW N \in SUBSET FileNames, TypeOK, Put(c, N)
  PROVE  /\ files' \subseteq Files
         /\ \A f, g \in files' : f.file = g.file => f = g
<1> DEFINE new == {[file |-> n, by |-> c, whole |-> disk = "ok"] : n \in N}
<1>1. files' = {f \in files : f.file \notin N} \cup new
  BY DEF Put
<1>2. \A n \in N, b \in BOOLEAN : [file |-> n, by |-> c, whole |-> b] \in Files
  BY DEF Files
<1>3. new \subseteq Files
  <2> DEFINE b == disk = "ok"
  <2>1. b \in BOOLEAN
    OBVIOUS
  <2> HIDE DEF b
  <2>2. \A f \in {[file |-> n, by |-> c, whole |-> b] : n \in N} : f \in Files
    BY <1>2, <2>1
  <2> QED
    BY <2>2 DEF b
<1>4. \A f \in new : f.file \in N
  OBVIOUS
<1>5. \A f, g \in new : f.file = g.file => f = g
  OBVIOUS
<1> HIDE DEF new
<1> QED
  BY <1>1, <1>3, <1>4, <1>5 DEF TypeOK

LEMMA NamesTyped ==
  ASSUME NEW c \in Calls, TypeOK, NEW k \in Kinds
  PROVE  /\ FileName(c, k, Normal(c)) \in FileNames
         /\ OutputDumps(c) \cup ErrorDump(c) \subseteq FileNames
<1>1. req[c] \in RequestType /\ req[c].name \in Names /\ Normal(c) \in Names
  BY DEF TypeOK, RequestType, Normal
<1>2. \A n \in Names, j \in Kinds : FileName(c, j, n) \in FileNames
  BY DEF TypeOK, FileName, FileNames
<1>3. {"output", "error"} \subseteq Kinds
  BY DEF Kinds
<1> QED
  BY <1>1, <1>2, <1>3 DEF OutputDumps, ErrorDump

LEMMA DumpFiles ==
  ASSUME NEW c \in Calls, NEW N \in SUBSET FileNames, TypeOK, Dump(c, N)
  PROVE  /\ files' \subseteq Files
         /\ \A f, g \in files' : f.file = g.file => f = g
  BY PutFiles DEF Dump

LEMMA TagSeqs ==
  /\ <<>> \in Seq(Tags)
  /\ \A t \in Events : <<t>> \in Seq(Tags)
  /\ <<"thinking", "text", "tool">> \in Seq(Tags)
  /\ <<"denied">> \in Seq(Tags)
<1>1. /\ Events \subseteq Tags
      /\ "thinking" \in Tags /\ "text" \in Tags /\ "tool" \in Tags /\ "denied" \in Tags
  BY DEF Tags
<1>2. \A x, y, z \in Tags : <<x>> \in Seq(Tags) /\ <<x, y, z>> \in Seq(Tags)
  OBVIOUS
<1> QED
  BY <1>1, <1>2

\* The steps of GuardedCall keep its types.
LEMMA GuardedTyped ==
  ASSUME TypeOK, NEW c \in Calls,
         \/ GC!Spawn(c) \/ GC!Refuse(c) \/ GC!Settle(c) \/ GC!Finish(c)
         \/ GC!ChildGone(c) \/ GC!Notice(c)
  PROVE  /\ phase' \in [Calls -> {"idle", "running", "settled", "over"}]
         /\ child' \in [Calls -> {"none", "present", "gone"}]
         /\ noticed' \in [Calls -> BOOLEAN]
         /\ outcome' \in [Calls -> Outcomes]
<1> USE DEF TypeOK, Outcomes, GC!Verdicts
<1>1. CASE GC!Spawn(c)
  BY <1>1 DEF GC!Spawn
<1>2. CASE GC!Refuse(c)
  BY <1>2 DEF GC!Refuse
<1>3. CASE GC!Settle(c)
  <2>1. \E v \in Outcomes : outcome' = [outcome EXCEPT ![c] = v]
    BY <1>3 DEF GC!Settle
  <2>2. phase' = [phase EXCEPT ![c] = "settled"] /\ UNCHANGED <<child, noticed>>
    BY <1>3 DEF GC!Settle
  <2> QED
    BY <2>1, <2>2
<1>4. CASE GC!Finish(c)
  BY <1>4 DEF GC!Finish
<1>5. CASE GC!ChildGone(c)
  BY <1>5 DEF GC!ChildGone
<1>6. CASE GC!Notice(c)
  BY <1>6 DEF GC!Notice
<1> QED
  BY <1>1, <1>2, <1>3, <1>4, <1>5, <1>6

LEMMA TypedInit == Init => Typed
<1> SUFFICES ASSUME Init PROVE Typed
  OBVIOUS
<1>1. 0 \in 0..MaxTime /\ \A c \in Calls : 0 <= MaxLines[c] /\ MaxLines[c] \in Nat
  OBVIOUS
<1>2. \A S : <<>> \in Seq(S) /\ Len(<<>>) = 0
  OBVIOUS
<1>3. GC!Init
  BY DEF Init
<1> QED
  BY <1>1, <1>2, <1>3 DEF Init, Typed, TypeOK, GC!Init, Pcs, Outcomes

LEMMA TypedStep == Typed /\ [Next]_vars => Typed'
<1> SUFFICES ASSUME Typed, [Next]_vars PROVE Typed'
  OBVIOUS
<1> USE DEF Typed
<1>1. ASSUME NEW c \in Calls, Refuse(c) PROVE Typed'
  BY <1>1 DEF TypeOK, Refuse, Goto, Fail, Pcs, fileVars, streamVars, guardedVars
<1>2. ASSUME NEW c \in Calls, Begin(c) PROVE Typed'
  BY <1>2 DEF TypeOK, Begin, Goto, Pcs, fileVars, streamVars, guardedVars, retVars
<1>0. ASSUME NEW c \in Calls, MakeSchemaDir(c) \/ SchemaDirFails(c) PROVE Typed'
  <2>1. CASE MakeSchemaDir(c)
    <3>1. req[c].dumps \in BOOLEAN
      BY DEF TypeOK, RequestType
    <3> QED
      BY <2>1, <3>1 DEF TypeOK, MakeSchemaDir, Goto, Pcs, streamVars, guardedVars, retVars
  <2>2. CASE SchemaDirFails(c)
    BY <2>2 DEF TypeOK, SchemaDirFails, Fail, Goto, Pcs, fileVars, streamVars, guardedVars
  <2> QED
    BY <1>0, <2>1, <2>2
<1>3. ASSUME NEW c \in Calls, WriteSchemaFile(c) PROVE Typed'
  <2>1. FileName(c, "schema", Normal(c)) \in FileNames
    BY NamesTyped DEF Kinds
  <2>2. /\ files' \subseteq Files
        /\ \A f, g \in files' : f.file = g.file => f = g
    BY <1>3, <2>1, DumpFiles DEF WriteSchemaFile
  <2> QED
    BY <1>3, <2>2 DEF TypeOK, WriteSchemaFile, Goto, Pcs, streamVars, guardedVars, retVars
<1>4. ASSUME NEW c \in Calls, SchemaFileFails(c) PROVE Typed'
  <2>1. {FileName(c, k, Normal(c)) : k \in {"schema", "error"}} \subseteq FileNames
    BY NamesTyped DEF Kinds
  <2>2. /\ files' \subseteq Files
        /\ \A f, g \in files' : f.file = g.file => f = g
    BY <1>4, <2>1, DumpFiles DEF SchemaFileFails
  <2> QED
    BY <1>4, <2>2 DEF TypeOK, SchemaFileFails, Fail, Goto, Pcs, streamVars, guardedVars
<1>5. ASSUME NEW c \in Calls, BuildArgsFails(c) PROVE Typed'
  <2>1. {FileName(c, "error", Normal(c))} \subseteq FileNames
    BY NamesTyped DEF Kinds
  <2>2. /\ files' \subseteq Files
        /\ \A f, g \in files' : f.file = g.file => f = g
    BY <1>5, <2>1, DumpFiles DEF BuildArgsFails
  <2> QED
    BY <1>5, <2>2 DEF TypeOK, BuildArgsFails, Fail, Goto, Pcs, streamVars, guardedVars
<1>6. ASSUME NEW c \in Calls, Prepare(c) PROVE Typed'
  <2>1. {FileName(c, k, Normal(c)) : k \in {"settings", "prompt"}} \subseteq FileNames
    BY NamesTyped DEF Kinds
  <2>2. /\ files' \subseteq Files
        /\ \A f, g \in files' : f.file = g.file => f = g
    BY <1>6, <2>1, DumpFiles DEF Prepare
  <2> QED
    BY <1>6, <2>2 DEF TypeOK, Prepare, Goto, Pcs, streamVars, retVars, guardedVars
<1>7. ASSUME NEW c \in Calls, Spawn(c) PROVE Typed'
  BY <1>7, GuardedTyped DEF TypeOK, Spawn, Goto, Pcs, fileVars, streamVars, retVars
<1>8. ASSUME NEW c \in Calls, ReadSchema(c) PROVE Typed'
  <2>1. Schema(c) \subseteq Calls
    BY DEF Schema, TypeOK, Files
  <2> QED
    BY <1>8, <2>1 DEF TypeOK, ReadSchema, fileVars, guardedVars, retVars
<1>9. ASSUME NEW c \in Calls, Line(c) PROVE Typed'
  <2>1. PICK t \in Events :
          /\ lines' = [lines EXCEPT ![c] = Append(@, t)]
          /\ last' = [last EXCEPT ![c] = IF Streams(c) THEN LastAnswer(c, t) ELSE 0]
          /\ thread' = [thread EXCEPT ![c] = IF t = "thread.started" THEN Len(lines[c]) + 1 ELSE @]
          /\ log' = [log EXCEPT ![c] = @ \o (IF ~Streams(c) THEN <<>>
                                             ELSE IF IsClaude(c) THEN ClaudeTags(t)
                                             ELSE CodexTags(c, t))]
    BY <1>9 DEF Line, Events
  <2>2. /\ UNCHANGED <<pc, req, stamp, fileVars, read, retVars, guardedVars>>
        /\ Len(lines[c]) < MaxLines[c]
    BY <1>9 DEF Line
  <2>3. lines' \in [Calls -> Seq(Events)] /\ \A d \in Calls : Len(lines[d])' <= MaxLines[d]
    <3>1. lines[c] \in Seq(Events) /\ Append(lines[c], t) \in Seq(Events)
          /\ Len(Append(lines[c], t)) = Len(lines[c]) + 1
      BY DEF TypeOK
    <3>2. Len(lines[c]) + 1 <= MaxLines[c]
      BY <2>2, <3>1
    <3> QED
      BY <2>1, <3>1, <3>2 DEF TypeOK
  <2>4. /\ last' \in [Calls -> Nat] /\ thread' \in [Calls -> Nat]
        /\ \A d \in Calls : last'[d] <= MaxLines[d] /\ thread'[d] <= MaxLines[d]
    BY <2>1, <2>2 DEF TypeOK, LastAnswer
  <2>5. log' \in [Calls -> Seq(Tags)]
    <3>1. ClaudeTags(t) \in Seq(Tags)
      BY TagSeqs DEF ClaudeTags
    <3>2. CodexTags(c, t) \in Seq(Tags)
      BY TagSeqs DEF CodexTags
    <3>3. log[c] \in Seq(Tags) /\ <<>> \in Seq(Tags)
      BY DEF TypeOK, Tags
    <3>4. \A s \in Seq(Tags) : log[c] \o s \in Seq(Tags)
      BY <3>3
    <3> QED
      BY <2>1, <3>1, <3>2, <3>3, <3>4 DEF TypeOK, Tags
  <2> QED
    BY <2>2, <2>3, <2>4, <2>5 DEF TypeOK, Tags, fileVars, retVars, guardedVars
<1>10. ASSUME NEW c \in Calls, Guarded(c) \/ ChildGone(c) \/ Notice(c) PROVE Typed'
  BY <1>10, GuardedTyped DEF TypeOK, Guarded, ChildGone, Notice, fileVars, streamVars, retVars
<1>11. ASSUME NEW c \in Calls, Report(c) PROVE Typed'
  <2>1. /\ files' \subseteq Files
        /\ \A f, g \in files' : f.file = g.file => f = g
    BY <1>11, NamesTyped, DumpFiles DEF Report, Kinds
  <2>2. err' \in [Calls -> Outcomes \cup {"refused", "file", "args", "noResult", "decode"}]
    BY <1>11 DEF TypeOK, Report, Fail, RunErr, Outcomes
  <2>3. Output(c) \subseteq 1..MaxLines[c] /\ Output(c) \in SUBSET Nat
    BY DEF TypeOK, Output
  <2>4. log' \in [Calls -> Seq(Tags)]
    BY <1>11 DEF TypeOK, Report, Tags
  <2> QED
    BY <1>11, <2>1, <2>2, <2>3, <2>4
       DEF TypeOK, Report, Tags, Goto, Pcs, streamVars, guardedVars
<1>12. ASSUME NEW c \in Calls, Leave(c) PROVE Typed'
  <2>1. text' \in [Calls -> SUBSET Nat] /\ \A d \in Calls : text'[d] \subseteq text[d]
    <3>1. text[c] \in SUBSET Nat /\ {} \in SUBSET Nat
      BY DEF TypeOK
    <3>2. \/ UNCHANGED text
          \/ text' = [text EXCEPT ![c] = {}]
          \/ text' = [text EXCEPT ![c] = text[c]]
      BY <1>12 DEF Leave, retVars
    <3> QED
      BY <3>1, <3>2 DEF TypeOK
  <2>2. err' \in [Calls -> Outcomes \cup {"refused", "file", "args", "noResult", "decode"}]
    BY <1>12 DEF TypeOK, Leave, retVars, Fail
  <2> QED
    BY <1>12, <2>1, <2>2 DEF TypeOK, Leave, Goto, Pcs, streamVars, guardedVars
<1>13. CASE DiskFills
  BY <1>13 DEF TypeOK, DiskFills, streamVars, retVars, guardedVars
<1>14. CASE UNCHANGED vars
  BY <1>14 DEF TypeOK, vars, fileVars, streamVars, retVars, guardedVars
<1> QED
  BY <1>0, <1>1, <1>2, <1>3, <1>4, <1>5, <1>6, <1>7, <1>8, <1>9, <1>10, <1>11, <1>12, <1>13,
     <1>14 DEF Next, Run

--------------------------------------------------------------------------------
(* Where a call and its child stand.                                       *)

StageInv(c) ==
  /\ pc[c] \in {"idle", "schema", "write", "args", "spawn"} => phase[c] = "idle"
  /\ pc[c] = "running" => phase[c] # "idle"
  /\ pc[c] \in {"leave", "returned"} => phase[c] \in {"idle", "over"}
  /\ phase[c] = "idle" => child[c] = "none" /\ outcome[c] = "none"
  /\ phase[c] = "running" => child[c] # "none" /\ outcome[c] = "none"
  /\ phase[c] = "settled" => child[c] = "gone" /\ outcome[c] # "none"
  /\ phase[c] = "over" =>
       \/ child[c] = "none" /\ outcome[c] = "startErr"
       \/ child[c] = "gone" /\ outcome[c] # "none"
  /\ pc[c] \in {"idle", "schema", "returned"} => ~ephemeral[c]
  /\ pc[c] \in {"args", "spawn", "running"} /\ ~IsClaude(c) /\ HasSchema(c) /\ ~req[c].dumps
       => ephemeral[c]
  /\ pc[c] = "write" => ephemeral[c] = ~req[c].dumps
  /\ pc[c] \in {"args", "spawn", "running", "leave"} => (ephemeral[c] => deferred[c])
  /\ pc[c] \notin {"leave", "returned"} => err[c] = "none" /\ text[c] = {}
  /\ pc[c] \in {"leave", "returned"} /\ err[c] = "none" => outcome[c] = "ok" /\ child[c] = "gone"
  /\ pc[c] = "returned" /\ err[c] = "decode" => outcome[c] = "ok"
  /\ pc[c] = "leave" => err[c] # "decode"
  /\ pc[c] = "idle" => read[c] = {}

Stages == \A c \in Calls : StageInv(c)

LEMMA StageInit == Init => Stages
  BY DEF Init, GC!Init, Stages, StageInv

LEMMA StageStep == Typed /\ Stages /\ [Next]_vars => Stages'
<1> SUFFICES ASSUME Typed, Stages, [Next]_vars, NEW d \in Calls PROVE StageInv(d)'
  BY DEF Stages
<1> USE DEF Typed, TypeOK, Stages, StageInv, IsClaude, HasSchema, Goto, Fail
<1>1. ASSUME NEW c \in Calls, Refuse(c) PROVE StageInv(d)'
  BY <1>1 DEF Refuse, fileVars, streamVars, guardedVars
<1>2. ASSUME NEW c \in Calls, Begin(c) PROVE StageInv(d)'
  BY <1>2 DEF Begin, fileVars, streamVars, guardedVars, retVars
<1>3. ASSUME NEW c \in Calls, MakeSchemaDir(c) \/ SchemaDirFails(c) \/ WriteSchemaFile(c)
      PROVE  StageInv(d)'
  <2>1. CASE MakeSchemaDir(c)
    <3>1. ephemeral'[c] = ~req[c].dumps /\ \A b \in Calls \ {c} : ephemeral'[b] = ephemeral[b]
      BY <2>1 DEF MakeSchemaDir
    <3>2. pc'[c] = "write" /\ pc[c] = "schema" /\ \A b \in Calls \ {c} : pc'[b] = pc[b]
      BY <2>1 DEF MakeSchemaDir
    <3>3. UNCHANGED <<req, deferred, read, text, err, phase, child, outcome>>
      BY <2>1 DEF MakeSchemaDir, streamVars, retVars, guardedVars
    <3> QED
      BY <3>1, <3>2, <3>3
  <2>2. CASE SchemaDirFails(c)
    BY <2>2 DEF SchemaDirFails, fileVars, streamVars, guardedVars
  <2>3. CASE WriteSchemaFile(c)
    BY <2>3 DEF WriteSchemaFile, streamVars, guardedVars, retVars
  <2> QED
    BY <1>3, <2>1, <2>2, <2>3
<1>4. ASSUME NEW c \in Calls, SchemaFileFails(c) \/ BuildArgsFails(c) \/ Prepare(c) PROVE StageInv(d)'
  BY <1>4 DEF SchemaFileFails, BuildArgsFails, Prepare, streamVars, guardedVars, retVars
<1>5. ASSUME NEW c \in Calls, Spawn(c) PROVE StageInv(d)'
  BY <1>5 DEF Spawn, GC!Spawn, GC!Refuse, fileVars, streamVars, retVars
<1>6. ASSUME NEW c \in Calls, ReadSchema(c) \/ Line(c) PROVE StageInv(d)'
  <2>1. UNCHANGED <<pc, req, ephemeral, deferred, err, text, phase, child, outcome>>
    BY <1>6 DEF ReadSchema, Line, fileVars, guardedVars, retVars
  <2>2. pc[c] # "idle" /\ \A e \in Calls : e # c => read'[e] = read[e]
    BY <1>6 DEF ReadSchema, Line
  <2> QED
    BY <2>1, <2>2
<1>7. ASSUME NEW c \in Calls, Guarded(c) \/ ChildGone(c) \/ Notice(c) PROVE StageInv(d)'
  <2>1. UNCHANGED <<pc, req, ephemeral, deferred, err, text, read>>
    BY <1>7 DEF Guarded, ChildGone, Notice, fileVars, streamVars, retVars
  <2>2. CASE GC!Settle(c) /\ Guarded(c)
    <3>1. \E v \in Outcomes \ {"none"} : outcome' = [outcome EXCEPT ![c] = v]
      BY <2>2 DEF GC!Settle, Outcomes, GC!Verdicts
    <3>2. /\ phase[c] = "running" /\ child[c] = "gone" /\ pc[c] = "running"
          /\ phase' = [phase EXCEPT ![c] = "settled"] /\ UNCHANGED child
      BY <2>2 DEF GC!Settle, Guarded
    <3> QED
      BY <2>1, <3>1, <3>2
  <2>3. CASE GC!Finish(c) /\ Guarded(c)
    BY <2>1, <2>3 DEF GC!Finish, Guarded
  <2>4. CASE GC!ChildGone(c)
    BY <2>1, <2>4 DEF GC!ChildGone
  <2>5. CASE GC!Notice(c)
    BY <2>1, <2>5 DEF GC!Notice
  <2> QED
    BY <1>7, <2>2, <2>3, <2>4, <2>5 DEF Guarded, ChildGone, Notice
<1>8. ASSUME NEW c \in Calls, Report(c) PROVE StageInv(d)'
  <2>1. RunErr(c) # "decode" /\ (RunErr(c) = "none" => outcome[c] = "ok" \/ outcome[c] = "none")
    BY DEF RunErr, Outcomes, GC!Verdicts
  <2>2. UNCHANGED <<req, ephemeral, deferred, read, phase, child, outcome>>
    BY <1>8 DEF Report, streamVars, guardedVars
  <2>3. /\ pc[c] = "running" /\ pc' = [pc EXCEPT ![c] = "leave"] /\ phase[c] = "over"
        /\ err' = [err EXCEPT ![c] = RunErr(c)] /\ text' = [text EXCEPT ![c] = Output(c)]
    BY <1>8 DEF Report
  <2>4. RunErr(c) = "none" => outcome[c] = "ok" /\ child[c] = "gone"
    BY <2>1, <2>3
  <2> QED
    BY <2>1, <2>2, <2>3, <2>4
<1>9. ASSUME NEW c \in Calls, Leave(c) PROVE StageInv(d)'
  <2>1. ephemeral[c] => deferred[c]
    BY <1>9 DEF Leave
  <2>2. ~ephemeral'[c] /\ \A b \in Calls \ {c} : ephemeral'[b] = ephemeral[b]
    BY <1>9, <2>1 DEF Leave
  <2>3. UNCHANGED <<req, deferred, read, phase, child, outcome>>
    BY <1>9 DEF Leave, streamVars, guardedVars
  <2>4. pc[c] = "leave" /\ pc'[c] = "returned" /\ \A b \in Calls \ {c} : pc'[b] = pc[b]
    BY <1>9 DEF Leave
  <2>5. /\ err'[c] \in {err[c], "decode"} /\ (err[c] # "none" => err'[c] = err[c])
        /\ \A b \in Calls \ {c} : err'[b] = err[b] /\ text'[b] = text[b]
    BY <1>9 DEF Leave, retVars
  <2> QED
    BY <2>2, <2>3, <2>4, <2>5
<1>10. CASE DiskFills
  BY <1>10 DEF DiskFills, streamVars, guardedVars, retVars
<1>11. CASE UNCHANGED vars
  BY <1>11 DEF vars, fileVars, streamVars, guardedVars, retVars
<1> QED
  BY <1>1, <1>2, <1>3, <1>4, <1>5, <1>6, <1>7, <1>8, <1>9, <1>10, <1>11 DEF Next, Run

--------------------------------------------------------------------------------
(* The files of a call.                                                    *)

Mark(c, k) == [file |-> FileName(c, k, Normal(c)), by |-> c, whole |-> TRUE]
HasMark(c, k) == Mark(c, k) \in files

FileInv(c) ==
  /\ pc[c] = "idle" => \A f \in files : f.by # c
  /\ Alone(c) /\ req[c].dumps =>
       /\ pc[c] \in {"args", "spawn", "running"} /\ ~IsClaude(c) /\ HasSchema(c)
            => HasMark(c, "schema")
       /\ pc[c] \in {"schema", "write", "args", "spawn", "running"} => ~HasMark(c, "error")
       /\ pc[c] \in {"leave", "returned"} /\ disk = "ok"
            => (HasMark(c, "error") <=> err[c] \notin {"none", "refused", "decode"})

FilesOwn == \A c \in Calls : FileInv(c)

\* The names of the files that a call writes.
Owned(c, N) ==
  \A n \in N : n.at = stamp[c] /\ (n.kind \in {"schema", "error"} => n.name = Normal(c))

\* A step of a call writes files of its own names or none.
Writes(c) ==
  \/ UNCHANGED files
  \/ pc[c] # "idle" /\ \E N \in SUBSET FileNames : Dump(c, N) /\ Owned(c, N)

LEMMA OtherDump ==
  ASSUME Typed, NEW c \in Calls, NEW d \in Calls, c # d, Alone(c), Writes(d),
         NEW k \in {"schema", "error"}
  PROVE  Mark(c, k) \in files' <=> Mark(c, k) \in files
<1>1. SUFFICES ASSUME pc[d] # "idle", NEW N \in SUBSET FileNames, Dump(d, N), Owned(d, N)
               PROVE  Mark(c, k) \in files' <=> Mark(c, k) \in files
  BY DEF Writes
<1>2. Mark(c, k).by = c /\ Mark(c, k).file = FileName(c, k, Normal(c))
  BY DEF Mark
<1>3. CASE ~req[d].dumps
  BY <1>1, <1>2, <1>3 DEF Dump, Put
<1>4. CASE req[d].dumps
  <2>1. stamp[c] # stamp[d] \/ Normal(c) # Normal(d)
    BY <1>1, <1>4 DEF Alone, SameFiles
  <2>2. FileName(c, k, Normal(c)) \notin N
    BY <1>1, <2>1 DEF Owned, FileName
  <2> QED
    BY <1>1, <1>2, <1>4, <2>2 DEF Dump, Put
<1> QED
  BY <1>3, <1>4

\* What a call does to its own files.
LEMMA OwnDump ==
  ASSUME Typed, NEW c \in Calls, NEW N \in SUBSET FileNames, Dump(c, N), req[c].dumps, NEW k
  PROVE  /\ FileName(c, k, Normal(c)) \notin N =>
              (Mark(c, k) \in files' <=> Mark(c, k) \in files)
         /\ FileName(c, k, Normal(c)) \in N /\ disk = "ok" => Mark(c, k) \in files'
<1>1. Mark(c, k).file = FileName(c, k, Normal(c))
  BY DEF Mark
<1>2. Put(c, N)
  BY DEF Dump
<1>3. CASE FileName(c, k, Normal(c)) \notin N
  BY <1>1, <1>2, <1>3 DEF Put
<1>4. CASE FileName(c, k, Normal(c)) \in N /\ disk = "ok"
  <2> DEFINE b == disk = "ok"
  <2>1. b = TRUE
    BY <1>4
  <2>2. files' = {f \in files : f.file \notin N} \cup {[file |-> n, by |-> c, whole |-> b] : n \in N}
    BY <1>2 DEF Put
  <2> HIDE DEF b
  <2> QED
    BY <1>4, <2>1, <2>2 DEF Mark
<1> QED
  BY <1>3, <1>4

\* Whose step a step is.
Act(c) ==
  \/ Refuse(c) \/ Begin(c) \/ Run(c)
  \/ ReadSchema(c) \/ Line(c) \/ ChildGone(c) \/ Notice(c)

LEMMA ActWrites == ASSUME Typed, NEW c \in Calls, Act(c) PROVE Writes(c)
<1>1. \A k \in Kinds : FileName(c, k, Normal(c)) \in FileNames
  BY NamesTyped DEF Typed
<1>2. \A k : /\ FileName(c, k, Normal(c)).at = stamp[c]
             /\ FileName(c, k, Normal(c)).name = Normal(c)
  BY DEF FileName
<1>3. CASE WriteSchemaFile(c)
  BY <1>1, <1>2, <1>3 DEF WriteSchemaFile, Goto, Writes, Owned, Kinds
<1>4. CASE SchemaFileFails(c)
  BY <1>1, <1>2, <1>4 DEF SchemaFileFails, Goto, Writes, Owned, Kinds
<1>5. CASE BuildArgsFails(c)
  BY <1>1, <1>2, <1>5 DEF BuildArgsFails, Goto, Writes, Owned, Kinds
<1>6. CASE Prepare(c)
  BY <1>1, <1>2, <1>6 DEF Prepare, Goto, Writes, Owned, Kinds
<1>7. CASE Report(c)
  <2>1. Owned(c, OutputDumps(c) \cup ErrorDump(c))
    BY DEF Owned, OutputDumps, ErrorDump, FileName
  <2>2. OutputDumps(c) \cup ErrorDump(c) \in SUBSET FileNames
    BY NamesTyped DEF Typed, Kinds
  <2> QED
    BY <1>7, <2>1, <2>2 DEF Report, Goto, Writes
<1>8. CASE \/ Refuse(c) \/ Begin(c) \/ MakeSchemaDir(c) \/ SchemaDirFails(c) \/ Spawn(c)
           \/ ReadSchema(c) \/ Line(c) \/ Guarded(c) \/ ChildGone(c) \/ Notice(c) \/ Leave(c)
  BY <1>8 DEF Refuse, Begin, MakeSchemaDir, SchemaDirFails, Spawn, ReadSchema, Line, Guarded, ChildGone, Notice, Leave,
              fileVars, Writes
<1> QED
  BY <1>3, <1>4, <1>5, <1>6, <1>7, <1>8 DEF Act, Run

\* A step of one call changes nothing of another's, but for the files.
LEMMA ActFrame ==
  ASSUME Typed, NEW c \in Calls, NEW d \in Calls, c # d, Act(d)
  PROVE  /\ pc'[c] = pc[c] /\ stamp'[c] = stamp[c] /\ err'[c] = err[c] /\ req' = req
         /\ disk' = disk
<1> USE DEF Typed, TypeOK
<1>1. CASE Refuse(d) \/ Begin(d) \/ WriteSchemaFile(d) \/ SchemaFileFails(d)
  BY <1>1 DEF Refuse, Begin, WriteSchemaFile, SchemaFileFails, Goto, Fail, fileVars, retVars
<1>2. CASE MakeSchemaDir(d) \/ SchemaDirFails(d) \/ BuildArgsFails(d) \/ Prepare(d) \/ Spawn(d)
  BY <1>2 DEF MakeSchemaDir, SchemaDirFails, BuildArgsFails, Prepare, Spawn, Goto, Fail, fileVars,
              retVars
<1>3. CASE ReadSchema(d) \/ Line(d) \/ Guarded(d) \/ ChildGone(d) \/ Notice(d)
  BY <1>3 DEF ReadSchema, Line, Guarded, ChildGone, Notice, fileVars, retVars
<1>4. CASE Report(d) \/ Leave(d)
  BY <1>4 DEF Report, Leave, Goto, Fail, fileVars, retVars
<1> QED
  BY <1>1, <1>2, <1>3, <1>4 DEF Act, Run

\* A call that has begun is alone only if it was before.
LEMMA AloneBack ==
  ASSUME Typed, NEW c \in Calls, pc[c] # "idle", [Next]_vars, Alone(c)'
  PROVE  /\ Alone(c)
         /\ stamp'[c] = stamp[c] /\ req' = req
<1> USE DEF Typed, TypeOK
<1>1. ASSUME NEW d \in Calls, Act(d)
      PROVE  /\ req' = req
             /\ \A e \in Calls : pc[e] # "idle" => stamp'[e] = stamp[e] /\ pc'[e] # "idle"
  <2>1. CASE Begin(d)
    BY <2>1 DEF Begin, Goto
  <2>2. CASE Refuse(d) \/ WriteSchemaFile(d) \/ SchemaFileFails(d) \/ BuildArgsFails(d)
    BY <2>2, SMTT(60) DEF Refuse, WriteSchemaFile, SchemaFileFails, BuildArgsFails, Goto
  <2>5. CASE MakeSchemaDir(d) \/ SchemaDirFails(d)
    BY <2>5, SMTT(60) DEF MakeSchemaDir, SchemaDirFails, Goto
  <2>3. CASE Prepare(d) \/ Spawn(d) \/ Report(d) \/ Leave(d)
    BY <2>3, SMTT(60) DEF Prepare, Spawn, Report, Leave, Goto
  <2>4. CASE ReadSchema(d) \/ Line(d) \/ Guarded(d) \/ ChildGone(d) \/ Notice(d)
    BY <2>4 DEF ReadSchema, Line, Guarded, ChildGone, Notice
  <2> QED
    BY <1>1, <2>1, <2>2, <2>3, <2>4, <2>5 DEF Act, Run
<1>2. CASE DiskFills \/ UNCHANGED vars
  BY <1>2 DEF DiskFills, vars, Alone, SameFiles, Normal
<1>3. CASE \E d \in Calls : Act(d)
  BY <1>1, <1>3 DEF Alone, SameFiles, Normal
<1> QED
  BY <1>2, <1>3 DEF Next, Act

LEMMA FilesInit == Init => FilesOwn
  BY DEF Init, FilesOwn, FileInv

LEMMA FilesStep == Typed /\ Stages /\ FilesOwn /\ [Next]_vars => FilesOwn'
<1> SUFFICES ASSUME Typed, Stages, FilesOwn, [Next]_vars, NEW c \in Calls PROVE FileInv(c)'
  BY DEF FilesOwn
<1>1. ASSUME NEW d \in Calls, c # d, Act(d) PROVE FileInv(c)'
  <2>1. Writes(d)
    BY <1>1, ActWrites
  <2>2. /\ pc'[c] = pc[c] /\ stamp'[c] = stamp[c] /\ err'[c] = err[c] /\ req' = req
        /\ disk' = disk
    BY <1>1, ActFrame
  <2>3. ASSUME pc[c] = "idle", NEW f \in files' PROVE f.by # c
    BY <2>1, <2>3, <1>1 DEF Writes, Dump, Put, FilesOwn, FileInv
  <2>4. \A k : Mark(c, k)' = Mark(c, k)
    BY <2>2 DEF Mark, FileName, Normal
  <2>5. ASSUME pc[c] # "idle", Alone(c)'
        PROVE  /\ Alone(c)
               /\ \A k \in {"schema", "error"} : HasMark(c, k)' <=> HasMark(c, k)
    <3>1. Alone(c)
      BY <2>5, AloneBack
    <3> QED
      BY <3>1, <2>1, <2>4, <1>1, OtherDump DEF HasMark
  <2> QED
    BY <2>2, <2>3, <2>5 DEF FilesOwn, FileInv, IsClaude, HasSchema
<1>2. ASSUME Act(c) PROVE FileInv(c)'
  <2>1. ASSUME NEW N \in SUBSET FileNames, Dump(c, N), NEW k, req' = req, stamp' = stamp
        PROVE  /\ req[c].dumps /\ FileName(c, k, Normal(c)) \notin N
                    => (HasMark(c, k)' <=> HasMark(c, k))
               /\ req[c].dumps /\ FileName(c, k, Normal(c)) \in N /\ disk = "ok" => HasMark(c, k)'
    <3>1. Mark(c, k)' = Mark(c, k)
      BY <2>1 DEF Mark, FileName, Normal
    <3> QED
      BY <2>1, <3>1, OwnDump DEF HasMark
  <2>2. ASSUME UNCHANGED <<req, stamp, files>> PROVE \A k : HasMark(c, k)' <=> HasMark(c, k)
    BY <2>2 DEF HasMark, Mark, FileName, Normal
  <2>3. pc[c] # "idle" /\ Alone(c)' => Alone(c)
    BY AloneBack
  <2>4. \A j, k \in Kinds : FileName(c, j, Normal(c)) \in FileNames
    BY NamesTyped DEF Typed
  <2>5. \A j, k : FileName(c, j, Normal(c)) = FileName(c, k, Normal(c)) => j = k
    BY DEF FileName
  <2>6. FileInv(c)
    BY DEF FilesOwn
  <2>7. CASE Refuse(c) \/ Begin(c)
    <3>1. pc[c] = "idle" /\ UNCHANGED <<req, files>> /\ \A f \in files : f.by # c
      BY <2>6, <2>7 DEF Refuse, Begin, Goto, fileVars, FileInv
    <3>2. ~HasMark(c, "error")'
      BY <3>1 DEF HasMark, Mark
    <3>3. \/ pc'[c] = "returned" /\ err'[c] = "refused"
          \/ pc'[c] = "schema"
          \/ pc'[c] = "args" /\ ~(~IsClaude(c) /\ HasSchema(c))
      BY <2>7 DEF Refuse, Begin, Goto, Fail, Typed, TypeOK
    <3> QED
      BY <3>1, <3>2, <3>3 DEF FileInv, IsClaude, HasSchema
  <2>8. CASE WriteSchemaFile(c)
    <3> DEFINE N == {FileName(c, "schema", Normal(c))}
    <3>1. /\ pc[c] = "write" /\ pc'[c] = "args" /\ disk = "ok"
          /\ UNCHANGED <<req, stamp>> /\ N \in SUBSET FileNames /\ Dump(c, N)
      BY <2>4, <2>8 DEF WriteSchemaFile, Goto, Typed, TypeOK, Kinds
    <3> HIDE DEF N
    <3>2. FileName(c, "schema", Normal(c)) \in N /\ FileName(c, "error", Normal(c)) \notin N
      BY <2>5 DEF N
    <3>3. req[c].dumps => HasMark(c, "schema")' /\ (HasMark(c, "error")' <=> HasMark(c, "error"))
      BY <2>1, <3>1, <3>2
    <3> QED
      BY <2>3, <2>6, <3>1, <3>3 DEF FileInv
  <2>9. CASE SchemaDirFails(c) \/ SchemaFileFails(c)
    BY <2>9 DEF SchemaDirFails, SchemaFileFails, Goto, FileInv, Typed, TypeOK, fileVars
  <2>15. CASE MakeSchemaDir(c)
    <3>1. pc[c] = "schema" /\ pc'[c] = "write" /\ UNCHANGED <<req, stamp, files>>
      BY <2>15 DEF MakeSchemaDir, Goto, Typed, TypeOK
    <3> QED
      BY <2>2, <2>3, <2>6, <3>1 DEF FileInv
  <2>10. CASE BuildArgsFails(c)
    <3> DEFINE N == {FileName(c, "error", Normal(c))}
    <3>1. /\ pc[c] = "args" /\ pc'[c] = "leave" /\ disk' = disk /\ err'[c] = "args"
          /\ UNCHANGED <<req, stamp>> /\ N \in SUBSET FileNames /\ Dump(c, N)
      BY <2>4, <2>10 DEF BuildArgsFails, Goto, Fail, Typed, TypeOK, Kinds
    <3> HIDE DEF N
    <3>2. FileName(c, "error", Normal(c)) \in N
      BY DEF N
    <3>3. req[c].dumps /\ disk = "ok" => HasMark(c, "error")'
      BY <2>1, <3>1, <3>2
    <3> QED
      BY <2>3, <3>1, <3>3 DEF FileInv
  <2>11. CASE Prepare(c)
    <3> DEFINE N == {FileName(c, k, Normal(c)) : k \in {"settings", "prompt"}}
    <3>1. /\ pc[c] = "args" /\ pc'[c] = "spawn"
          /\ UNCHANGED <<req, stamp>> /\ N \in SUBSET FileNames /\ Dump(c, N)
      BY <2>4, <2>11 DEF Prepare, Goto, Typed, TypeOK, Kinds
    <3> HIDE DEF N
    <3>2. FileName(c, "schema", Normal(c)) \notin N /\ FileName(c, "error", Normal(c)) \notin N
      BY <2>5 DEF N
    <3>3. req[c].dumps => /\ HasMark(c, "schema")' <=> HasMark(c, "schema")
                          /\ HasMark(c, "error")' <=> HasMark(c, "error")
      BY <2>1, <3>1, <3>2
    <3> QED
      BY <2>3, <2>6, <3>1, <3>3 DEF FileInv, IsClaude, HasSchema
  <2>12. CASE Report(c)
    <3> DEFINE N == OutputDumps(c) \cup ErrorDump(c)
    <3>1. /\ pc[c] = "running" /\ pc'[c] = "leave" /\ disk' = disk /\ err'[c] = RunErr(c)
          /\ UNCHANGED <<req, stamp>> /\ Dump(c, N)
      BY <2>12 DEF Report, Goto, Fail, Typed, TypeOK
    <3>2. N \in SUBSET FileNames
      BY NamesTyped DEF Typed, Kinds
    <3>3. FileName(c, "error", Normal(c)) \in N <=> RunErr(c) # "none"
      <4>1. FileName(c, "error", Normal(c)) \notin OutputDumps(c)
        BY DEF OutputDumps, FileName
      <4> QED
        BY <4>1 DEF ErrorDump
    <3> HIDE DEF N
    <3>4. RunErr(c) \notin {"refused", "decode"}
      BY DEF RunErr, Typed, TypeOK, Outcomes, GC!Verdicts
    <3>5. req[c].dumps /\ RunErr(c) = "none" => (HasMark(c, "error")' <=> HasMark(c, "error"))
      BY <2>1, <3>1, <3>2, <3>3
    <3>6. req[c].dumps /\ disk = "ok" /\ RunErr(c) # "none" => HasMark(c, "error")'
      BY <2>1, <3>1, <3>2, <3>3
    <3> QED
      BY <2>3, <2>6, <3>1, <3>4, <3>5, <3>6 DEF FileInv
  <2>13. CASE Leave(c)
    <3>1. /\ pc[c] = "leave" /\ pc'[c] = "returned" /\ UNCHANGED <<req, stamp, files, disk>>
          /\ err'[c] = err[c] \/ (err[c] = "none" /\ err'[c] = "decode")
      BY <2>13 DEF Leave, Goto, Fail, retVars, Typed, TypeOK
    <3> QED
      BY <2>2, <2>3, <2>6, <3>1 DEF FileInv
  <2>14. CASE Spawn(c) \/ ReadSchema(c) \/ Line(c) \/ Guarded(c) \/ ChildGone(c) \/ Notice(c)
    <3>1. /\ UNCHANGED <<req, stamp, files, disk, err>>
          /\ pc'[c] = pc[c] \/ (pc[c] = "spawn" /\ pc'[c] = "running")
      BY <2>14 DEF Spawn, ReadSchema, Line, Guarded, ChildGone, Notice, Goto, fileVars, retVars,
                   Typed, TypeOK
    <3>2. pc[c] # "idle"
      BY <2>14 DEF Spawn, Goto, ReadSchema, Line, Guarded, ChildGone, Notice, GC!ChildGone, GC!Notice,
                   Stages, StageInv
    <3> QED
      BY <2>2, <2>3, <2>6, <3>1, <3>2 DEF FileInv, IsClaude, HasSchema
  <2> QED
    BY <1>2, <2>7, <2>8, <2>9, <2>10, <2>11, <2>12, <2>13, <2>14, <2>15 DEF Act, Run
<1>3. CASE DiskFills
  BY <1>3 DEF DiskFills, FilesOwn, FileInv, HasMark, Mark, FileName, Normal, IsClaude, HasSchema,
              Alone, SameFiles, retVars
<1>4. CASE UNCHANGED vars
  BY <1>4 DEF vars, fileVars, FilesOwn, FileInv, HasMark, Mark, FileName, Normal, IsClaude,
              HasSchema, Alone, SameFiles, retVars
<1> QED
  BY <1>1, <1>2, <1>3, <1>4 DEF Next, Act

--------------------------------------------------------------------------------
(* What the child read, and what the call makes of its lines.              *)

OwnRead(c) == read[c] \subseteq {c} \/ (req[c].dumps /\ ~Alone(c))

LEMMA ReadFrame ==
  ASSUME [Next]_vars, NEW c \in Calls, Typed
  PROVE  req' = req /\ (read'[c] = read[c] \/ ReadSchema(c))
<1>1. CASE DiskFills \/ UNCHANGED vars
  BY <1>1 DEF DiskFills, vars, streamVars
<1>2. ASSUME NEW d \in Calls, Act(d) PROVE req' = req /\ (read'[c] = read[c] \/ ReadSchema(c))
  <2>1. CASE ReadSchema(d)
    BY <2>1 DEF ReadSchema, Typed, TypeOK
  <2>2. CASE Refuse(d) \/ Begin(d) \/ WriteSchemaFile(d) \/ SchemaFileFails(d) \/ BuildArgsFails(d)
             \/ Prepare(d) \/ MakeSchemaDir(d) \/ SchemaDirFails(d)
    BY <2>2 DEF Refuse, Begin, WriteSchemaFile, SchemaFileFails, BuildArgsFails, Prepare,
                MakeSchemaDir, SchemaDirFails, streamVars
  <2>3. CASE Spawn(d) \/ Line(d) \/ Guarded(d) \/ ChildGone(d) \/ Notice(d) \/ Report(d) \/ Leave(d)
    BY <2>3 DEF Spawn, Line, Guarded, ChildGone, Notice, Report, Leave, streamVars
  <2> QED
    BY <1>2, <2>1, <2>2, <2>3 DEF Act, Run
<1> QED
  BY <1>1, <1>2 DEF Next, Act

LEMMA OwnReadStep ==
  Typed /\ Stages /\ FilesOwn /\ (\A c \in Calls : OwnRead(c)) /\ [Next]_vars
    => (\A c \in Calls : OwnRead(c))'
<1> SUFFICES ASSUME Typed, Stages, FilesOwn, \A c \in Calls : OwnRead(c), [Next]_vars,
                    NEW c \in Calls
             PROVE  OwnRead(c)'
  OBVIOUS
<1>1. req' = req
  BY ReadFrame
<1>2. CASE read'[c] = read[c]
  <2>1. CASE pc[c] = "idle"
    BY <1>2, <2>1 DEF Stages, StageInv, OwnRead
  <2>2. CASE pc[c] # "idle"
    BY <1>1, <1>2, <2>2, AloneBack DEF OwnRead
  <2> QED
    BY <2>1, <2>2
<1>3. CASE ReadSchema(c)
  <2>1. /\ ~IsClaude(c) /\ HasSchema(c) /\ child[c] = "present"
        /\ read'[c] = IF Schema(c) = {} THEN {"nothing"} ELSE Schema(c)
        /\ UNCHANGED <<pc, req, stamp>>
    BY <1>3 DEF ReadSchema, Typed, TypeOK
  <2>2. pc[c] = "running"
    BY <2>1 DEF Stages, StageInv, Typed, TypeOK, Pcs
  <2>3. Alone(c)' <=> Alone(c)
    BY <2>1 DEF Alone, SameFiles, Normal
  <2>4. CASE ~req[c].dumps
    BY <2>1, <2>2, <2>4 DEF Schema, Stages, StageInv, OwnRead
  <2>5. CASE req[c].dumps /\ Alone(c)
    <3>1. HasMark(c, "schema")
      BY <2>1, <2>2, <2>5 DEF FilesOwn, FileInv
    <3>2. /\ Mark(c, "schema") \in files /\ Mark(c, "schema").by = c /\ Mark(c, "schema").whole
          /\ Mark(c, "schema").file = FileName(c, "schema", Normal(c))
      BY <3>1 DEF HasMark, Mark
    <3>3. \A g \in files : g.file = FileName(c, "schema", Normal(c)) => g = Mark(c, "schema")
      BY <3>2 DEF Typed, TypeOK
    <3>4. Schema(c) = {c}
      BY <2>5, <3>2, <3>3 DEF Schema
    <3> QED
      BY <2>1, <3>4 DEF OwnRead
  <2>6. CASE req[c].dumps /\ ~Alone(c)
    BY <2>1, <2>3, <2>6 DEF OwnRead
  <2> QED
    BY <2>4, <2>5, <2>6
<1> QED
  BY <1>2, <1>3, ReadFrame

\* The last line of a type, after one more line.
LEMMA FinalAppend ==
  ASSUME NEW c \in Calls, NEW s \in Seq(Events), NEW u \in Events, NEW t,
         lines[c] = s, lines'[c] = Append(s, u)
  PROVE  Final(c, t)' = IF u = t THEN {Len(s) + 1} ELSE Final(c, t)
<1>1. /\ DOMAIN lines[c] = 1..Len(s) /\ DOMAIN lines'[c] = 1..(Len(s) + 1)
      /\ lines'[c][Len(s) + 1] = u
      /\ \A i \in 1..Len(s) : lines'[c][i] = lines[c][i]
      /\ Len(s) \in Nat
  OBVIOUS
<1>2. CASE u = t
  BY <1>1, <1>2, SMTT(30) DEF Final
<1>3. CASE u # t
  BY <1>1, <1>3 DEF Final
<1> QED
  BY <1>2, <1>3

AnswerInv(c) ==
  /\ Final(c, "thread.started") = {thread[c]} \ {0}
  /\ Streams(c) => Final(c, Answer(c)) = {last[c]} \ {0}
  /\ pc[c] \in {"leave", "returned"} /\ err[c] = "none" =>
       /\ text[c] = IF Streams(c) THEN Final(c, Answer(c)) ELSE DOMAIN lines[c]
       /\ IsClaude(c) /\ Streams(c) => text[c] # {}
  /\ pc[c] \in {"leave", "returned"} /\ err[c] # "none" /\ text[c] # {} =>
       \/ IsClaude(c) /\ ~Streams(c)
            /\ (pc[c] = "returned" => ~req[c].front /\ ~req[c].structured)
       \/ pc[c] = "returned" /\ err[c] = "decode" /\ ~req[c].front /\ req[c].structured

Answers == \A c \in Calls : AnswerInv(c)

LEMMA AnswersInit == Init => Answers
<1> SUFFICES ASSUME Init, NEW c \in Calls PROVE AnswerInv(c)
  BY DEF Answers
<1>1. lines[c] = <<>> /\ last[c] = 0 /\ thread[c] = 0 /\ pc[c] = "idle"
  BY DEF Init
<1>2. \A t : Final(c, t) = {}
  BY <1>1 DEF Final
<1> QED
  BY <1>1, <1>2 DEF AnswerInv

LEMMA AnswersStep == Typed /\ Stages /\ Answers /\ [Next]_vars => Answers'
<1> SUFFICES ASSUME Typed, Stages, Answers, [Next]_vars, NEW c \in Calls PROVE AnswerInv(c)'
  BY DEF Answers
<1>1. AnswerInv(c)
  BY DEF Answers
<1>2. req' = req
  BY ReadFrame
<1>3. Streams(c)' = Streams(c) /\ IsClaude(c)' = IsClaude(c) /\ Answer(c)' = Answer(c)
  BY <1>2 DEF Streams, IsClaude, Answer
\* A step that neither prints a line nor ends the call.
<1>4. ASSUME UNCHANGED <<lines[c], last[c], thread[c], text[c], err[c]>>,
             pc'[c] \in {"leave", "returned"} => pc'[c] = pc[c]
      PROVE  AnswerInv(c)'
  <2>1. \A t : Final(c, t)' = Final(c, t)
    BY <1>4 DEF Final
  <2> QED
    BY <1>1, <1>2, <1>3, <1>4, <2>1 DEF AnswerInv
<1>5. ASSUME NEW d \in Calls, Act(d), ~Line(d),
             ~(Report(d) \/ Leave(d) \/ Refuse(d) \/ SchemaDirFails(d) \/ SchemaFileFails(d)
                 \/ BuildArgsFails(d))
      PROVE  AnswerInv(c)'
  <2>1. CASE Begin(d) \/ MakeSchemaDir(d) \/ WriteSchemaFile(d) \/ Prepare(d) \/ Spawn(d)
    <3>1. UNCHANGED <<lines, last, thread, text, err>>
      BY <2>1 DEF Begin, MakeSchemaDir, WriteSchemaFile, Prepare, Spawn, streamVars, retVars
    <3>2. pc'[c] \in {"leave", "returned"} => pc'[c] = pc[c]
      BY <2>1 DEF Begin, MakeSchemaDir, WriteSchemaFile, Prepare, Spawn, Goto, Typed, TypeOK
    <3> QED
      BY <1>4, <3>1, <3>2
  <2>2. CASE ReadSchema(d) \/ Guarded(d) \/ ChildGone(d) \/ Notice(d)
    BY <1>4, <2>2 DEF ReadSchema, Guarded, ChildGone, Notice, streamVars, retVars
  <2> QED
    BY <1>5, <2>1, <2>2 DEF Act, Run
<1>6. ASSUME NEW d \in Calls, Line(d) PROVE AnswerInv(c)'
  <2>1. /\ UNCHANGED <<pc, text, err>> /\ pc[d] = "running"
        /\ \E t \in Events :
             /\ ~Streams(d) => t = "part"
             /\ lines' = [lines EXCEPT ![d] = Append(@, t)]
             /\ last' = [last EXCEPT ![d] = IF Streams(d) THEN LastAnswer(d, t) ELSE 0]
             /\ thread' = [thread EXCEPT ![d] = IF t = "thread.started" THEN Len(lines[d]) + 1 ELSE @]
    BY <1>6 DEF Line, Events, retVars
  <2>2. CASE d # c
    <3>1. UNCHANGED <<lines[c], last[c], thread[c], text[c], err[c], pc[c]>>
      BY <2>1, <2>2 DEF Typed, TypeOK
    <3> QED
      BY <1>4, <3>1
  <2>3. CASE d = c
    <3>1. PICK t \in Events :
            /\ lines'[c] = Append(lines[c], t)
            /\ Streams(c) => last'[c] = LastAnswer(c, t)
            /\ thread'[c] = IF t = "thread.started" THEN Len(lines[c]) + 1 ELSE thread[c]
      BY <2>1, <2>3 DEF Typed, TypeOK
    <3>2. lines[c] \in Seq(Events) /\ Len(lines[c]) + 1 # 0
      BY DEF Typed, TypeOK
    <3>3. \A u : Final(c, u)' = IF t = u THEN {Len(lines[c]) + 1} ELSE Final(c, u)
      BY <3>1, <3>2, FinalAppend
    <3>4. Final(c, "thread.started")' = {thread'[c]} \ {0}
      BY <1>1, <3>1, <3>2, <3>3 DEF AnswerInv
    <3>5. Streams(c) => Final(c, Answer(c))' = {last'[c]} \ {0}
      <4>1. Final(c, Answer(c))' = IF t = Answer(c) THEN {Len(lines[c]) + 1} ELSE Final(c, Answer(c))
        BY <1>3, <3>3 DEF Final
      <4> QED
        BY <1>1, <3>1, <3>2, <4>1 DEF AnswerInv, LastAnswer
    <3>6. pc'[c] = "running"
      BY <2>1, <2>3
    <3> QED
      BY <1>3, <3>4, <3>5, <3>6 DEF AnswerInv
  <2> QED
    BY <2>2, <2>3
<1>7. ASSUME NEW d \in Calls,
             Report(d) \/ Leave(d) \/ Refuse(d) \/ SchemaDirFails(d) \/ SchemaFileFails(d) \/ BuildArgsFails(d)
      PROVE  AnswerInv(c)'
  <2>1. UNCHANGED <<lines, last, thread>>
    BY <1>7 DEF Report, Leave, Refuse, SchemaDirFails, SchemaFileFails, BuildArgsFails, streamVars
  <2>2. CASE d # c
    <3>1. UNCHANGED <<text[c], err[c], pc[c]>>
      BY <1>7, <2>2 DEF Report, Leave, Refuse, SchemaDirFails, SchemaFileFails, BuildArgsFails, Goto, Fail, retVars,
                        Typed, TypeOK
    <3> QED
      BY <1>4, <2>1, <3>1
  <2>3. \A t : Final(c, t)' = Final(c, t)
    BY <2>1 DEF Final
  <2>4. ASSUME d = c, Refuse(c) \/ SchemaDirFails(c) \/ SchemaFileFails(c) \/ BuildArgsFails(c)
        PROVE  AnswerInv(c)'
    <3>1. err'[c] # "none" /\ text'[c] = {}
      BY <2>4, ZenonT(60) DEF Refuse, SchemaDirFails, SchemaFileFails, BuildArgsFails, Goto, Fail, Stages, StageInv, Typed, TypeOK
    <3> QED
      BY <1>1, <1>3, <2>1, <2>3, <3>1 DEF AnswerInv
  <2>5. ASSUME d = c, Report(c) PROVE AnswerInv(c)'
    <3>1. /\ pc'[c] = "leave" /\ err'[c] = RunErr(c) /\ text'[c] = Output(c)
      BY <2>5 DEF Report, Goto, Fail, Typed, TypeOK
    <3>2. ~Streams(c) => Output(c) = DOMAIN lines[c]
      BY DEF Output, Typed, TypeOK
    <3>3. Streams(c) /\ RunErr(c) = "none" =>
            /\ Output(c) = Final(c, Answer(c))
            /\ IsClaude(c) => \/ Output(c) # {}
                              \/ outcome[c] = "none"
      BY <1>1 DEF Output, RunErr, AnswerInv
    <3>4. outcome[c] # "none"
      BY <2>5 DEF Report, Stages, StageInv
    <3>5. RunErr(c) # "none" /\ Output(c) # {} => ~Streams(c) /\ IsClaude(c)
      BY DEF Output, Streams
    <3> QED
      BY <1>1, <1>3, <2>1, <2>3, <3>1, <3>2, <3>3, <3>4, <3>5 DEF AnswerInv
  <2>6. ASSUME d = c, Leave(c) PROVE AnswerInv(c)'
    <3>1. pc[c] = "leave" /\ pc'[c] = "returned" /\ err[c] # "decode"
      BY <2>6 DEF Leave, Goto, Typed, TypeOK, Stages, StageInv
    <3>2. \/ err[c] = "none" /\ err'[c] = "none" /\ text'[c] = text[c]
          \/ /\ err[c] = "none" /\ Decodes(c) /\ err'[c] = "decode"
             /\ req[c].front => text'[c] = {}
          \/ /\ err[c] # "none" /\ err'[c] = err[c]
             /\ text'[c] = IF req[c].front \/ req[c].structured THEN {} ELSE text[c]
      <4>1. CASE err[c] = "none" /\ UNCHANGED retVars
        BY <4>1 DEF retVars
      <4>2. CASE /\ err[c] = "none" /\ Decodes(c)
                 /\ Fail(c, "decode")
                 /\ \E kept \in {{}, text[c]} :
                      /\ req[c].front => kept = {}
                      /\ text' = [text EXCEPT ![c] = kept]
        BY <4>2 DEF Fail, Typed, TypeOK
      <4>3. CASE /\ err[c] # "none" /\ UNCHANGED err
                 /\ text' = [text EXCEPT ![c] = IF req[c].front \/ req[c].structured THEN {} ELSE @]
        BY <4>3 DEF Typed, TypeOK
      <4> QED
        BY <2>6, <4>1, <4>2, <4>3 DEF Leave
    <3> QED
      BY <1>1, <1>2, <1>3, <2>1, <2>3, <3>1, <3>2 DEF AnswerInv, Decodes
  <2> QED
    BY <1>7, <2>2, <2>4, <2>5, <2>6
<1>8. CASE DiskFills \/ UNCHANGED vars
  BY <1>4, <1>8 DEF DiskFills, vars, streamVars, retVars
<1> QED
  BY <1>5, <1>6, <1>7, <1>8 DEF Next, Act

--------------------------------------------------------------------------------
(* The log of a call.                                                      *)

LogInv(c) ==
  /\ pc[c] \in {"idle", "schema", "write", "args"} => log[c] = <<>>
  /\ pc[c] \in {"leave", "returned"} /\ phase[c] = "idle" => log[c] = <<>>
  /\ pc[c] \in {"spawn", "running"} =>
       log[c] # <<>> /\ \A i \in DOMAIN log[c] : log[c][i] # "done"
  /\ phase[c] # "idle" => log[c] # <<>>
  /\ child[c] = "none" => Len(log[c]) <= 1
  /\ log[c] # <<>> => req[c].valid /\ log[c][1] = "start"
  /\ \A i \in DOMAIN log[c] :
       /\ log[c][i] = "start" => i = 1
       /\ log[c][i] = "done" => i = Len(log[c]) /\ outcome[c] = "ok"

Logs == \A c \in Calls : LogInv(c)

LineTags == Tags \ {"start", "done"}

\* What a line adds to the log is neither a start nor a completion.
LEMMA LineTagSeqs ==
  ASSUME NEW c \in Calls, NEW t \in Events
  PROVE  ClaudeTags(t) \in Seq(LineTags) /\ CodexTags(c, t) \in Seq(LineTags)
<1>1. /\ t \in LineTags /\ "thinking" \in LineTags /\ "text" \in LineTags
      /\ "tool" \in LineTags /\ "denied" \in LineTags
  <2>1. t # "start" /\ t # "done"
    BY DEF CallAssumption, Events
  <2>2. /\ "thinking" # "start" /\ "text" # "start" /\ "tool" # "start" /\ "denied" # "start"
        /\ "thinking" # "done" /\ "text" # "done" /\ "tool" # "done" /\ "denied" # "done"
    OBVIOUS
  <2> QED
    BY <2>1, <2>2 DEF LineTags, Tags
<1>2. \A x, y, z \in LineTags : <<x>> \in Seq(LineTags) /\ <<x, y, z>> \in Seq(LineTags)
  OBVIOUS
<1>3. <<>> \in Seq(LineTags)
  OBVIOUS
<1> QED
  BY <1>1, <1>2, <1>3 DEF ClaudeTags, CodexTags

LEMMA LogsInit == Init => Logs
<1> SUFFICES ASSUME Init, NEW c \in Calls PROVE LogInv(c)
  BY DEF Logs
<1>1. log[c] = <<>> /\ pc[c] = "idle"
  BY DEF Init
<1>2. phase[c] = "idle"
  BY DEF Init, GC!Init
<1>3. DOMAIN <<>> = {} /\ Len(<<>>) = 0
  OBVIOUS
<1> QED
  BY <1>1, <1>2, <1>3 DEF LogInv

\* A call never goes back to where it had no child or was not launched, and from the
\* launch on it gets to its end only by way of the child's.
LEMMA NoWayBack ==
  ASSUME Typed, Stages, [Next]_vars, NEW c \in Calls
  PROVE  /\ child'[c] = "none" => child[c] = "none"
         /\ phase'[c] = "idle" => phase[c] = "idle"
         /\ pc[c] \in {"spawn", "running"} /\ pc'[c] \in {"leave", "returned"}
              => phase'[c] # "idle"
<1> USE DEF Typed, TypeOK
<1>1. /\ child'[c] = "none" => child[c] = "none"
      /\ phase'[c] = "idle" => phase[c] = "idle"
  <2>1. CASE UNCHANGED <<phase, child>>
    BY <2>1
  <2>2. ASSUME NEW d \in Calls,
               GC!Spawn(d) \/ GC!Refuse(d) \/ GC!Settle(d) \/ GC!Finish(d)
               \/ GC!ChildGone(d) \/ GC!Notice(d)
        PROVE  <1>1
    BY <2>2 DEF GC!Spawn, GC!Refuse, GC!Settle, GC!Finish, GC!ChildGone, GC!Notice
  <2>3. ASSUME NEW d \in Calls,
               Refuse(d) \/ Begin(d) \/ MakeSchemaDir(d) \/ SchemaDirFails(d) \/ WriteSchemaFile(d)
               \/ SchemaFileFails(d) \/ BuildArgsFails(d) \/ Prepare(d) \/ Report(d) \/ Leave(d)
               \/ ReadSchema(d) \/ Line(d) \/ DiskFills \/ UNCHANGED vars
        PROVE  UNCHANGED <<phase, child>>
    BY <2>3 DEF Refuse, Begin, MakeSchemaDir, SchemaDirFails, WriteSchemaFile, SchemaFileFails,
                BuildArgsFails, Prepare, Report, Leave, ReadSchema, Line, DiskFills, vars, guardedVars
  <2>4. ASSUME NEW d \in Calls, Spawn(d) \/ Guarded(d) \/ ChildGone(d) \/ Notice(d)
        PROVE  \/ GC!Spawn(d) \/ GC!Refuse(d) \/ GC!Settle(d) \/ GC!Finish(d)
               \/ GC!ChildGone(d) \/ GC!Notice(d)
    BY <2>4 DEF Spawn, Guarded, ChildGone, Notice
  <2> QED
    BY <2>1, <2>2, <2>3, <2>4 DEF Next, Run
<1>2. pc[c] = "spawn" => pc'[c] \in {"spawn", "running"}
  <2>1. ASSUME NEW d \in Calls,
               Refuse(d) \/ Begin(d) \/ MakeSchemaDir(d) \/ SchemaDirFails(d) \/ WriteSchemaFile(d)
               \/ SchemaFileFails(d) \/ BuildArgsFails(d) \/ Prepare(d) \/ Report(d) \/ Leave(d)
               \/ Spawn(d)
        PROVE  <1>2
    BY <2>1 DEF Refuse, Begin, MakeSchemaDir, SchemaDirFails, WriteSchemaFile, SchemaFileFails,
                BuildArgsFails, Prepare, Report, Leave, Spawn, Goto
  <2>2. ASSUME NEW d \in Calls, ReadSchema(d) \/ Line(d) \/ Guarded(d) \/ ChildGone(d) \/ Notice(d)
                                \/ DiskFills \/ UNCHANGED vars
        PROVE  <1>2
    BY <2>2 DEF ReadSchema, Line, Guarded, ChildGone, Notice, DiskFills, vars
  <2> QED
    BY <2>1, <2>2 DEF Next, Run
<1>3. pc[c] = "running" => phase[c] # "idle"
  BY DEF Stages, StageInv
<1> QED
  BY <1>1, <1>2, <1>3

LEMMA LogsStep == Typed /\ Stages /\ Logs /\ [Next]_vars => Logs'
<1> SUFFICES ASSUME Typed, Stages, Logs, [Next]_vars, NEW c \in Calls PROVE LogInv(c)'
  BY DEF Logs
<1>1. LogInv(c) /\ req' = req
  BY ReadFrame DEF Logs
<1>2. log[c] \in Seq(Tags)
  BY DEF Typed, TypeOK, Tags
\* A step that leaves the log alone and the verdict, once a completion is logged.
<1>3. ASSUME UNCHANGED log[c],
             pc'[c] \in {"idle", "schema", "write", "args"}
               => pc[c] \in {"idle", "schema", "write", "args"},
             pc'[c] \in {"spawn", "running"} => pc[c] \in {"spawn", "running"},
             phase'[c] # "idle" => phase[c] # "idle" \/ pc[c] = "spawn",
             outcome'[c] = outcome[c] \/ pc[c] \in {"spawn", "running"}
      PROVE  LogInv(c)'
  <2>1. pc[c] \in Pcs
    BY DEF Typed, TypeOK
  <2>2. pc'[c] \in {"leave", "returned"} /\ phase'[c] = "idle" => log[c] = <<>>
    BY <1>1, <2>1, NoWayBack DEF LogInv, Pcs
  <2> QED
    BY <1>1, <1>3, <2>2, NoWayBack DEF LogInv
<1>4. ASSUME NEW d \in Calls,
             Refuse(d) \/ Begin(d) \/ MakeSchemaDir(d) \/ SchemaDirFails(d) \/ WriteSchemaFile(d)
             \/ SchemaFileFails(d) \/ BuildArgsFails(d) \/ ReadSchema(d) \/ Leave(d)
      PROVE  LogInv(c)'
  <2>1. UNCHANGED <<log, phase, outcome>>
    BY <1>4 DEF Refuse, Begin, MakeSchemaDir, SchemaDirFails, WriteSchemaFile, SchemaFileFails,
                BuildArgsFails, ReadSchema, Leave, guardedVars
  <2>2. \/ pc'[c] = pc[c] \/ pc'[c] \in {"leave", "returned"}
        \/ pc[c] \in {"idle", "schema", "write"} /\ pc'[c] \in {"schema", "write", "args"}
    BY <1>4 DEF Refuse, Begin, MakeSchemaDir, SchemaDirFails, WriteSchemaFile, SchemaFileFails,
                BuildArgsFails, ReadSchema, Leave, Goto, Typed, TypeOK
  <2> QED
    BY <1>3, <2>1, <2>2
<1>5. ASSUME NEW d \in Calls, Prepare(d) PROVE LogInv(c)'
  <2>1. UNCHANGED <<phase, outcome>> /\ phase[d] = "idle"
    BY <1>5 DEF Prepare, Goto, guardedVars, Stages, StageInv
  <2>2. CASE c = d
    <3>1. log'[c] = <<"start">> /\ pc'[c] = "spawn" /\ req[c].valid
      BY <1>5, <2>2 DEF Prepare, Goto, Typed, TypeOK
    <3>2. Len(<<"start">>) = 1 /\ <<"start">>[1] = "start" /\ DOMAIN <<"start">> = {1}
      OBVIOUS
    <3> QED
      BY <1>1, <2>1, <2>2, <3>1, <3>2 DEF LogInv
  <2>3. CASE c # d
    BY <1>3, <1>5, <2>1, <2>3 DEF Prepare, Goto, Typed, TypeOK
  <2> QED
    BY <2>2, <2>3
<1>6. ASSUME NEW d \in Calls, Spawn(d) PROVE LogInv(c)'
  <2>1. log' = log
    BY <1>6 DEF Spawn
  <2>2. CASE c = d
    BY <1>3, <1>6, <2>1, <2>2 DEF Spawn, Goto, Typed, TypeOK
  <2>3. CASE c # d
    BY <1>3, <1>6, <2>1, <2>3 DEF Spawn, Goto, GC!Spawn, GC!Refuse, Typed, TypeOK
  <2> QED
    BY <2>2, <2>3
<1>7. ASSUME NEW d \in Calls, Guarded(d) \/ ChildGone(d) \/ Notice(d) PROVE LogInv(c)'
  <2>1. UNCHANGED <<log, pc>>
    BY <1>7 DEF Guarded, ChildGone, Notice
  <2>2. phase'[c] # "idle" => phase[c] # "idle"
    BY <1>7 DEF Guarded, ChildGone, Notice, GC!Settle, GC!Finish, GC!ChildGone, GC!Notice,
                Typed, TypeOK
  <2>3. outcome'[c] = outcome[c] \/ pc[c] = "running"
    BY <1>7 DEF Guarded, ChildGone, Notice, GC!Settle, GC!Finish, GC!ChildGone, GC!Notice,
                Typed, TypeOK
  <2> QED
    BY <1>3, <2>1, <2>2, <2>3
<1>8. ASSUME NEW d \in Calls, Line(d) PROVE LogInv(c)'
  <2>1. UNCHANGED <<pc, phase, outcome>> /\ pc[d] = "running"
    BY <1>8 DEF Line, guardedVars
  <2>2. CASE c # d
    BY <1>3, <1>8, <2>1, <2>2 DEF Line, Typed, TypeOK
  <2>3. CASE c = d
    <3>1. \E u \in Seq(LineTags) : log'[c] = log[c] \o u
      <4>1. PICK t \in Events :
              log' = [log EXCEPT ![c] = @ \o (IF ~Streams(c) THEN <<>>
                                              ELSE IF IsClaude(c) THEN ClaudeTags(t)
                                              ELSE CodexTags(c, t))]
        BY <1>8, <2>3, ZenonT(60) DEF Line, Events
      <4>2. <<>> \in Seq(LineTags)
        OBVIOUS
      <4> QED
        BY <4>1, <4>2, LineTagSeqs DEF Typed, TypeOK
    <3>2. PICK u \in Seq(LineTags) : log'[c] = log[c] \o u
      BY <3>1
    <3>3. \A i \in DOMAIN u : u[i] \notin {"start", "done"}
      BY DEF LineTags
    <3>4. log[c] # <<>> /\ \A i \in DOMAIN log[c] : log[c][i] # "done"
      BY <1>1, <2>1, <2>3 DEF LogInv
    <3>5. /\ DOMAIN (log[c] \o u) = 1..(Len(log[c]) + Len(u))
          /\ \A i \in 1..Len(log[c]) : (log[c] \o u)[i] = log[c][i]
          /\ \A i \in DOMAIN (log[c] \o u) :
               i \in 1..Len(log[c]) \/ (i - Len(log[c]) \in DOMAIN u
                                         /\ (log[c] \o u)[i] = u[i - Len(log[c])])
      BY <1>2
    <3>6. Len(log[c]) \in Nat /\ DOMAIN log[c] = 1..Len(log[c]) /\ 1 \in 1..Len(log[c])
      BY <1>2, <3>4
    <3>7. \A i \in DOMAIN log'[c] : log'[c][i] # "done" /\ (log'[c][i] = "start" => i = 1)
      BY <1>1, <3>2, <3>3, <3>4, <3>5, <3>6, SMTT(30) DEF LogInv
    <3>8. log'[c] # <<>> /\ log'[c][1] = "start"
      BY <1>1, <3>2, <3>4, <3>5, <3>6 DEF LogInv
    <3>9. child'[c] # "none"
      BY <1>8, <2>3, NoWayBack DEF Line, Stages, StageInv
    <3> QED
      BY <1>1, <2>1, <2>3, <3>4, <3>7, <3>8, <3>9 DEF LogInv
  <2> QED
    BY <2>2, <2>3
<1>9. ASSUME NEW d \in Calls, Report(d) PROVE LogInv(c)'
  <2>1. UNCHANGED <<phase, outcome>> /\ pc[d] = "running" /\ phase[d] = "over"
    BY <1>9 DEF Report, Goto, guardedVars
  <2>2. CASE c # d
    BY <1>3, <1>9, <2>1, <2>2 DEF Report, Goto, Typed, TypeOK
  <2>3. CASE c = d
    <3>1. pc'[c] = "leave"
      BY <1>9, <2>3 DEF Report, Goto, Typed, TypeOK
    <3>2. \/ log'[c] = log[c]
          \/ log'[c] = Append(log[c], "done") /\ RunErr(c) = "none"
      BY <1>9, <2>3 DEF Report, Typed, TypeOK
    <3>3. CASE log'[c] = log[c]
      BY <1>3, <2>1, <3>1, <3>3
    <3>4. CASE log'[c] = Append(log[c], "done") /\ RunErr(c) = "none"
      <4>1. outcome'[c] = "ok"
        BY <2>1, <2>3, <3>4 DEF RunErr, Stages, StageInv
      <4>2. log[c] # <<>> /\ \A i \in DOMAIN log[c] : log[c][i] # "done"
        BY <1>1, <2>1, <2>3 DEF LogInv
      <4>3. /\ Len(log[c]) \in Nat /\ DOMAIN log[c] = 1..Len(log[c]) /\ 1 \in 1..Len(log[c])
            /\ Len(log'[c]) = Len(log[c]) + 1 /\ DOMAIN log'[c] = 1..(Len(log[c]) + 1)
            /\ \A i \in 1..Len(log[c]) : log'[c][i] = log[c][i]
            /\ log'[c][Len(log[c]) + 1] = "done"
        BY <1>2, <3>4, <4>2
      <4>4. log'[c] # <<>> /\ log'[c][1] = "start"
        BY <1>1, <4>2, <4>3 DEF LogInv
      <4>5. \A i \in DOMAIN log'[c] :
              /\ log'[c][i] = "start" => i = 1
              /\ log'[c][i] = "done" => i = Len(log'[c])
        BY <1>1, <4>2, <4>3 DEF LogInv
      <4>6. child'[c] # "none" /\ phase'[c] # "idle"
        BY <2>1, <2>3, <4>1, NoWayBack DEF Stages, StageInv
      <4> QED
        BY <1>1, <3>1, <4>1, <4>2, <4>4, <4>5, <4>6 DEF LogInv
    <3> QED
      BY <3>2, <3>3, <3>4
  <2> QED
    BY <2>2, <2>3
<1>10. CASE DiskFills \/ UNCHANGED vars
  BY <1>3, <1>10 DEF DiskFills, vars, guardedVars
<1> QED
  BY <1>4, <1>5, <1>6, <1>7, <1>8, <1>9, <1>10 DEF Next, Run

--------------------------------------------------------------------------------
(* The theorems.                                                           *)

\* What holds in every state, and from one state to the next.
IInv == Typed /\ Stages /\ FilesOwn /\ Answers /\ Logs /\ \A c \in Calls : OwnRead(c)

LEMMA Invariance == Spec => []IInv
<1>1. Init => IInv
  <2>1. Init => \A c \in Calls : OwnRead(c)
    BY DEF Init, OwnRead
  <2> QED
    BY <2>1, TypedInit, StageInit, FilesInit, AnswersInit, LogsInit DEF IInv
<1>2. IInv /\ [Next]_vars => IInv'
  BY TypedStep, StageStep, FilesStep, AnswersStep, LogsStep, OwnReadStep DEF IInv
<1> QED
  BY <1>1, <1>2, PTL DEF Spec

\* The variables keep their types; no two files of TempDir have one name.
THEOREM ProviderTypes == Spec => []TypeOK
<1>1. IInv => TypeOK
  BY DEF IInv, Typed
<1> QED
  BY <1>1, Invariance, PTL

\* The schema directory of a call's own is there while its child is, and gone when
\* the call has returned: where writeSchemaFile fails between the two it removes
\* it, and from there on the removal is deferred.
THEOREM ProviderSchemaDir == Spec => []SchemaDirLasts
<1>1. IInv => SchemaDirLasts
  <2> SUFFICES ASSUME IInv, NEW c \in Calls
               PROVE  /\ child[c] = "present" /\ ~IsClaude(c) /\ HasSchema(c) /\ ~req[c].dumps
                           => ephemeral[c]
                      /\ pc[c] = "returned" => ~ephemeral[c]
    BY DEF SchemaDirLasts
  <2>1. StageInv(c) /\ pc[c] \in Pcs /\ phase[c] \in {"idle", "running", "settled", "over"}
    BY DEF IInv, Stages, Typed, TypeOK
  <2>2. child[c] = "present" => pc[c] = "running"
    BY <2>1 DEF StageInv, Pcs
  <2> QED
    BY <2>1, <2>2 DEF StageInv
<1> QED
  BY <1>1, Invariance, PTL

\* The schema that codex opens is its own call's, unless a call whose files have
\* the same names has begun.
THEOREM ProviderSchema == Spec => []SchemaIsOwn
<1>1. IInv => SchemaIsOwn
  BY DEF IInv, OwnRead, SchemaIsOwn
<1> QED
  BY <1>1, Invariance, PTL

\* While the disk has room, a call of its own file names leaves an error dump if
\* and only if Run fails.
THEOREM ProviderTrace == Spec => []FailureLeavesTrace
<1>1. IInv => FailureLeavesTrace
  BY DEF IInv, FilesOwn, FileInv, HasMark, Mark, FailureLeavesTrace
<1> QED
  BY <1>1, Invariance, PTL

\* A nil error comes with the last answer of a child that ended well.
THEOREM ProviderAnswer == Spec => []AnswerIsFinal
<1>1. IInv => AnswerIsFinal
  BY DEF IInv, Stages, StageInv, Answers, AnswerInv, AnswerIsFinal
<1> QED
  BY <1>1, Invariance, PTL

\* An error comes with no text, but for the two exceptions below the front door.
THEOREM ProviderError == Spec => []NoAnswerWithError
<1>1. IInv => NoAnswerWithError
  BY DEF IInv, Stages, StageInv, Answers, AnswerInv, NoAnswerWithError
<1> QED
  BY <1>1, Invariance, PTL

\* The log of a call tells how far it came: a start line, first and once, for each
\* call that was not refused before the launch, whether the command started or not;
\* more than that only of a child; a completion line at the end of a good run only.
THEOREM ProviderLog == Spec => []LogPairsUp
<1>1. IInv => LogPairsUp
  <2> SUFFICES ASSUME IInv, NEW c \in Calls
               PROVE  /\ pc[c] = "returned" => (log[c] = <<>> <=> outcome[c] = "none")
                      /\ child[c] # "none" => log[c] # <<>>
                      /\ Len(log[c]) > 1 => child[c] # "none"
                      /\ \A i \in DOMAIN log[c] :
                           /\ log[c][i] = "start" <=> i = 1
                           /\ log[c][i] = "done" => i = Len(log[c]) /\ outcome[c] = "ok"
    BY DEF LogPairsUp
  <2>1. LogInv(c) /\ StageInv(c)
    BY DEF IInv, Logs, Stages
  <2>2. /\ pc[c] = "returned" => (log[c] = <<>> <=> outcome[c] = "none")
        /\ child[c] # "none" => log[c] # <<>>
    BY <2>1 DEF LogInv, StageInv
  <2>3. Len(log[c]) > 1 => child[c] # "none"
    <3>1. Len(log[c]) \in Nat
      BY DEF IInv, Typed, TypeOK
    <3> QED
      BY <2>1, <3>1 DEF LogInv
  <2>4. \A i \in DOMAIN log[c] : log[c][i] = "start" <=> i = 1
    <3>1. log[c] = <<>> => DOMAIN log[c] = {}
      OBVIOUS
    <3> QED
      BY <2>1, <3>1 DEF LogInv
  <2> QED
    BY <2>1, <2>2, <2>3, <2>4 DEF LogInv
<1> QED
  BY <1>1, Invariance, PTL

--------------------------------------------------------------------------------
(* How many steps of its own a call has left.                              *)

RunSteps ==
  [idle |-> 7, schema |-> 6, write |-> 5, args |-> 4, spawn |-> 3, running |-> 2, leave |-> 1,
   returned |-> 0]

PhaseSteps == [idle |-> 3, running |-> 2, settled |-> 1, over |-> 0]

StepsLeft(c) == RunSteps[pc[c]] + PhaseSteps[phase[c]]

Moves(c) == Refuse(c) \/ Begin(c) \/ Run(c)

MovesOn(c) ==
  /\ \A d \in Calls \ {c} : pc'[d] = pc[d] /\ phase'[d] = phase[d]
  /\ \/ RunSteps[pc'[c]] < RunSteps[pc[c]] /\ phase'[c] = phase[c]
     \/ pc'[c] = pc[c] /\ PhaseSteps[phase'[c]] < PhaseSteps[phase[c]]
     \/ /\ RunSteps[pc'[c]] < RunSteps[pc[c]]
        /\ PhaseSteps[phase'[c]] < PhaseSteps[phase[c]]

LEMMA OwnStepMovesOn ==
  ASSUME Typed, NEW c \in Calls, Moves(c)
  PROVE  MovesOn(c)
<1> USE DEF Typed, TypeOK, Goto, MovesOn, guardedVars
<1>0. CASE Refuse(c) \/ Begin(c)
  BY <1>0 DEF Refuse, Begin, RunSteps
<1>1. CASE MakeSchemaDir(c) \/ SchemaDirFails(c) \/ WriteSchemaFile(c) \/ SchemaFileFails(c)
  BY <1>1 DEF MakeSchemaDir, SchemaDirFails, WriteSchemaFile, SchemaFileFails, RunSteps
<1>2. CASE BuildArgsFails(c) \/ Prepare(c) \/ Report(c) \/ Leave(c)
  BY <1>2 DEF BuildArgsFails, Prepare, Report, Leave, RunSteps
<1>3. CASE Spawn(c)
  BY <1>3 DEF Spawn, GC!Spawn, GC!Refuse, RunSteps, PhaseSteps
<1>4. CASE Guarded(c)
  BY <1>4 DEF Guarded, GC!Settle, GC!Finish, PhaseSteps
<1> QED
  BY <1>0, <1>1, <1>2, <1>3, <1>4 DEF Moves, Run

\* What the child prints and reads, its exit, an interrupt and the disk leave the
\* calls where they are.
LEMMA OthersDoNotMove ==
  ASSUME [Next]_vars, \A c \in Calls : ~Moves(c)
  PROVE  UNCHANGED <<pc, phase>>
<1>1. CASE DiskFills \/ UNCHANGED vars
  BY <1>1 DEF DiskFills, vars, guardedVars
<1>2. ASSUME NEW c \in Calls, ReadSchema(c) \/ Line(c) \/ ChildGone(c) \/ Notice(c)
      PROVE  UNCHANGED <<pc, phase>>
  BY <1>2 DEF ReadSchema, Line, ChildGone, Notice, GC!ChildGone, GC!Notice, guardedVars
<1> QED
  BY <1>1, <1>2 DEF Next, Moves

\* For any number of calls and requests: a call takes no more than ten steps of its
\* own, each of which counts, and nothing that its child, another call, an interrupt
\* or a full disk does sets it back: the only thing of unbounded length in a call is
\* its child.
THEOREM ProviderTakesFewSteps ==
  Spec => /\ [](\A c \in Calls : StepsLeft(c) \in 0..10)
          /\ [][\A c \in Calls :
                  IF Moves(c) THEN StepsLeft(c)' < StepsLeft(c)
                  ELSE UNCHANGED <<pc[c], phase[c]>>]_vars
<1>1. ASSUME IInv, NEW c \in Calls PROVE StepsLeft(c) \in 0..10
  BY <1>1 DEF IInv, Typed, TypeOK, Pcs, RunSteps, PhaseSteps, StepsLeft
<1>2. ASSUME IInv, IInv', NEW c \in Calls, Moves(c)
      PROVE  StepsLeft(c)' < StepsLeft(c)
  <2>1. MovesOn(c)
    BY <1>2, OwnStepMovesOn DEF IInv
  <2>2. /\ RunSteps[pc[c]] \in Nat /\ PhaseSteps[phase[c]] \in Nat
        /\ RunSteps[pc'[c]] \in Nat /\ PhaseSteps[phase'[c]] \in Nat
    <3>1. /\ pc[c] \in Pcs /\ phase[c] \in {"idle", "running", "settled", "over"}
          /\ pc'[c] \in Pcs /\ phase'[c] \in {"idle", "running", "settled", "over"}
      BY <1>2 DEF IInv, Typed, TypeOK
    <3> QED
      BY <3>1 DEF Pcs, RunSteps, PhaseSteps
  <2> QED
    BY <2>1, <2>2 DEF MovesOn, StepsLeft
<1>3. ASSUME IInv, [Next]_vars, NEW c \in Calls, ~Moves(c)
      PROVE  UNCHANGED <<pc[c], phase[c]>>
  <2>1. CASE \E d \in Calls : Moves(d)
    BY <1>3, <2>1, OwnStepMovesOn DEF IInv, MovesOn
  <2>2. CASE \A d \in Calls : ~Moves(d)
    BY <1>3, <2>2, OthersDoNotMove
  <2> QED
    BY <2>1, <2>2
<1>4. IInv => \A c \in Calls : StepsLeft(c) \in 0..10
  BY <1>1
<1>5. IInv /\ IInv' /\ [Next]_vars =>
        [\A c \in Calls :
           IF Moves(c) THEN StepsLeft(c)' < StepsLeft(c)
           ELSE UNCHANGED <<pc[c], phase[c]>>]_vars
  BY <1>2, <1>3
<1> QED
  BY <1>4, <1>5, Invariance, PTL DEF Spec
================================================================================
