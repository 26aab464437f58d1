# aclio-go: specifications, model checking and proofs

aclio-go drives agentic command-line tools (claude, codex) as detached child
processes. This directory holds TLA+ specifications of it, the TLC
configurations that check them on small instances, and TLAPS proofs of the
properties that matter most for instances of any size.

    tlc -config guard_pair.cfg MC_CliExec       model-check one run
    tlapm CliExecProofs.tla                     check the proofs

## The system

| component | state it keeps | operations | interacts with |
|---|---|---|---|
| `internal/cliexec` calls and guard (`exec.go`, `proc_*.go`) | per call: the child, the interrupt guard (channel, `done`, `stopped`, `interrupted`) | `Capture`, `Stream`, `newInterruptGuard`, `run`, `reap`, `stop` | the kernel (processes, groups, pipes), `os/signal`, the other calls of the host |
| `internal/cliexec` line reader (`Stream`'s loop) | the bytes read and not yet delivered | read, trim, `onLine`, `Wait` | the child's stdout and stdin pipes, `os/exec`'s copying goroutine |
| `internal/cliexec` debug dumps and log (`debug.go`, `log.go`) | files under `TempDir`, `LogWriter` | `DebugStamp`, `DebugName`, `WriteDebugFile`, `Logf` | every run of a provider |
| `claude`, `codex` | per run: options, arguments, the last result event or the accumulating `RunResult` | `Run`, `buildArgs`, `writeSchemaFile`, `runStream`, `RunStructured` | cliexec, dumps, jsonschema |
| `aclio` | none | `Run`, `RunStructured`, option and result mapping | claude, codex, jsonschema |
| `jsonschema` | the set of struct types being visited | `FromType`, `UnionOf`, `Validate` | the providers |
| `prompt` | none | `Render`, `RenderStrict` | the caller |
| `terminal` | raw mode, the line and its start, buffered keys | `ReadLine`, `readEscape`, `readPaste` | the tty |
| `internal/cliinstall`, `claudeinstall`, `codexinstall` | files, the process's `PATH` | `Ensure`, `Install`, `Find`, `DownloadScript` | the network, the environment |

What is hard in it, component by component, and what makes it correct:

- **calls and guard.** Three goroutines per call (caller, guard, os/exec's
  copy), the child's process tree, signals at any time, a 3 s timer, numbers
  that the kernel reuses. Correct means: the guard is scoped to its run; a kill
  it makes is reported as `ErrInterrupted`; it kills nobody else; a success has
  all its output; calls do not disturb each other's protection from signals; an
  interrupt ends the call; teardown never blocks.
- **line reader.** Any cut of the output into writes and reads, lines longer
  than any buffer, two bounded pipes and three parties that block. Correct
  means: exactly the output's non-empty lines, in order; no circular wait.
- **dumps.** Files named by a millisecond stamp and a normalised name. Correct
  means: as long as no other call has the same stamp and name, a call's files
  are its own, the schema file that the CLI reads among them.
- **providers, front door.** Correct means: the result is that of the last
  result event of a child that exited well, and only then; every failed call
  leaves its error dump; the schema directory of a call outlives its child and not
  the call; the log tells how far a call came. (A `[start]` line marks a call that
  was not refused before the launch. claude.go:176 and codex.go:192 take it for
  proof of a launched process, but the command may fail to start after it.)
- **jsonschema.** Correct means: the walk ends on every type, also a recursive
  one, and describes and requires what encoding/json emits; a merged field has the
  type, the enum values and the descriptions of all variants that have it. (Of a
  nested schema it has the first variant's only, so a union need not accept what
  each of its variants does.)
- **prompt, terminal, installers.** Substitution in one pass with all failures
  reported; raw mode always restored, a key sequence decoded alike however it
  arrives; `prependPath` takes no directory off `PATH` but in a race of two calls;
  no temp file stays behind.

`PROJECT.json` lists every component with its status, and every hazard with
its line and the properties that would catch it going wrong.

## Modules

| module | models |
|---|---|
| `GuardedCall` | abstract specification: what one call of `Capture`/`Stream` promises its caller |
| `CliExec` | the calls, their guards, the process trees, the host's signals; the properties; the refinement mapping `GC` to `GuardedCall` |
| `CliExecProofs` | the inductive invariant and the theorems about `CliExec` |
| `MC_CliExec` | instances of `CliExec`, and what comments and README of the repository say where the code does otherwise |
| `StreamLines` | the line reader of `Stream` and the two pipes of its child |
| `StreamLinesProofs` | the order of the bytes, the lines delivered and that nobody waits in a circle, for pipes and outputs of any size |
| `ProviderRun` | `claude.Run`, `codex.Run` and `aclio` above them: concurrent calls on top of `GuardedCall`, with their dumps, log, events and answers |
| `ProviderRunProofs` | the inductive invariant and the theorems about `ProviderRun` |
| `MC_ProviderRun` | pairs of requests for `ProviderRun` |
| `Terminal` | `terminal.ReadLine`, called again and again on one stdin |
| `TerminalProofs` | raw mode, the line that backspace edits and the decoding, for any terminal and keys |
| `Installer` | `Ensure` and `Install` in concurrent goroutines, and the process's `PATH` |
| `InstallerProofs` | what `PATH` can lose and what a returned binary resolves to, for any number of calls |
| `PromptRender` | `prompt.Render` and `RenderStrict` |
| `PromptRenderProofs` | verdict, unreplaced placeholders, the debug rendering and the single pass, for any template and params |
| `SchemaGen` | the walk of `jsonschema.FromReflectType` over a graph of types |
| `SchemaGenProofs` | the marks of the walk, its verdict, the root object and the depth of the stack, for any type graph |
| `UnionOf` | `jsonschema.UnionOf` |
| `UnionOfProofs` | its verdict and what the union keeps, for any variants |
| `MC_Library` | instances of `Terminal`, `Installer`, `PromptRender`, `SchemaGen` and `UnionOf`, one per behaviour, and what the repository says of them where the code does otherwise |

Definitions marked "mutant" are wrong on purpose: a plausible bug in the
definition that follows them. Putting one in the place of that definition
violates the property that `PROJECT.json` pairs it with; nothing else uses them.

### CliExec and the code

| variable | in the code |
|---|---|
| `pc`, `scanErr`, `result` | where the goroutine of `Capture`/`Stream` is, its `scanErr`, the class of the error it returns |
| `guard`, `sigs`, `registered`, `done`, `interrupted` | where `run`/`reap` is, what is buffered in `g.sigs`, whether `signal.Notify` holds the channel, whether `g.done` is closed, `g.interrupted` |
| `leader`, `pid`, `status` | the direct child, its number (also its session's and group's, by Setsid), how it ended |
| `group`, `holders` | its live descendants that `kill(-pid)` reaches, and those that hold its stdout open |
| `hostUp`, `nsig`, `heard` | the host process; signals it received; history: signals offered to the call's channel while its child was alive |

One action is one step that another party can observe: a system call, a channel
operation, a load or store of an atomic. `Start`, `NewInterruptGuard`,
`ReadEOF`/`ReadFails`, `WaitProcess`, `WaitCopy`/`CopyFails`,
`CheckInterrupted`, `StopNotify`, `CloseDone`, `JoinGuard` follow the two
functions from the spawn through the deferred `stop`; `Capture` differs from
`Stream` in where the wait for stdout sits (inside `cmd.Wait` or before it) and
in which error wins. `RunSignal` ... `KillDetached` are the guard goroutine; a
`select` is one action per case, and any ready case may be taken. `cmd.Wait` is
two steps, because `wait(2)` frees the child's number before the copy of stdout
ends. `stop` is three.

Modelled from how the code uses it, and external to it: process groups, reuse
of numbers (a number is free when its leader has been waited for and its group
is empty), `signal.Notify` (never blocks, drops what a full channel cannot
take, default action when nobody is registered), EOF on a pipe. The host is
taken to install no signal handler of its own. The polite SIGINT forces
nothing: whatever it reaches may exit, at any time, or not.

Left out: the bytes (StreamLines), stdin in the calls with helpers (a helper
that inherits stdin), panics of `onLine`, `stderr`, the wording of errors, and
a helper that leaves the group but not the session (it is covered by `Escape`,
except that it keeps the number in use).

### StreamLines and the code

`loop` is where `Stream` stands, `buf` what `bufio.Reader` and `ReadString`
hold, `lines` what `onLine` got. `Fill` is a read of any size, `TakeLine` a
`ReadString` that found its newline, `ReadEOF` and `ReadFails` its two errors,
each with the rest of the buffer delivered first, so that after a failed read the
beginning of a line is handed out as a line. The child reads its prompt
and writes its output in any order and in any portions, one at a time, and
blocks in each; os/exec's goroutine feeds the prompt. `CliExec` has `ReadEOF`
and `ReadFails` as one step each.

### ProviderRun and the code

`ProviderRun` takes a call of `cliexec` as `GuardedCall` specifies it, which
`CliExec` is shown to implement: `Spawn`, `Guarded`, `ChildGone` and `Notice`
are its steps, and what a provider adds is between them.

| variable | in the code |
|---|---|
| `pc`, `req` | where `Run` is; the request with its options, of which only what steers the control is kept |
| `stamp`, `files`, `disk` | `DebugStamp`; the files in `TempDir`, each with its writer and whether it is whole; whether writes succeed |
| `ephemeral`, `deferred` | does the directory of `os.MkdirTemp` exist that `writeSchemaFile` made; has `Run` deferred its removal? |
| `lines`, `read` | history: the events that the child printed, whose schema it found |
| `last`, `thread` | the event that `lastResultLine`, `result.FinalText` and `result.ThreadID` come from |
| `log` | the lines written by `Logf`, by kind |
| `text`, `err` | what the call returns |
| `phase`, `child`, `noticed`, `outcome` | `GuardedCall` |

A line of output is an event type, and a text is the set of the numbers of the
lines that it consists of, so that "the answer" can be told from another event.
`Begin` is the stamp; `MakeSchemaDir` and `WriteSchemaFile` are the two halves of
`writeSchemaFile`, `SchemaDirFails` and `SchemaFileFails` its two errors: the second
removes the directory itself, because the cleanup is deferred only once there is a
file. `BuildArgsFails` and `Prepare` lead up to the spawn; `Line` is the callback of the two
`runStream`s; `Report` is what both do after the run; `Leave` is the deferred
cleanup and the caller's side (`RunStructured`, `aclio.Run`). Files written one
after the other by one call, with nothing of the call's own in between, are one
step: another call can write the same names only if its stamp and name are the
same, and then the properties claim nothing. The clock may stand still or be
set back between two calls, because Go formats the wall clock.

Left out: how names are normalised (`DebugName` is any map of names to names),
names with `..` in them, which arguments `buildArgs` refuses (one bit of the
request), token counts (whether a completion line is written is left open where
it depends on them), the wording of log lines and the fields of results.

### Terminal and the code

A key sends its bytes at once (`Press`), `Fill` is one `read(2)` of the shared
`bufio.Reader`, and every other action consumes one byte as `readLineRaw`
(`Control`, `Edit`, `Escape`), `readEscape` (`EscapeByte`, `CsiByte`),
`readPaste` (`PasteByte`) or `readLinePlain` (`PlainByte`) does, `reader` being
the function that wants the byte. A byte is named by what it is; digits of a
parameter are one byte, and `tab` stands for the control bytes that `readLineRaw`
ignores. Between two reads the terminal is in its normal mode,
so the keys typed ahead there are plain ones. What the keys send under the
extensions is modelled from what the code asks the terminal for.

`DecodesKeys` compares with what the keys mean, one after the other (`Meaning`,
by `After`: what a key does to the submission).
`garbled` marks the two cases that a byte stream cannot tell apart: a read that
ended right behind an ESC, and bytes that arrived with a lone ESC.

### Installer and the code

`Look`, `FindInDir`, `NotInDir` and `PrependPath` are `Find` and `FindInstalled` in
the two orders that `fresh` selects. `prependPath` is two steps, the read of `PATH`
and its write, because another goroutine may run in between. `DownloadScript` is the
creation of the temp file (`CreateTemp`) and the copy into it (`Copied`), or one of
the errors before and after it exists (`DownloadFails`, `CopyFails`, which removes
it); once it returns, `Install`'s deferred removal is part of every return
(`Returns`). What stands in `PATH` at the start, which files exist and what the
installer leaves behind are open. An entry of `PATH` that is empty, and the two
names of a binary on windows, are left out.

### PromptRender, SchemaGen, UnionOf and the code

`PromptRender` has the range loop over the params in any order, then the two
substitutions and the leftovers. A key stands for its placeholder.

`SchemaGen` has the call stack of `schemaFor` and `addStructFields` as a
variable: `Element`, `EnterStruct` and `WalkField` push, `Leaf`, `EndList` and
`EndStruct` return, `Fails` unwinds. The set `visiting` and its deferred
deletes, the properties and the required names of the root object are the
state. A stack of `MaxDepth` frames is an overflow. An embedded struct is
flattened whatever options its tag has. Two things are not seen: a type switch on
`time.Time` and on marshalers (a leaf, not embedded), and a pointer type that
is defined as a pointer to itself, on which `Deref` goes round without a frame,
as the loop in the code does.

What the schema is compared with is encoding/json's own rule (`Emitted`): of the
fields of one name it emits the shallowest, and none of several that are equally
shallow. The rule has one more part, that a tag decides between equally shallow
fields; it is left out, and such fields count as clashing (`Clashes`).

`UnionOf` starts from the property maps that the walk makes of its variants and
merges them name by name, in any order, as a Go map hands them out. A property is
its type, its enum, its description and the rest of its schema as one value
(`nested`), since `mergeProperty` keeps that of the first variant whatever is in it.

## Runs

| run | question | result |
|---|---|---|
| `guard_pair` | unix; one Capture and one Stream, one helper name each, helpers may escape, two process numbers, two signals | all seven properties hold (3.0 M states) |
| `guard_windows` | the windows code: no polite signal, no grace window, kill by handle; reads may fail; one signal | `OwnKillReportsInterrupted`, `ImplementsGuardedCall` hold (1.2 M states) |
| `guard_liveness` | fair goroutines, reads may fail, no escapes, one signal, one process number (0.35 M states) | `SignalEndsCall`, `CallReturnsOnceTreeIsGone` hold |
| `stream_lines` | prompt 2 over a stdin pipe of 1, output up to 5 over a stdout pipe of 3, writes up to 4, reads may fail | `LinesDelivered`, `BytesInOrder`, `CallEnds` hold (0.2 M states) |
| `provider_run` | two calls side by side, of five pairs of requests: two codex runs whose files are alike, claude with and without `Stream`, `RunStructured`, the front door, refused calls; a clock of two readings; up to two lines of output | all seven properties hold (6.3 M states) |
| `library` | `Terminal`: four keys of four kinds of input, a read buffer of 5; `Installer`: three calls, two binaries, three directories; `PromptRender`: templates of up to 3 tokens; `SchemaGen`: every pair of definitions of two types with up to two fields each; `UnionOf`: up to three variants | all sixteen properties hold (1.0 M states) |
| `doc_reported` | is an interrupt that arrives while the child runs always reported? | no: the child exits, the verdict is taken before the guard has stored its flag |
| `doc_tree` | is the whole tree gone when an interrupted call returns? | no: a child that obeys the SIGINT ends the grace window for helpers that do not |
| `doc_windows` | does an interrupt end the call on windows? | no: a grandchild that holds stdout keeps the call reading, with its guard gone and its channel still registered |
| `doc_ctrl_c` | does ctrl+c interrupt every read? | no: under the extensions that the read turns on, it arrives as a sequence that the decoder ignores |
| `doc_recursion` | do recursive types return an error? | no: `type A []A` runs out of stack |
| `doc_shadow` | does an outer field win over a promoted one of its name, as in encoding/json? | no: the later one in field order does |

The properties, in words, stand before their formulas. `GuardScoped`,
`OwnKillReportsInterrupted`, `OkMeansWholeOutput`, `SparesOthers`,
`GuardedCallsShieldHost` and `ImplementsGuardedCall` are about the races
between call, guard, timer, exit and signal.

`SparesOthers` is as strong as the code allows: the timer can fire after
`Wait` has freed the number and before `stop` closes `done`, and a SIGKILL to a
reused number does reach another call's child in the model. The property says
that this is the only way. It is a property of unix: the kill of windows goes by
the child's handle, in the model by definition, and there is nothing to check.

Of `stream_lines`: `BytesInOrder` says at every moment, and also when a read
fails, that the lines handed out are the lines of the first bytes of the output,
and that reader and pipe hold the rest.

Of `provider_run`: `AnswerIsFinal`, `NoAnswerWithError` and `LogPairsUp` relate
what a call returns and logs to all that its child printed and how it ended;
`FailureLeavesTrace` and `SchemaIsOwn` are about files that concurrent calls
may share, and are claimed for calls that no other call is alike
(`SameFiles`). codex.go:157 says of the schema file that concurrent runs do not
overwrite each other; the model shows that within one millisecond they do, and
`SchemaIsOwn` says that this is the only way. `SchemaDirLasts` is about the
directory of a call without `TempDir`, whose removal is at first in
`writeSchemaFile`'s own hands and then deferred. `LogPairsUp` is what the log does
tell: a start line is there, first and once, exactly for the calls that passed
their checks, also when the command then does not start; anything after it means a
child. That is less than claude.go:176 and codex.go:192 say of the line.

Of `library`: `WalkEnds` and `VerdictExact` together say when the walk of a
type ends, and that it refuses exactly the recursive and the unsupported ones;
`RootHasItsFields` says that the schema of a struct describes every field that
encoding/json emits, exactly where no names clash, and that where they do it says
more: it describes fields that are not emitted, and requires a name if any field of
that name is required. `MergedField` says of a merged field what union.go:15-17 says
of it, and of its nested schema that it is the first variant's, whatever the later
ones say. `FoundResolves` claims nothing of calls that overlap, nor of a file that is
not executable. `PathKeepsDirs` bounds what the race in `prependPath` can lose.

**Bounds.** Two calls are the least at which guards, registrations and numbers
interact, and every property speaks of at most two. Two signals are the least that
reach the second-interrupt case (`GraceSignal`) and the loss of a signal in the full
channel. With two numbers the calls overlap freely and a number is reused; in
`guard_liveness` one number keeps the graph small, so that the calls overlap only in
their teardown. One helper name per child: a helper that exits may be forked again.
A pipe of three bytes, with writes of four, makes the child block in a write, and
lets a read bring two lines at once; a stdin of one byte, with a prompt of two,
blocks the copy. In `provider_run` two calls with one name between them and two
clock readings make names collide and differ; one call prints up to two lines,
enough for an answer before, after and on top of another event; the second call
prints none, since the calls share only the files and the disk. In `library` a read
buffer of five is shorter than a paste and cuts its sequences anywhere, and four
keys reach a second line, its backspaces and a second submission; three installs are
two of one binary and one of another; two types with two fields each reach direct
and mutual recursion, recursion through a field, an element, a pointer and an
embedded struct, and a struct met twice; with eight frames no walk of theirs that
ends is cut off (`WalkEnds` would fail); three variants let a conflict sit between
first and last. The five parts of `library` share no variable: a behaviour belongs
to one of them, which the run chooses at its start. `CHECK_DEADLOCK FALSE`, because
the system stops when its calls have returned. Numbers are interchangeable, hence
the symmetry (safety runs only).

**Fairness.** `FairSpec` of `CliExec` assumes that a goroutine that can run
does (Go's scheduler), which includes that the grace timer fires; a failing
read is never forced. Nothing is assumed of the child, its helpers, the user or
the caller. `FairSpec` of `StreamLines` assumes also that the child goes on
while it is not blocked and exits when it is done. `SchemaGen` assumes weak
fairness of `Step`, since the walk is sequential code. `ProviderRun` has safety
properties only.

## Proofs

### CliExecProofs

`CliExecProofs` proves for all sets of calls, helpers and numbers, any number
of signals, both platforms, from `ConstAssumption` alone (`NoPid` is no number,
`Streams` are calls, the switches are Booleans):

- `Typing`: `TypeOK`;
- `Inductive`: the invariant `IInv`;
- `Scoped`, `OwnKillReported`, `WholeOutput`: the three safety invariants;
- `OthersSpared`, `HostShielded`: the two action properties;
- `Implementation`: `CliExec` implements `GuardedCall`.

None of the invariants is inductive alone. `IInv` adds: how the program
counter, the child and the guard go together (`LeaderInv`, `GuardInv`,
`RegisteredInv`), what is known of a tree (`TreeInv`), at most one tree in use
per number (`PidExclusive`, which is what `OthersSpared` rests on), that every
killed child shares its number with a guard whose flag is up (`KillExplained`,
from which `OwnKillReported` follows when the verdict finds its own flag down),
and that past the end of the stream nobody can write any more (`DrainedInv`).
Each part has a lemma with one step per action that disturbs it. The refinement
maps six actions to the six abstract ones, one lemma each, and shows that every
other step leaves what the caller sees.

Four theorems are what `SignalEndsCall` and `CallReturnsOnceTreeIsGone` say
without time, the guards of the actions spelled out (`CallCanStep`,
`GuardCanStep`):

- `CallsGoOn`: a call in progress or its guard can go on, or the call waits for
  its child or for a holder of its stdout;
- `HeardSignalsGoOn`: after a heard signal it can only wait for a holder that the
  guard's kill does not reach: on unix one that left the session, on windows any
  but the child itself, which is the finding of `doc_windows`;
- `CallsTakeFewSteps`: call and guard have at most fifteen steps, every own step
  uses one up and nobody else's step gives one back;
- `TurnsAreNotTakenAway`: what a goroutine can do it can do until it moves.

They need one more invariant, `Heard`: a heard signal is in the channel while the
guard is in its select, `done` is closed only by the last steps of the call, and a
guard that ended before that has raised the flag, killed the child and, on unix,
emptied the group. `OnlyALateGuardGoesUnreported` follows from it too: the finding of
`doc_reported` has no other form than a guard that has not received its signal or
not stored the flag when the call looks.

### ProviderRunProofs

For all sets of calls, requests, names and event types, any way names are
normalised and any number of lines, from `CallAssumption` alone (the requests
have their type, `DebugName` maps names to names, the lines a child prints are
bounded, `start` and `done` are no events of a child):

- `ProviderTypes`: `TypeOK`;
- `ProviderAnswer`, `ProviderError`: what is returned, `AnswerIsFinal` and
  `NoAnswerWithError`;
- `ProviderTrace`, `ProviderSchema`: the files, `FailureLeavesTrace` and
  `SchemaIsOwn`;
- `ProviderSchemaDir`, `ProviderLog`: the schema directory and the log,
  `SchemaDirLasts` and `LogPairsUp`.

`IInv` has six parts, each with its own lemma. `Stages`: how the stage of a
call, its child, its schema directory and the state of `GuardedCall` go together;
past `writeSchemaFile` a directory that is there has its removal deferred.
`FilesOwn`: a call
that is alone with its file names has its whole schema file from
`WriteSchemaFile` on, and its error dump exactly after a failure; it rests on
`OtherDump` (what another call writes has other names) and on `AloneBack` (a
call that is alone after a step was alone before it, so that the claim can be
carried forward). `OwnRead`: what the child found, from `FilesOwn` at the
moment of the read. `Answers`: `last` and `thread` are the numbers of the last
events of their type, at every moment, not only at the end (`FinalAppend` is
the step of one line). `Logs`: the shape of the log at each stage; it rests on
`NoWayBack`, that a call does not return to where it had no child or was not
launched.

`ProviderTakesFewSteps`: a call has at most ten steps of its own and nothing that
its child, another call or the disk does sets it back.

### StreamLinesProofs

`StreamTypes`, `StreamInOrder` and `StreamDelivers`: `TypeOK`, `BytesInOrder`
and `LinesDelivered` for every capacity, prompt, write and output, from
`SizesAssumption` (the pipes hold at least a byte). `IInv` says that what was
written is something gone, then `buf`, then the pipe (`InOrder`, which needs no
index and so survives an append and a cut through `Associative` and `CutAndJoin`
alone). The loop's arithmetic sits in `FirstNewlineIs` and `TrimRightIs`: what the
two searches return, by the least and the greatest member of a set of positions
(`Extremes`, from well-foundedness of `<`).

`BytesInOrder` and `LinesDelivered` need a second invariant, `Delivered`: while the
loop reads, there is a place `n` behind a newline of the output (or at its start)
such that `lines` is what ends before `n` (`Ended(written)[n]`, the reference
decoder after `n` bytes) and the output from `n` on is `buf`, then the pipe. A write
leaves the decoder's value at `n` alone, `Fill` only moves bytes from the pipe to
`buf`, `TakeLine` moves `n` to the newline that it found, between which and the old
place the decoder adds nothing. When the loop ends, at EOF or with a failed read,
the rest of `buf` is handed out as the last line of the bytes that have left the
pipe (`AllHandedOut`); at EOF these are all. While it reads, the first `n` bytes
have the lines that the decoder ended (`LinesUpTo`).

Of `CallEnds` all but the fairness is proved. `NoCircularWait`: while the call
runs, the child, the goroutine that copies the prompt or the read loop can go on,
whatever the sizes; the one exception is a read that failed and left the child
writing to a full pipe (`Abandoned`). `EveryStepIsProgress`: the bytes and steps
left (`Left`) are a natural number that every step lowers. `TurnsAreNotTakenAway`:
none of the three disables another, so that weak fairness is enough. The invariant
`Waits` says when each of them has come to its end.

### SchemaGenProofs

For every type graph whose types are made of types of the graph
(`GraphAssumption`) and any `MaxDepth`:

- `MarksAreOpenCalls`: `VisitingIsOpen`. The invariant `SInv` adds that only a
  frame of a struct's fields is marked. `PushUnmarked`, `PushMarked` and
  `Popped` say what a frame does to the marks, so that each step is one of the
  three, or a pop and a push.
- `VerdictIsExact`: `VerdictExact`. A type is `Sound` if nothing it leads to is
  unsupported or leads back to itself, and is so once all the types it leads to
  are (`SoundBySuccessors`). The invariant `VInv` is that all that a frame has
  walked is sound (`Ready`), and that the stack is a `Chain`: each frame's type
  leads to those above it, and a frame is ready as soon as the next one's type
  is found sound. An error is then a proof of a cycle, for the type at hand is
  marked lower in the chain; and when the last frame is popped the root is sound.
- `RootIsComplete`: `RootHasItsFields`. What encoding/json emits is among the
  `Candidates`, the fields with a name of the root and of the structs flattened into
  it (`CandidatesHavePlaces`), and where a name does not clash it has one candidate.
  `RInv` is that nothing else is ever put
  into the root's properties (`Bounded`), that all a frame of the root's fields
  has passed is in them (`Handled`, `Covered`), but for the one struct that is
  being flattened, whose frame lies directly above (`FlatStack`). Properties are
  never taken back (`Grows`), so what is covered stays covered.

- `OnlyRepeatedNamesAreShadowed`: by `OfFields` a property of the root has the
  type of a candidate of its name, so that the finding of `doc_shadow` needs
  two fields of one name and different types.
- `StackIsBounded`: on a finite type graph of n types, with no way back to a type
  past no marked struct, the stack holds at most 1 + (n + 1) * n frames.
  `DInv` says that the stack is a path of the graph (`Linked`). Two frames of one
  type with no mark from one to the other would be such a way back, and a struct is
  marked once, so that the last marked struct and the type tell the frames apart:
  there are no more frames than such pairs.
- `OnlyUnguardedOverflows`, from `Roomy` (the graphs are finite and `MaxDepth` is
  above that number; Go's limit is a gigabyte of stack, so this is a hypothesis
  about how many types lead to each other, not about the code): the walk runs out
  of stack only on the types of `doc_recursion`'s finding.

The sets of types that a type leads to are least fixed points (`From`), of which
the proofs use only what `Reaches` says.

### UnionOfProofs

For every list of variants whose properties have a type, enum values, a
description and a nested schema (`VariantAssumption`):

- `UnionIsExact`: `UnionVerdict`. `Agreed` is the invariant of the two nested
  loops: what has been merged has the type that each variant gives it, and
  nothing else is in `merged`; so a conflict with `merged` is a conflict with a
  variant.
- `UnionMergesFields`: `MergedField`. `KeptAll` says of every name in `merged` that
  it holds what the variants merged so far say of it (`Holds`): all enum values
  and no other, in the order first seen (`Ordered`), all descriptions, the first
  variant's nested schema.
  `HoldsFirst` is the first variant's property and `HoldsMore` one more; what
  the loop of `mergeProperty` over the values returns is `UnitedIs`.

### InstallerProofs

For any number of calls, any `PATH` and any files, from `InstallAssumption`
(the directories of `PATH` and the installers' own are on the disk, and `NoDir`
is no directory):

- `InstallTypes`: `InstallTypeOK`, from `Typed` and `ScriptLives` (the temp file
  of a script, half downloaded or whole, is there only while the call that made it is
  at work on it, whichever way that ends).
- `PathLosesOnlyInARace`: the action property `PathKeepsDirs`. `NoneForgotten`:
  a directory on `PATH`, or in what some call has read of it and is about to
  write back, is on `PATH` and in what all of them have read, or was put there
  by a call that has returned. A directory that a write drops is on `PATH` and
  not in what this call read, hence one of the latter.
- `FoundIsWhatRuns`: `FoundResolves`. `AloneInv`: while no call begins during
  another, `PATH` does not change between the two halves of `prependPath`
  (`PathAsRead`), and in front of what a call returned there is no executable of
  its name but in directories that later calls put there (`InFrontOnlyLater`).
  `LookPath` takes the first directory that has one.

### PromptRenderProofs

For any templates and params, from `PromptAssumption` (a param is of a kind that
the encoder knows; the white space that `json.Indent` adds is a token of its
own): `VerdictByParams`, `UnreplacedIsExact`, `DebugIsFaithful` and
`NothingScannedTwice` prove `VerdictIsOrderless`, `LeftoversAreTemplates`,
`DebugShowsPrompt` and `OnePass`. `PInv` is
the invariant of the range loop: every key visited is usable and its two values
are the encodings (`Visits`, `Values`), and the result is there exactly when the
loop has ended with no key left (`Results`). What the verdict says of the order
is that `todo` may be any set of keys. The leftovers' loop has, after each token,
exactly the unbound placeholders so far, by first occurrence (`FirstStep`,
`FirstAlways`). That the two renderings agree without white space is a fact about
joined sequences: `WithoutSpace` of a join is the join of its pieces without
space (`WithoutJoin`), and piece by piece the two values agree (`WithoutEach`).
That values are not scanned again is one too: the places of a token in a join are
as many as the pairs of a member and a place of the token in it (`JoinCounts`, by
`OccursJoin` one member at a time). Here the members are single tokens of the
template and values, so the pairs are the token's own places, if it has no
param, and `InValues`.

### TerminalProofs

For any terminal, any keys and any size of the reader but 0 (`TermAssumption`),
however the bytes are cut into reads and also when a cut has garbled a sequence:
`RawWhileReading` (`TermTypeOK`) and `BackspaceStaysInLine` (`LineStartIsLine`).
`TInv` is the types together with `LineBegins`: `lineStart` is 0 or behind a
newline of `buf`, and no newline is behind it. `LastAppend` is a byte more,
`Normalised` sequences go through `NormalisedType`, a paste recomputes the place
(`LastIs`), and a rune that backspace takes contains no newline and starts at or
behind the place.

`KeysAreDecoded` (`DecodesKeys`) has one more hypothesis, `Decodable(KeysOf)`: a
terminal with the extensions has no ctrl+c and ctrl+d, which then come as
sequences that `ReadLine` ignores (the finding of `doc_ctrl_c`); without them it
has no shift+enter, which then comes as enter; a pipe has text and its two line
ends. The instance of `library` is such a `KeysOf` (`KeysAssumption`). Consumed
bytes leave no trace in the state, so the invariant tells the history: there are
bytes that were sent, the code each key came as and where it ends in them, and
what the keys so far mean (`Story`); the bytes not read yet are the last of those
sent (`Unread`); and what was read is some keys and the first bytes of the next,
of which `reader`, `pending`, `buf` and `results` are what `Place` says. An
action that reads a byte reads the next of that key (`NextByte`), and goes to the
next place within it or to what `After` says of it: `PipeByte` for a pipe,
`KeyByte` for single bytes and runes, `SequenceByte` for sequences and pastes.
For a rune they rest on a submission's runes being whole (`Text`), for a paste on
its end being found at its last byte and nowhere before (`PasteEnds`).

### What is only model-checked

Liveness (`SignalEndsCall`, `CallReturnsOnceTreeIsGone`, `CallEnds`, `WalkEnds`),
which is out of the prover's reach. Every other property of a passing run is also
a theorem.

What the proofs have of the first three: somebody can go on, his turn is not taken
away, and there are only so many steps to take. What they leave to TLC: that these guards
are when the actions are ENABLED, and the induction over the steps left that turns
fairness into an end. Of `WalkEnds` the bound of the stack is proved, but not that
the walk, which may meet a type often, takes finitely many steps.

## Not modelled

- `jsonschema/validate.go` parses its two arguments and hands them to an
  external validator: no state, no control of its own.
- `.github/workflows`: continuous integration, not part of the library.
- `LogWriter` is a package variable; setting it while calls run is a data race
  whose outcomes are those of Go's memory model, not of this code.
- A panic in a caller's callback, and a helper that inherits the child's stdin.
- Pure formatting: log lines, prompts and echo, error texts, the JSON encoding
  of values, the translation of options and results field by field.

## What could come next

In this order: a refinement of `ProviderRun` by the composition of `CliExec` and
`StreamLines`, so that the events are the bytes of a child's output; helpers
that inherit stdin.
