------------------------------ MODULE StreamLines ------------------------------
(***************************************************************************)
(* internal/cliexec, Stream: how the bytes of one child become the calls   *)
(* of onLine, and how the three of them that move bytes - the read loop,   *)
(* the goroutine of os/exec that copies the prompt to the child's stdin,   *)
(* and the child itself - stay clear of blocking each other for ever over  *)
(* two pipes of bounded capacity. CliExec abstracts the loop to ReadEOF    *)
(* and ReadFails.                                                          *)
(***************************************************************************)
EXTENDS Naturals, Sequences, SequencesExt

CONSTANTS
  Text,        \* bytes that end no line
  PipeCap,     \* capacity of the child's stdout pipe
  StdinCap,    \* capacity of its stdin pipe
  PromptLen,   \* bytes of opts.Prompt
  MaxOutput,   \* bound: bytes the child ever writes
  MaxWrite     \* bound: bytes of one write of the child

ASSUME SizesAssumption ==
  /\ PipeCap \in Nat \ {0} /\ StdinCap \in Nat \ {0}
  /\ PromptLen \in Nat /\ MaxOutput \in Nat /\ MaxWrite \in Nat

EOLs == {"cr", "nl"}
Bytes == Text \cup EOLs

VARIABLES
  op,       \* the child: free, reading, writing, exited
  text,     \* what is left of its current write
  atEOF,    \* has it read its stdin to the end?
  written,  \* history: all that reached the stdout pipe
  pipe,     \* what is in it now
  buf,      \* read by the call, not yet delivered
  lines,    \* the lines onLine was called with
  loop,     \* Stream: reading, waiting, joining, returned
  scanErr,  \* the loop ended on a read error
  prompt,   \* bytes the copying goroutine has not written yet
  stdin,    \* bytes in the stdin pipe
  feeding   \* is the copying goroutine running?

childVars == <<op, text, atEOF>>
outVars == <<written, pipe>>
readerVars == <<buf, lines, loop, scanErr>>
stdinVars == <<prompt, stdin, feeding>>
vars == <<childVars, outVars, readerVars, stdinVars>>

Init ==
  /\ op = "free"
  /\ text = <<>>
  /\ atEOF = FALSE
  /\ written = <<>>
  /\ pipe = <<>>
  /\ buf = <<>>
  /\ lines = <<>>
  /\ loop = "reading"
  /\ scanErr = FALSE
  /\ prompt = PromptLen
  /\ stdin = 0
  /\ feeding = TRUE

--------------------------------------------------------------------------------
(* The child: it reads and writes in any order and any portions, one at a  *)
(* time, and blocks in each until it can be done.                          *)

BeginWrite ==
  /\ op = "free"
  /\ \E n \in 1..MaxWrite :
       /\ Len(written) + n <= MaxOutput
       /\ text' \in [1..n -> Bytes]
  /\ op' = "writing"
  /\ UNCHANGED <<atEOF, outVars, readerVars, stdinVars>>

\* The pipe takes a part of the write that fits.
WriteSome ==
  /\ op = "writing"
  /\ \E n \in 1..Len(text) :
       /\ Len(pipe) + n <= PipeCap
       /\ written' = written \o SubSeq(text, 1, n)
       /\ pipe' = pipe \o SubSeq(text, 1, n)
       /\ text' = SubSeq(text, n + 1, Len(text))
       /\ op' = IF n = Len(text) THEN "free" ELSE "writing"
  /\ UNCHANGED <<atEOF, readerVars, stdinVars>>

BeginRead ==
  /\ op = "free"
  /\ ~atEOF
  /\ op' = "reading"
  /\ UNCHANGED <<text, atEOF, outVars, readerVars, stdinVars>>

ReadPrompt ==
  /\ op = "reading"
  /\ stdin > 0
  /\ stdin' = stdin - 1
  /\ op' = "free"
  /\ UNCHANGED <<text, atEOF, outVars, readerVars, prompt, feeding>>

ReadPromptEOF ==
  /\ op = "reading"
  /\ stdin = 0 /\ ~feeding
  /\ atEOF' = TRUE
  /\ op' = "free"
  /\ UNCHANGED <<text, outVars, readerVars, stdinVars>>

ChildExits ==
  /\ op = "free"
  /\ op' = "exited"
  /\ UNCHANGED <<text, atEOF, outVars, readerVars, stdinVars>>

\* By the guard of CliExec, or by anyone else.
ChildKilled ==
  /\ op # "exited"
  /\ op' = "exited"
  /\ text' = <<>>
  /\ UNCHANGED <<atEOF, outVars, readerVars, stdinVars>>

--------------------------------------------------------------------------------
(* os/exec copies cmd.Stdin, a strings.Reader over the prompt.             *)

FeedUnblocked ==    \* mutant: the copy does not block on a full pipe
  /\ feeding
  /\ prompt > 0
  /\ prompt' = prompt - 1
  /\ stdin' = stdin + 1
  /\ UNCHANGED <<childVars, outVars, readerVars, feeding>>

Feed ==
  /\ feeding
  /\ prompt > 0 /\ stdin < StdinCap
  /\ op # "exited"
  /\ prompt' = prompt - 1
  /\ stdin' = stdin + 1
  /\ UNCHANGED <<childVars, outVars, readerVars, feeding>>

\* All written, or EPIPE, which os/exec ignores.
FeedEnds ==
  /\ feeding
  /\ prompt = 0 \/ op = "exited"
  /\ feeding' = FALSE
  /\ UNCHANGED <<childVars, outVars, readerVars, prompt, stdin>>

--------------------------------------------------------------------------------
(* The call.                                                               *)

FirstNewline(s) == SelectInSeq(s, LAMBDA b : b = "nl")

\* strings.TrimRight(line, "\r\n")
TrimRight(line) ==
  SubSeq(line, 1, SelectLastInSeq(line, LAMBDA b : b \notin EOLs))

\* onLine, for a line that is not empty.
Deliver(line) ==
  lines' = IF TrimRight(line) = <<>> THEN lines ELSE Append(lines, TrimRight(line))

FillAfterPrompt ==    \* mutant: the loop starts when the prompt is written
  /\ loop = "reading"
  /\ ~feeding
  /\ FirstNewline(buf) = 0
  /\ \E n \in 1..Len(pipe) :
       /\ buf' = buf \o SubSeq(pipe, 1, n)
       /\ pipe' = SubSeq(pipe, n + 1, Len(pipe))
  /\ UNCHANGED <<childVars, written, lines, loop, scanErr, stdinVars>>

\* ReadString('\n') takes more from the pipe while it has no newline.
Fill ==
  /\ loop = "reading"
  /\ FirstNewline(buf) = 0
  /\ \E n \in 1..Len(pipe) :
       /\ buf' = buf \o SubSeq(pipe, 1, n)
       /\ pipe' = SubSeq(pipe, n + 1, Len(pipe))
  /\ UNCHANGED <<childVars, written, lines, loop, scanErr, stdinVars>>

\* ReadString returns a line with its newline.
TakeLine ==
  /\ loop = "reading"
  /\ FirstNewline(buf) > 0
  /\ Deliver(SubSeq(buf, 1, FirstNewline(buf)))
  /\ buf' = SubSeq(buf, FirstNewline(buf) + 1, Len(buf))
  /\ UNCHANGED <<childVars, outVars, loop, scanErr, stdinVars>>

DropLastLine ==    \* mutant: what comes with io.EOF is not delivered
  /\ loop = "reading"
  /\ FirstNewline(buf) = 0
  /\ pipe = <<>> /\ op = "exited"
  /\ buf' = <<>>
  /\ loop' = "waiting"
  /\ UNCHANGED <<childVars, outVars, lines, scanErr, stdinVars>>

\* ReadString returns io.EOF with what it has: a last line without newline.
ReadEOF ==
  /\ loop = "reading"
  /\ FirstNewline(buf) = 0
  /\ pipe = <<>> /\ op = "exited"
  /\ Deliver(buf)
  /\ buf' = <<>>
  /\ loop' = "waiting"
  /\ UNCHANGED <<childVars, outVars, scanErr, stdinVars>>

DropOnError ==    \* mutant: what comes with the error is not delivered
  /\ loop = "reading"
  /\ FirstNewline(buf) = 0
  /\ buf' = <<>>
  /\ loop' = "waiting"
  /\ scanErr' = TRUE
  /\ UNCHANGED <<childVars, outVars, lines, stdinVars>>

\* ReadString returns another error with what it has. Nobody reads the pipe
\* from here on.
ReadFails ==
  /\ loop = "reading"
  /\ FirstNewline(buf) = 0
  /\ Deliver(buf)
  /\ buf' = <<>>
  /\ loop' = "waiting"
  /\ scanErr' = TRUE
  /\ UNCHANGED <<childVars, outVars, stdinVars>>

\* cmd.Wait: the child, then the goroutine that copies stdin.
WaitProcess ==
  /\ loop = "waiting"
  /\ op = "exited"
  /\ loop' = "joining"
  /\ UNCHANGED <<childVars, outVars, buf, lines, scanErr, stdinVars>>

WaitFeeder ==
  /\ loop = "joining"
  /\ ~feeding
  /\ loop' = "returned"
  /\ UNCHANGED <<childVars, outVars, buf, lines, scanErr, stdinVars>>

--------------------------------------------------------------------------------
Child == BeginWrite \/ WriteSome \/ BeginRead \/ ReadPrompt \/ ReadPromptEOF \/ ChildExits

Feeder == Feed \/ FeedEnds

Reader == Fill \/ TakeLine \/ ReadEOF \/ WaitProcess \/ WaitFeeder

Next == Child \/ ChildKilled \/ Feeder \/ Reader \/ ReadFails

\* The goroutines run, and no read need fail; the child goes on while it is not blocked in a read or
\* a write, and exits when it has done what it does.
FairSpec ==
  /\ Init /\ [][Next]_vars
  /\ WF_vars(Child) /\ WF_vars(Feeder) /\ WF_vars(Reader)

--------------------------------------------------------------------------------
(* Properties.                                                             *)

TypeOK ==
  /\ op \in {"free", "reading", "writing", "exited"}
  /\ text \in Seq(Bytes) /\ Len(text) <= MaxWrite
  /\ written \in Seq(Bytes) /\ Len(written) <= MaxOutput
  /\ pipe \in Seq(Bytes) /\ Len(pipe) <= PipeCap
  /\ buf \in Seq(Bytes) /\ lines \in Seq(Seq(Bytes))
  /\ loop \in {"reading", "waiting", "joining", "returned"}
  /\ prompt \in 0..PromptLen /\ stdin \in 0..StdinCap
  /\ atEOF \in BOOLEAN /\ scanErr \in BOOLEAN /\ feeding \in BOOLEAN

\* What a reader of the whole output would call its lines: the stretches up to
\* each newline, and what follows the last, without the carriage returns and the
\* newline that end them, the empty ones left out.
Content(s, from, to) ==
  SubSeq(s, from, Max({from - 1} \cup {i \in from..to : s[i] \notin EOLs}))

Start(s, n) == 1 + Max({0} \cup {i \in 1..(n - 1) : s[i] = "nl"})

WithLine(ls, line) == IF line = <<>> THEN ls ELSE Append(ls, line)

\* Those that a newline among the first n bytes ends.
Ended(s) ==
  LET ended[n \in 0..Len(s)] ==
        IF n = 0 THEN <<>>
        ELSE IF s[n] # "nl" THEN ended[n - 1]
        ELSE WithLine(ended[n - 1], Content(s, Start(s, n), n))
  IN ended

LinesOf(s) == WithLine(Ended(s)[Len(s)], Content(s, Start(s, Len(s) + 1), Len(s)))

\* However the output was cut into writes and reads, onLine sees the lines of
\* the output, in order, none split, joined or empty; and when the loop ends
\* at EOF it has seen all of them, the unterminated last one too. Lines may
\* be longer than the pipe and any read.
LinesDelivered ==
  ~scanErr =>
    /\ IsPrefix(lines, LinesOf(written))
    /\ loop # "reading" => lines = LinesOf(written)

\* Nothing is lost, doubled or reordered between the child and onLine, at any
\* time and also when a read fails: what the loop and the pipe still hold is the
\* end of the output, and the lines handed out are those of all that comes before
\* it. After a failed read, then, what had been read is handed out, the beginning
\* of a line too.
BytesInOrder ==
  \E k \in 0..Len(written) :
    /\ buf \o pipe = SubSeq(written, k + 1, Len(written))
    /\ lines = LinesOf(SubSeq(written, 1, k))

\* If no read fails, the call ends: the child, the copying goroutine and the
\* read loop never wait for each other in a circle, also when prompt and
\* output are larger than their pipes.
CallEnds == <>(loop = "returned" \/ scanErr)
================================================================================
