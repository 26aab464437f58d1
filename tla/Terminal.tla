------------------------------- MODULE Terminal -------------------------------
(***************************************************************************)
(* terminal.ReadLine: calls made one after the other, each collecting one  *)
(* submission from the bytes that the keys send. Keys arrive whole, at any *)
(* time; the shared bufio.Reader takes what has arrived, up to its size,   *)
(* whenever it is empty, so a sequence may be cut at its end.              *)
(*                                                                         *)
(* A byte is named by what it is: "esc" starts a sequence, "ESC" is the    *)
(* same byte sent by the escape key alone, a parameter is one byte, "13_2" *)
(* for 13;2, "u1" and "u2" are the two bytes of one rune, and "tab" stands *)
(* for the control bytes that mean nothing to ReadLine.                    *)
(***************************************************************************)
EXTENDS Naturals, Sequences, FiniteSets, SequencesExt

CONSTANTS
  KeysOf,    \* the keys of a terminal, by what it speaks: legacy, kitty, xterm
  BufSize,   \* size of the bufio.Reader
  MaxKeys    \* bound: keys pressed; one call more than that

ASSUME TermAssumption == BufSize \in Nat \ {0}

VARIABLES
  speaks,    \* what the terminal speaks; "pipe" when stdin is no terminal
  keys,      \* history: what was pressed
  closed,    \* stdin: nothing more will come
  arrived,   \* bytes in the kernel
  stdin,     \* bytes in the bufio.Reader
  reader,    \* where ReadLine stands
  raw,       \* raw mode and the extensions are on
  pending,   \* readEscape's params, readPaste's content
  buf, lineStart,
  results,   \* history: what the calls returned
  garbled    \* history: a sequence was cut at its ESC, or a lone ESC took a byte

inputVars == <<speaks, keys, closed, arrived>>
lineVars == <<buf, lineStart>>
termVars == <<inputVars, stdin, reader, raw, pending, lineVars, results, garbled>>

TermInit ==
  /\ speaks \in DOMAIN KeysOf
  /\ keys = <<>> /\ closed = FALSE /\ arrived = <<>> /\ stdin = <<>>
  /\ reader = "idle" /\ raw = FALSE /\ pending = <<>>
  /\ buf = <<>> /\ lineStart = 0
  /\ results = <<>> /\ garbled = FALSE

--------------------------------------------------------------------------------
(* The user and the terminal.                                              *)

Pasted == <<"a", "cr", "nl", "a">>    \* what "paste" pastes

Csi(param, final) == <<"esc", "[", param, final>>

\* A key with a modifier, once the extensions are on: kitty's disambiguate flag
\* and modifyOtherKeys=2 report all of them, ctrl+c too.
Modified(plain, kitty, xterm) ==
  CASE speaks = "kitty" /\ raw -> Csi(kitty, "u")
    [] speaks = "xterm" /\ raw -> Csi(xterm, "~")
    [] OTHER -> <<plain>>

Bytes(k) ==
  CASE k = "enter"       -> <<IF raw THEN "cr" ELSE "nl">>
    [] k = "crlf"        -> <<"cr", "nl">>
    [] k = "u"           -> <<"u1", "u2">>
    [] k = "backspace"   -> <<"del">>
    [] k = "arrow"       -> <<"esc", "[", "A">>
    [] k = "escape"      -> IF speaks = "kitty" THEN Csi("27", "u") ELSE <<"ESC">>
    [] k = "ctrl+c"      -> Modified("etx", "99_5", "27_5_99")
    [] k = "ctrl+d"      -> Modified("eot", "100_5", "27_5_100")
    [] k = "shift+enter" -> Modified("cr", "13_2", "27_2_13")
    [] k = "paste"       -> Csi("200", "~") \o Pasted \o Csi("201", "~")
    [] OTHER             -> <<k>>

\* Type-ahead: between two calls the kernel edits the line, so only keys that
\* it passes on as they are.
Press ==
  /\ ~closed /\ Len(keys) < MaxKeys
  /\ \E k \in KeysOf[speaks] :
       /\ raw \/ k \in {"a", "enter"} \/ speaks = "pipe"
       /\ keys' = Append(keys, k)
       /\ arrived' = arrived \o Bytes(k)
  /\ UNCHANGED <<speaks, closed, stdin, reader, raw, pending, lineVars, results, garbled>>

HangUp ==
  /\ ~closed
  /\ closed' = TRUE
  /\ UNCHANGED <<speaks, keys, arrived, stdin, reader, raw, pending, lineVars, results, garbled>>

--------------------------------------------------------------------------------
(* ReadLine.                                                               *)

\* Without a terminal, or when MakeRaw fails: the plain read.
ReadLine ==
  /\ reader = "idle" /\ Len(results) <= MaxKeys
  /\ raw' = (speaks # "pipe")
  /\ reader' = IF speaks = "pipe" THEN "plain" ELSE "reading"
  /\ buf' = <<>> /\ lineStart' = 0
  /\ UNCHANGED <<inputVars, stdin, pending, results, garbled>>

\* bufio.Reader: one read(2) when a byte is wanted and none is buffered.
Fill ==
  /\ reader # "idle" /\ stdin = <<>> /\ arrived # <<>>
  /\ LET n == IF Len(arrived) < BufSize THEN Len(arrived) ELSE BufSize
     IN /\ stdin' = SubSeq(arrived, 1, n)
        /\ arrived' = SubSeq(arrived, n + 1, Len(arrived))
  /\ UNCHANGED <<speaks, keys, closed, reader, raw, pending, lineVars, results, garbled>>

\* Mutant: an interrupted read leaves the terminal as it is.
ReturnRaw(text, err) ==
  /\ reader' = "idle" /\ raw' = (err = "interrupted") /\ pending' = <<>>
  /\ results' = Append(results, <<text, err>>)

\* The deferred calls disable the extensions and restore the terminal.
Return(text, err) ==
  /\ reader' = "idle" /\ raw' = FALSE /\ pending' = <<>>
  /\ results' = Append(results, <<text, err>>)

\* ReadByte.
Byte == Head(stdin)
Take == stdin # <<>> /\ stdin' = Tail(stdin)

AtEOF == reader # "idle" /\ stdin = <<>> /\ arrived = <<>> /\ closed

LineEnds == {"cr", "nl"}

\* strings.TrimRight(line, "\r\n")
Trimmed(line) == SubSeq(line, 1, SelectLastInSeq(line, LAMBDA b : b \notin LineEnds))

\* readLinePlain returns the rest of the input as a line, readLineRaw drops it.
EndOfInput ==
  /\ AtEOF
  /\ IF reader = "plain" /\ buf # <<>> THEN Return(Trimmed(buf), "none") ELSE Return(<<>>, "EOF")
  /\ UNCHANGED <<inputVars, stdin, lineVars, garbled>>

\* Below 0x20, and del.
Controls == LineEnds \cup {"etx", "eot", "del", "tab", "esc", "ESC"}

\* ctrl+c, ctrl+d, enter
Control ==
  /\ reader = "reading" /\ Take
  /\ \/ Byte = "etx" /\ Return(<<>>, "interrupted")
     \/ Byte = "eot" /\ buf = <<>> /\ Return(<<>>, "EOF")
     \/ Byte = "eot" /\ buf # <<>> /\ UNCHANGED <<reader, raw, pending, results>>
     \/ Byte \in LineEnds /\ Return(buf, "none")
  /\ UNCHANGED <<inputVars, lineVars, garbled>>

LastByte(s) == 1    \* mutant

\* utf8.DecodeLastRune: a byte on its own is one as well.
LastRune(s) == IF IsSuffix(<<"u1", "u2">>, s) THEN 2 ELSE 1

Edit ==
  /\ reader = "reading" /\ Take
  /\ \/ Byte = "del" /\ Len(buf) > lineStart
        /\ buf' = SubSeq(buf, 1, Len(buf) - LastRune(buf))
     \/ Byte = "del" /\ Len(buf) <= lineStart /\ UNCHANGED buf
     \/ Byte = "tab" /\ UNCHANGED buf
     \/ Byte \notin Controls /\ buf' = Append(buf, Byte)
  /\ UNCHANGED <<inputVars, reader, raw, pending, lineStart, results, garbled>>

\* readEscape: with nothing buffered behind it the ESC is the escape key.
Escape ==
  /\ reader = "reading" /\ Take
  /\ Byte \in {"esc", "ESC"}
  /\ reader' = IF stdin' = <<>> THEN "reading" ELSE "escape"
  /\ garbled' = (garbled \/ ((Byte = "esc") = (stdin' = <<>>)))
  /\ UNCHANGED <<inputVars, raw, pending, lineVars, results>>

\* Not a CSI sequence: this byte is gone with the ESC.
EscapeByte ==
  /\ reader = "escape" /\ Take
  /\ reader' = IF Byte = "[" THEN "csi" ELSE "reading"
  /\ pending' = <<>>
  /\ UNCHANGED <<inputVars, raw, lineVars, results, garbled>>

Finals == {"a", "A", "[", "u", "~"}    \* 0x40..0x7e

ShiftEnter(final) ==
  \/ final = "u" /\ pending # <<>> /\ Head(pending) = "13_2"
  \/ final = "~" /\ pending = <<"27_2_13">>

CsiByte ==
  /\ reader = "csi" /\ Take
  /\ IF Byte \notin Finals
     THEN pending' = Append(pending, Byte) /\ UNCHANGED <<reader, lineVars>>
     ELSE /\ pending' = <<>>
          /\ reader' = IF Byte = "~" /\ pending = <<"200">> THEN "paste" ELSE "reading"
          /\ IF ShiftEnter(Byte)
             THEN buf' = Append(buf, "nl") /\ lineStart' = Len(buf) + 1
             ELSE UNCHANGED lineVars
  /\ UNCHANGED <<inputVars, raw, results, garbled>>

\* "\r\n" and "\r" become "\n".
Normalised(text) ==
  LET BeforeNewline(i) == i < Len(text) /\ text[i + 1] = "nl"
  IN FlattenSeq([i \in DOMAIN text |->
       IF text[i] # "cr" THEN <<text[i]>> ELSE IF BeforeNewline(i) THEN <<>> ELSE <<"nl">>])

AfterPaste(s) == Len(s)    \* mutant

AfterLastNewline(s) == SelectLastInSeq(s, LAMBDA b : b = "nl")

PasteEnd == Csi("201", "~")

\* readPaste, appendEcho
PasteByte ==
  /\ reader = "paste" /\ Take
  /\ LET content == Append(pending, Byte) IN
       IF IsSuffix(PasteEnd, content)
       THEN /\ buf' = buf \o Normalised(SubSeq(content, 1, Len(content) - Len(PasteEnd)))
            /\ lineStart' = AfterLastNewline(buf')
            /\ reader' = "reading" /\ pending' = <<>>
       ELSE pending' = content /\ UNCHANGED <<reader, lineVars>>
  /\ UNCHANGED <<inputVars, raw, results, garbled>>

\* readLinePlain: ReadString, TrimRight
PlainByte ==
  /\ reader = "plain" /\ Take
  /\ IF Byte = "nl" THEN Return(Trimmed(buf), "none") /\ UNCHANGED buf
     ELSE buf' = Append(buf, Byte) /\ UNCHANGED <<reader, raw, pending, results>>
  /\ UNCHANGED <<inputVars, lineStart, garbled>>

TermNext ==
  \/ Press \/ HangUp \/ ReadLine \/ Fill \/ EndOfInput
  \/ Control \/ Edit \/ Escape \/ EscapeByte \/ CsiByte \/ PasteByte \/ PlainByte

TermSpec == TermInit /\ [][TermNext]_termVars

--------------------------------------------------------------------------------
(* Properties.                                                             *)

\* What a key does to the submission that has begun: it may end it.
Begun == [done |-> <<>>, now |-> <<>>]

After(m, k) ==
  LET End(text, err) == [done |-> Append(m.done, <<text, err>>), now |-> <<>>]
      Now(text) == [done |-> m.done, now |-> text]
      line == SelectLastInSeq(m.now, LAMBDA b : b = "nl")
  IN CASE k \in {"enter", "crlf"} -> End(m.now, "none")
       [] k = "ctrl+c" -> End(<<>>, "interrupted")
       [] k = "ctrl+d" /\ m.now = <<>> -> End(<<>>, "EOF")
       [] k = "a" -> Now(m.now \o <<"a">>)
       [] k = "u" -> Now(m.now \o <<"u1", "u2">>)
       [] k = "shift+enter" -> Now(Append(m.now, "nl"))
       [] k = "paste" -> Now(m.now \o <<"a", "nl", "a">>)
       [] k = "backspace" /\ Len(m.now) > line ->
            Now(SubSeq(m.now, 1, Len(m.now) - (IF Last(m.now) = "u2" THEN 2 ELSE 1)))
       [] OTHER -> m

\* What the keys mean to the user: the submissions they end, and the one they
\* have begun.
Meaning ==
  LET after[n \in 0..Len(keys)] == IF n = 0 THEN Begun ELSE After(after[n - 1], keys[n])
  IN after[Len(keys)]

Consumed == arrived = <<>> /\ stdin = <<>>

\* However the bytes of the keys are cut into reads and spread over calls, the
\* submissions are those the keys mean, and between two keys the line is the one
\* they mean: nothing typed ahead is lost, a paste sends nothing, backspace
\* takes a whole rune and stops at the line's start. Not so once a read ended
\* between an ESC and the rest of its sequence, or found bytes behind a lone ESC.
DecodesKeys ==
  Consumed /\ ~closed /\ ~garbled =>
    /\ results = Meaning.done
    /\ buf = Meaning.now \/ reader = "idle"
    /\ reader \in {"idle", "reading", "plain"}

\* The keys whose bytes say which key it was: with the extensions on they come as
\* ReadLine expects them, but for ctrl+c and ctrl+d, which it does not; with them
\* off shift+enter is enter; a pipe has text.
Decodable(keysOf) ==
  \A s \in DOMAIN keysOf :
    keysOf[s] \subseteq
      {"a", "u", "enter"} \cup
      CASE s = "pipe" -> {"crlf"}
        [] s \in {"kitty", "xterm"} ->
             {"backspace", "tab", "arrow", "escape", "paste", "shift+enter"}
        [] OTHER -> {"backspace", "tab", "arrow", "escape", "paste", "ctrl+c", "ctrl+d"}

\* Backspace never eats past a newline: the line starts behind the last newline
\* of the submission, in every state of the decoder and however garbled.
LineStartIsLine ==
  reader # "plain" => lineStart = SelectLastInSeq(buf, LAMBDA b : b = "nl")

\* The terminal is in raw mode exactly while a call reads from it.
TermTypeOK ==
  /\ reader \in {"idle", "reading", "escape", "csi", "paste", "plain"}
  /\ raw = (reader \notin {"idle", "plain"})
  /\ Len(stdin) <= BufSize
  /\ lineStart \in 0..Len(buf)
================================================================================
