------------------------------- MODULE Installer -------------------------------
(***************************************************************************)
(* claudeinstall and codexinstall on top of internal/cliinstall: calls of  *)
(* Ensure and Install, in any number of goroutines of one process, that    *)
(* look for a binary, download and run the official installer, and put the *)
(* installer's directory at the front of the process's PATH.               *)
(***************************************************************************)
EXTENDS Naturals, Sequences, SequencesExt

CONSTANTS
  Installs,     \* the calls, each once
  BinOf,        \* claude or codex, by call
  DefaultDirs,  \* the installer's directory, by binary; NoDir when there is none
  NoDir,
  Paths,        \* PATH at the start
  Disks         \* what is there at the start: [directories -> [binaries -> State]]

State == {"none", "plain", "executable"}    \* what a file of that name is

\* A disk says of every directory there may be, those of PATH and the
\* installers' own, what it holds of every binary.
ASSUME InstallAssumption ==
  \A disk \in Disks :
    /\ NoDir \notin DOMAIN disk
    /\ disk \in [DOMAIN disk -> [{BinOf[i] : i \in Installs} -> State]]
    /\ Paths \subseteq Seq(DOMAIN disk)
    /\ \A d \in DefaultDirs, i \in Installs : d[BinOf[i]] \in DOMAIN disk \cup {NoDir}

VARIABLES
  dirs,       \* defaultDir, by binary, as the environment has it
  path,       \* PATH
  bins,       \* the disk
  step,       \* where each call stands
  fresh,      \* has its installer run?
  seen,       \* PATH as prependPath read it
  script,     \* does the temp file of its script exist, whole or not?
  found,      \* the directory of the binary it returns
  prepended,  \* history: it was prependPath that found it
  overlap,    \* history: two calls ran at the same time
  latest      \* history: the call that returned last

installVars == <<dirs, path, bins, step, fresh, seen, script, found, prepended, overlap, latest>>

InstallInit ==
  /\ dirs \in DefaultDirs /\ path \in Paths /\ bins \in Disks
  /\ step = [i \in Installs |-> "idle"]
  /\ fresh = [i \in Installs |-> FALSE]
  /\ seen = [i \in Installs |-> <<>>]
  /\ script = [i \in Installs |-> FALSE]
  /\ found = [i \in Installs |-> NoDir]
  /\ prepended = [i \in Installs |-> FALSE]
  /\ overlap = FALSE
  /\ latest = {}

Running(i) == step[i] \notin {"idle", "returned"}
Dir(i) == dirs[BinOf[i]]

\* exec.LookPath: the first directory of PATH with an executable file of that
\* name; NoDir if there is none.
LookPath(bin) ==
  LET hits == {n \in DOMAIN path : bins[path[n]][bin] = "executable"}
  IN IF hits = {} THEN NoDir ELSE path[Min(hits)]

Goes(i, from, to) ==
  /\ step[i] = from
  /\ step' = [step EXCEPT ![i] = to]

Leaves(i, from, dir) ==
  /\ Goes(i, from, "returned")
  /\ found' = [found EXCEPT ![i] = dir]
  /\ latest' = {i}

\* A return of Ensure, or of Install once the script is downloaded: a deferred call
\* removes it.
Returns(i, from, dir) ==
  /\ Leaves(i, from, dir)
  /\ script' = [script EXCEPT ![i] = FALSE]

--------------------------------------------------------------------------------

\* Ensure and Install. An invalid version ends Install before any download.
Start(i) ==
  /\ \/ Goes(i, "idle", "look") \/ Goes(i, "idle", "download")
     \/ Goes(i, "idle", "returned")
  /\ overlap' = (overlap \/ \E j \in Installs : Running(j))
  /\ UNCHANGED <<dirs, path, bins, fresh, seen, script, found, prepended, latest>>

\* Find, first half; FindInstalled, second half.
Look(i) ==
  /\ step[i] = "look"
  /\ LET dir == LookPath(BinOf[i]) IN
       IF dir # NoDir \/ fresh[i]
       THEN Returns(i, "look", dir)
       ELSE Goes(i, "look", "dir") /\ UNCHANGED <<script, found, latest>>
  /\ UNCHANGED <<dirs, path, bins, fresh, seen, prepended, overlap>>

\* Any file of that name will do.
InDir(i) == Dir(i) # NoDir /\ bins[Dir(i)][BinOf[i]] # "none"

\* FindInDir, and the first half of prependPath, which reads PATH.
FindInDir(i) ==
  /\ InDir(i)
  /\ Goes(i, "dir", "prepend")
  /\ seen' = [seen EXCEPT ![i] = path]
  /\ UNCHANGED <<dirs, path, bins, fresh, script, found, prepended, overlap, latest>>

NotInDir(i) ==
  /\ ~InDir(i)
  /\ Goes(i, "dir", IF fresh[i] THEN "look" ELSE "download")
  /\ UNCHANGED <<dirs, path, bins, fresh, seen, script, found, prepended, overlap, latest>>

\* The loop of prependPath: what it has kept after n entries.
Without(dir, entries) ==
  LET kept[n \in 0..Len(entries)] ==
        IF n = 0 THEN <<>>
        ELSE IF entries[n] = dir THEN kept[n - 1]
        ELSE Append(kept[n - 1], entries[n])
  IN kept[Len(entries)]

AppendPath(i) == Append(Without(Dir(i), seen[i]), Dir(i))    \* mutant

OnlyDir(i) == <<Dir(i)>>    \* mutant

MovedToFront(i) == <<Dir(i)>> \o Without(Dir(i), seen[i])

\* The second half: the directory at the front of what was read, once.
PrependPath(i) ==
  /\ Returns(i, "prepend", Dir(i))
  /\ path' = MovedToFront(i)
  /\ prepended' = [prepended EXCEPT ![i] = TRUE]
  /\ UNCHANGED <<dirs, bins, fresh, seen, overlap>>

\* DownloadScript. No answer, a bad status, or no temp file to be had.
DownloadFails(i) ==
  /\ Leaves(i, "download", NoDir)
  /\ UNCHANGED <<dirs, path, bins, fresh, seen, script, prepended, overlap>>

CreateTemp(i) ==
  /\ Goes(i, "download", "copy")
  /\ script' = [script EXCEPT ![i] = TRUE]
  /\ UNCHANGED <<dirs, path, bins, fresh, seen, found, prepended, overlap, latest>>

\* The body is in the file, and Install defers the file's removal.
Copied(i) ==
  /\ Goes(i, "copy", "script")
  /\ UNCHANGED <<dirs, path, bins, fresh, seen, script, found, prepended, overlap, latest>>

\* Mutant: the removal is left to Install, which has no path to remove.
CopyFailsKeeps(i) ==
  /\ Leaves(i, "copy", NoDir)
  /\ UNCHANGED <<dirs, path, bins, fresh, seen, script, prepended, overlap>>

\* The connection breaks, the time is up or the disk is full: DownloadScript removes
\* what it has of the file itself.
CopyFails(i) ==
  /\ Leaves(i, "copy", NoDir)
  /\ script' = [script EXCEPT ![i] = FALSE]
  /\ UNCHANGED <<dirs, path, bins, fresh, seen, prepended, overlap>>

\* The installer, an external program: it may leave its directory as it is.
RunScript(i) ==
  /\ Goes(i, "script", "dir")
  /\ fresh' = [fresh EXCEPT ![i] = TRUE]
  /\ \/ Dir(i) # NoDir /\ bins' = [bins EXCEPT ![Dir(i)][BinOf[i]] = "executable"]
     \/ UNCHANGED bins
  /\ UNCHANGED <<dirs, path, seen, script, found, prepended, overlap, latest>>

\* It fails, perhaps half way.
ScriptFails(i) ==
  /\ Returns(i, "script", NoDir)
  /\ \/ Dir(i) # NoDir /\ bins' = [bins EXCEPT ![Dir(i)][BinOf[i]] = "plain"]
     \/ UNCHANGED bins
  /\ UNCHANGED <<dirs, path, fresh, seen, prepended, overlap>>

InstallNext ==
  \E i \in Installs :
    \/ Start(i) \/ Look(i) \/ FindInDir(i) \/ NotInDir(i) \/ PrependPath(i)
    \/ DownloadFails(i) \/ CreateTemp(i) \/ Copied(i) \/ CopyFails(i)
    \/ RunScript(i) \/ ScriptFails(i)

InstallSpec == InstallInit /\ [][InstallNext]_installVars

--------------------------------------------------------------------------------
(* Properties.                                                             *)

\* The types; and the temp file of the script, half downloaded or whole, is there
\* only while its call is at work on it, whatever way the call ends.
InstallTypeOK ==
  /\ path \in Seq(DOMAIN bins)
  /\ step \in [Installs -> {"idle", "look", "dir", "prepend", "download", "copy", "script",
                          "returned"}]
  /\ found \in [Installs -> DOMAIN bins \cup {NoDir}]
  /\ \A i \in Installs :
       script[i] => step[i] \in {"copy", "script"} \/ (fresh[i] /\ Running(i))

\* prependPath only ever adds: a step takes a directory off PATH only if another
\* call put it there after this one had read PATH.
PathKeepsDirs ==
  [][ \A d \in Range(path) \ Range(path') :
        \E i, j \in Installs :
          /\ step[i] = "prepend" /\ step'[i] = "returned" /\ d \notin Range(seen[i])
          /\ i # j /\ prepended[j] /\ d = Dir(j) ]_installVars

\* "so claude.Run uses the fresh binary right after Install": as long as calls do
\* not overlap, a bare name resolves to what the latest of them returned, once no
\* other has begun, and for each earlier one to that or to a copy in front of it
\* that a later call has put there or is about to. A file that is not executable is
\* returned all the same and resolves to nothing.
FoundResolves ==
  ~overlap =>
    \A i \in Installs :
      found[i] # NoDir /\ bins[found[i]][BinOf[i]] = "executable" =>
        LET now == LookPath(BinOf[i]) IN
          /\ now # NoDir
          /\ i \in latest /\ (\A j \in Installs : ~Running(j)) => now = found[i]
          /\ now # found[i] =>
               \E j \in Installs \ {i} :
                 now = Dir(j) /\ (prepended[j] \/ step[j] \in {"dir", "prepend"})
================================================================================
