----------------------------- MODULE CliExecProofs -----------------------------
(***************************************************************************)
(* Theorems about CliExec for every set of calls, helpers and process      *)
(* numbers, any number of signals, on unix and on windows: the invariants  *)
(* and the action properties that the runs of MC_CliExec check, that       *)
(* CliExec implements GuardedCall, which interrupts go unreported, and     *)
(* that a call can go on and has few steps left to take.                   *)
(***************************************************************************)
EXTENDS CliExec, TLAPS

\* Where a call stands and what is left of its child.
Guarded == {"reading", "waiting", "copying", "checking", "stopNotify"}
Reaped == {"copying", "checking", "stopNotify", "closeDone", "joining"}

LeaderInv(r) ==
  /\ pc[r] = "idle" => leader[r] = "none"
  /\ pc[r] \notin {"idle", "returned"} => leader[r] # "none"
  /\ pc[r] \in Reaped => leader[r] = "reaped"

TreeInv(r) ==
  /\ leader[r] = "none" =>
       pid[r] = NoPid /\ status[r] = "none" /\ group[r] = {} /\ holders[r] = {}
  /\ leader[r] # "none" => pid[r] \in Pids
  /\ leader[r] \in {"zombie", "reaped"} => status[r] # "none"

\* Where the guard stands.
GuardInv(r) ==
  /\ pc[r] \in {"idle", "started"} => guard[r] = "off"
  /\ guard[r] \notin {"off", "exited"} => pc[r] \in Guarded \cup {"closeDone", "joining"}
  /\ guard[r] # "off" => leader[r] # "none"
  /\ guard[r] \in {"polite", "grace", "hard"} => interrupted[r]
  /\ interrupted[r] => guard[r] # "off"

RegisteredInv(r) == registered[r] <=> pc[r] \in Guarded

\* At most one process tree carries a number.
Used(r) == leader[r] \in {"alive", "zombie"} \/ group[r] # {}

PidExclusive ==
  \A r, q \in Runs : r # q /\ pid[r] = pid[q] => ~Used(r) \/ ~Used(q)

\* Whoever was killed, a guard that had recorded its interrupt did it.
KillExplained(r) ==
  status[r] = "killed" => \E q \in Runs : pid[q] = pid[r] /\ interrupted[q]

\* Past the end of the stream with no read error, nobody can write any more.
DrainedInv(r) ==
  /\ pc[r] \in {"checking", "stopNotify", "closeDone", "joining"}
       \/ (r \in Streams /\ pc[r] = "waiting")
  /\ ~scanErr[r]
  => PipeClosed(r)

Shape ==
  \A r \in Runs : LeaderInv(r) /\ TreeInv(r) /\ GuardInv(r) /\ RegisteredInv(r)

IInv ==
  /\ TypeOK
  /\ Shape
  /\ PidExclusive
  /\ \A r \in Runs : KillExplained(r)
  /\ \A r \in Runs : DrainedInv(r)
  /\ GuardScoped
  /\ OwnKillReportsInterrupted
  /\ OkMeansWholeOutput

--------------------------------------------------------------------------------
\* Every step keeps the types.
LEMMA TypingStep == TypeOK /\ [Next]_vars => TypeOK'
<1> SUFFICES ASSUME TypeOK, [Next]_vars PROVE TypeOK'
    OBVIOUS
<1>1. CASE UNCHANGED vars
  BY <1>1, ConstAssumption
     DEF vars, callVars, guardVars, treeVars, hostVars, TypeOK, Pcs, GuardPcs,
           Statuses, Results
<1>2. ASSUME NEW r \in Runs, Start(r) PROVE TypeOK'
  BY <1>2, ConstAssumption
     DEF Start, Goto, guardVars, hostVars, TypeOK, Pcs, GuardPcs, Statuses,
           Results
<1>3. ASSUME NEW r \in Runs, StartFails(r) PROVE TypeOK'
  BY <1>3, ConstAssumption
     DEF StartFails, Goto, guardVars, treeVars, hostVars, TypeOK, Pcs,
           GuardPcs, Statuses, Results
<1>4. ASSUME NEW r \in Runs, NewInterruptGuard(r) PROVE TypeOK'
  BY <1>4, ConstAssumption
     DEF NewInterruptGuard, Goto, treeVars, hostVars, TypeOK, Pcs, GuardPcs,
           Statuses, Results
<1>5. ASSUME NEW r \in Runs, ReadEOF(r) PROVE TypeOK'
  BY <1>5, ConstAssumption
     DEF ReadEOF, Goto, guardVars, treeVars, hostVars, TypeOK, Pcs, GuardPcs,
           Statuses, Results
<1>6. ASSUME NEW r \in Runs, ReadFails(r) PROVE TypeOK'
  BY <1>6, ConstAssumption
     DEF ReadFails, Goto, guardVars, treeVars, hostVars, TypeOK, Pcs,
           GuardPcs, Statuses, Results
<1>7. ASSUME NEW r \in Runs, WaitProcess(r) PROVE TypeOK'
  BY <1>7, ConstAssumption
     DEF WaitProcess, Goto, guardVars, hostVars, TypeOK, Pcs, GuardPcs,
           Statuses, Results
<1>8. ASSUME NEW r \in Runs, WaitCopy(r) PROVE TypeOK'
  BY <1>8, ConstAssumption
     DEF WaitCopy, Goto, guardVars, treeVars, hostVars, TypeOK, Pcs, GuardPcs,
           Statuses, Results
<1>9. ASSUME NEW r \in Runs, CopyFails(r) PROVE TypeOK'
  BY <1>9, ConstAssumption
     DEF CopyFails, Goto, guardVars, treeVars, hostVars, TypeOK, Pcs,
           GuardPcs, Statuses, Results
<1>10. ASSUME NEW r \in Runs, CheckInterrupted(r) PROVE TypeOK'
  BY <1>10, ConstAssumption
     DEF CheckInterrupted, Goto, guardVars, treeVars, hostVars, TypeOK, Pcs,
           GuardPcs, Statuses, Results, Verdict
<1>11. ASSUME NEW r \in Runs, StopNotify(r) PROVE TypeOK'
  BY <1>11, ConstAssumption
     DEF StopNotify, Goto, treeVars, hostVars, TypeOK, Pcs, GuardPcs,
           Statuses, Results
<1>12. ASSUME NEW r \in Runs, CloseDone(r) PROVE TypeOK'
  BY <1>12, ConstAssumption
     DEF CloseDone, Goto, treeVars, hostVars, TypeOK, Pcs, GuardPcs, Statuses,
           Results
<1>13. ASSUME NEW r \in Runs, JoinGuard(r) PROVE TypeOK'
  BY <1>13, ConstAssumption
     DEF JoinGuard, Goto, guardVars, treeVars, hostVars, TypeOK, Pcs,
           GuardPcs, Statuses, Results
<1>14. ASSUME NEW r \in Runs, RunSignal(r) PROVE TypeOK'
  BY <1>14, ConstAssumption
     DEF RunSignal, GuardGoto, callVars, treeVars, hostVars, TypeOK, Pcs,
           GuardPcs, Statuses, Results
<1>15. ASSUME NEW r \in Runs, RunDone(r) PROVE TypeOK'
  BY <1>15, ConstAssumption
     DEF RunDone, GuardGoto, callVars, treeVars, hostVars, TypeOK, Pcs,
           GuardPcs, Statuses, Results
<1>16. ASSUME NEW r \in Runs, StoreInterrupted(r) PROVE TypeOK'
  BY <1>16, ConstAssumption
     DEF StoreInterrupted, GuardGoto, callVars, treeVars, hostVars, TypeOK,
           Pcs, GuardPcs, Statuses, Results
<1>17. ASSUME NEW r \in Runs, InterruptDetached(r) PROVE TypeOK'
  BY <1>17, ConstAssumption
     DEF InterruptDetached, GuardGoto, callVars, treeVars, hostVars, TypeOK,
           Pcs, GuardPcs, Statuses, Results
<1>18. ASSUME NEW r \in Runs, GraceSignal(r) PROVE TypeOK'
  BY <1>18, ConstAssumption
     DEF GraceSignal, GuardGoto, callVars, treeVars, hostVars, TypeOK, Pcs,
           GuardPcs, Statuses, Results
<1>19. ASSUME NEW r \in Runs, GraceDone(r) PROVE TypeOK'
  BY <1>19, ConstAssumption
     DEF GraceDone, GuardGoto, callVars, treeVars, hostVars, TypeOK, Pcs,
           GuardPcs, Statuses, Results
<1>20. ASSUME NEW r \in Runs, GraceTimeout(r) PROVE TypeOK'
  BY <1>20, ConstAssumption
     DEF GraceTimeout, GuardGoto, callVars, treeVars, hostVars, TypeOK, Pcs,
           GuardPcs, Statuses, Results
<1>21. ASSUME NEW r \in Runs, KillDetached(r) PROVE TypeOK'
  BY <1>21, ConstAssumption
     DEF KillDetached, GuardGoto, callVars, hostVars, TypeOK, Pcs, GuardPcs,
           Statuses, Results
<1>22. ASSUME NEW r \in Runs, ChildExit(r) PROVE TypeOK'
  BY <1>22, ConstAssumption
     DEF ChildExit, callVars, guardVars, hostVars, TypeOK, Pcs, GuardPcs,
           Statuses, Results
<1>23. ASSUME NEW r \in Runs, NEW h \in Helpers, Fork(r, h) PROVE TypeOK'
  BY <1>23, ConstAssumption
     DEF Fork, callVars, guardVars, hostVars, TypeOK, Pcs, GuardPcs, Statuses,
           Results
<1>24. ASSUME NEW r \in Runs, NEW h \in Helpers, Escape(r, h) PROVE TypeOK'
  BY <1>24, ConstAssumption
     DEF Escape, callVars, guardVars, hostVars, TypeOK, Pcs, GuardPcs,
           Statuses, Results
<1>25. ASSUME NEW r \in Runs, NEW h \in Helpers, HelperExit(r, h) PROVE TypeOK'
  BY <1>25, ConstAssumption
     DEF HelperExit, callVars, guardVars, hostVars, TypeOK, Pcs, GuardPcs,
           Statuses, Results
<1>26. CASE Signal
  BY <1>26, ConstAssumption
     DEF Signal, callVars, treeVars, TypeOK, Pcs, GuardPcs, Statuses, Results,
           Offered
<1>27. QED
  BY <1>1, <1>2, <1>3, <1>4, <1>5, <1>6, <1>7, <1>8, <1>9, <1>10, <1>11,
       <1>12, <1>13, <1>14, <1>15, <1>16, <1>17, <1>18, <1>19, <1>20, <1>21,
       <1>22, <1>23, <1>24, <1>25, <1>26
     DEF Next, Call, Fails, Guard, Tree

\* Type correctness: every variable of CliExec keeps its type, for every value
\* of the constants.
THEOREM Typing == Spec => []TypeOK
<1>1. Init => TypeOK
  BY ConstAssumption DEF Init, TypeOK, Pcs, GuardPcs, Statuses, Results
<1>2. QED
  BY <1>1, TypingStep, PTL DEF Spec

\* Every step keeps the program counters, the guard and the tree in step.
LEMMA ShapeStep ==
  ASSUME TypeOK, Shape, [Next]_vars
  PROVE  Shape'
<1> USE DEF Shape, LeaderInv, TreeInv, GuardInv, RegisteredInv
<1>1. CASE UNCHANGED vars
  BY <1>1, ConstAssumption
     DEF vars, callVars, guardVars, treeVars, hostVars, TypeOK, Guarded,
           Reaped, Statuses, Pcs, GuardPcs
<1>2. ASSUME NEW r \in Runs, Start(r) PROVE Shape'
  BY <1>2, ConstAssumption
     DEF Start, Goto, guardVars, hostVars, TypeOK, Guarded, Reaped, Statuses,
           Pcs, GuardPcs, InUse
<1>3. ASSUME NEW r \in Runs, StartFails(r) PROVE Shape'
  BY <1>3, ConstAssumption
     DEF StartFails, Goto, guardVars, treeVars, hostVars, TypeOK, Guarded,
           Reaped, Statuses, Pcs, GuardPcs
<1>4. ASSUME NEW r \in Runs, NewInterruptGuard(r) PROVE Shape'
  BY <1>4, ConstAssumption
     DEF NewInterruptGuard, Goto, treeVars, hostVars, TypeOK, Guarded, Reaped,
           Statuses, Pcs, GuardPcs
<1>5. ASSUME NEW r \in Runs, ReadEOF(r) PROVE Shape'
  BY <1>5, ConstAssumption
     DEF ReadEOF, Goto, guardVars, treeVars, hostVars, TypeOK, Guarded,
           Reaped, Statuses, Pcs, GuardPcs
<1>6. ASSUME NEW r \in Runs, ReadFails(r) PROVE Shape'
  BY <1>6, ConstAssumption
     DEF ReadFails, Goto, guardVars, treeVars, hostVars, TypeOK, Guarded,
           Reaped, Statuses, Pcs, GuardPcs
<1>7. ASSUME NEW r \in Runs, WaitProcess(r) PROVE Shape'
  BY <1>7, ConstAssumption
     DEF WaitProcess, Goto, guardVars, hostVars, TypeOK, Guarded, Reaped,
           Statuses, Pcs, GuardPcs
<1>8. ASSUME NEW r \in Runs, WaitCopy(r) PROVE Shape'
  BY <1>8, ConstAssumption
     DEF WaitCopy, Goto, guardVars, treeVars, hostVars, TypeOK, Guarded,
           Reaped, Statuses, Pcs, GuardPcs
<1>9. ASSUME NEW r \in Runs, CopyFails(r) PROVE Shape'
  BY <1>9, ConstAssumption
     DEF CopyFails, Goto, guardVars, treeVars, hostVars, TypeOK, Guarded,
           Reaped, Statuses, Pcs, GuardPcs
<1>10. ASSUME NEW r \in Runs, CheckInterrupted(r) PROVE Shape'
  BY <1>10, ConstAssumption
     DEF CheckInterrupted, Goto, guardVars, treeVars, hostVars, TypeOK,
           Guarded, Reaped, Statuses, Pcs, GuardPcs
<1>11. ASSUME NEW r \in Runs, StopNotify(r) PROVE Shape'
  BY <1>11, ConstAssumption
     DEF StopNotify, Goto, treeVars, hostVars, TypeOK, Guarded, Reaped,
           Statuses, Pcs, GuardPcs
<1>12. ASSUME NEW r \in Runs, CloseDone(r) PROVE Shape'
  BY <1>12, ConstAssumption
     DEF CloseDone, Goto, treeVars, hostVars, TypeOK, Guarded, Reaped,
           Statuses, Pcs, GuardPcs
<1>13. ASSUME NEW r \in Runs, JoinGuard(r) PROVE Shape'
  BY <1>13, ConstAssumption
     DEF JoinGuard, Goto, guardVars, treeVars, hostVars, TypeOK, Guarded,
           Reaped, Statuses, Pcs, GuardPcs
<1>14. ASSUME NEW r \in Runs, RunSignal(r) PROVE Shape'
  BY <1>14, ConstAssumption
     DEF RunSignal, GuardGoto, callVars, treeVars, hostVars, TypeOK, Guarded,
           Reaped, Statuses, Pcs, GuardPcs
<1>15. ASSUME NEW r \in Runs, RunDone(r) PROVE Shape'
  BY <1>15, ConstAssumption
     DEF RunDone, GuardGoto, callVars, treeVars, hostVars, TypeOK, Guarded,
           Reaped, Statuses, Pcs, GuardPcs
<1>16. ASSUME NEW r \in Runs, StoreInterrupted(r) PROVE Shape'
  BY <1>16, ConstAssumption
     DEF StoreInterrupted, GuardGoto, callVars, treeVars, hostVars, TypeOK,
           Guarded, Reaped, Statuses, Pcs, GuardPcs
<1>17. ASSUME NEW r \in Runs, InterruptDetached(r) PROVE Shape'
  BY <1>17, ConstAssumption
     DEF InterruptDetached, GuardGoto, callVars, treeVars, hostVars, TypeOK,
           Guarded, Reaped, Statuses, Pcs, GuardPcs
<1>18. ASSUME NEW r \in Runs, GraceSignal(r) PROVE Shape'
  BY <1>18, ConstAssumption
     DEF GraceSignal, GuardGoto, callVars, treeVars, hostVars, TypeOK,
           Guarded, Reaped, Statuses, Pcs, GuardPcs
<1>19. ASSUME NEW r \in Runs, GraceDone(r) PROVE Shape'
  BY <1>19, ConstAssumption
     DEF GraceDone, GuardGoto, callVars, treeVars, hostVars, TypeOK, Guarded,
           Reaped, Statuses, Pcs, GuardPcs
<1>20. ASSUME NEW r \in Runs, GraceTimeout(r) PROVE Shape'
  BY <1>20, ConstAssumption
     DEF GraceTimeout, GuardGoto, callVars, treeVars, hostVars, TypeOK,
           Guarded, Reaped, Statuses, Pcs, GuardPcs
<1>21. ASSUME NEW r \in Runs, KillDetached(r) PROVE Shape'
  BY <1>21, ConstAssumption
     DEF KillDetached, GuardGoto, callVars, hostVars, TypeOK, Guarded, Reaped,
           Statuses, Pcs, GuardPcs, KillTargets, Swept
<1>22. ASSUME NEW r \in Runs, ChildExit(r) PROVE Shape'
  BY <1>22, ConstAssumption
     DEF ChildExit, callVars, guardVars, hostVars, TypeOK, Guarded, Reaped,
           Statuses, Pcs, GuardPcs
<1>23. ASSUME NEW r \in Runs, NEW h \in Helpers, Fork(r, h) PROVE Shape'
  BY <1>23, ConstAssumption
     DEF Fork, callVars, guardVars, hostVars, TypeOK, Guarded, Reaped,
           Statuses, Pcs, GuardPcs
<1>24. ASSUME NEW r \in Runs, NEW h \in Helpers, Escape(r, h) PROVE Shape'
  BY <1>24, ConstAssumption
     DEF Escape, callVars, guardVars, hostVars, TypeOK, Guarded, Reaped,
           Statuses, Pcs, GuardPcs
<1>25. ASSUME NEW r \in Runs, NEW h \in Helpers, HelperExit(r, h) PROVE Shape'
  BY <1>25, ConstAssumption
     DEF HelperExit, callVars, guardVars, hostVars, TypeOK, Guarded, Reaped,
           Statuses, Pcs, GuardPcs
<1>26. CASE Signal
  BY <1>26, ConstAssumption
     DEF Signal, callVars, treeVars, TypeOK, Guarded, Reaped, Statuses, Pcs,
           GuardPcs
<1>27. QED
  BY <1>1, <1>2, <1>3, <1>4, <1>5, <1>6, <1>7, <1>8, <1>9, <1>10, <1>11,
       <1>12, <1>13, <1>14, <1>15, <1>16, <1>17, <1>18, <1>19, <1>20, <1>21,
       <1>22, <1>23, <1>24, <1>25, <1>26
     DEF Next, Call, Fails, Guard, Tree

\* No step gives the number of one tree in use to another.
LEMMA PidStep ==
  ASSUME TypeOK, Shape, PidExclusive, [Next]_vars
  PROVE  PidExclusive'
<1> USE DEF PidExclusive, Used
<1>1. CASE UNCHANGED <<leader, pid, group>>
  BY <1>1, ConstAssumption DEF TypeOK, Shape, TreeInv, LeaderInv
<1>2. ASSUME NEW r \in Runs, Start(r) PROVE PidExclusive'
  BY <1>2, ConstAssumption
     DEF Start, Goto, guardVars, hostVars, TypeOK, Shape, TreeInv, LeaderInv,
         InUse
<1>3. ASSUME NEW r \in Runs, WaitProcess(r) PROVE PidExclusive'
  BY <1>3, ConstAssumption
     DEF WaitProcess, Goto, guardVars, hostVars, TypeOK, Shape, TreeInv,
         LeaderInv
<1>4. ASSUME NEW r \in Runs, KillDetached(r) PROVE PidExclusive'
  BY <1>4, ConstAssumption
     DEF KillDetached, GuardGoto, callVars, hostVars, TypeOK, Shape, TreeInv,
         LeaderInv, KillTargets, Swept
<1>5. ASSUME NEW r \in Runs, ChildExit(r) PROVE PidExclusive'
  BY <1>5, ConstAssumption
     DEF ChildExit, callVars, guardVars, hostVars, TypeOK, Shape, TreeInv,
         LeaderInv
<1>6. ASSUME NEW r \in Runs, NEW h \in Helpers, Fork(r, h) PROVE PidExclusive'
  BY <1>6, ConstAssumption
     DEF Fork, callVars, guardVars, hostVars, TypeOK, Shape, TreeInv, LeaderInv
<1>7. ASSUME NEW r \in Runs, NEW h \in Helpers, Escape(r, h) PROVE PidExclusive'
  BY <1>7, ConstAssumption
     DEF Escape, callVars, guardVars, hostVars, TypeOK, Shape, TreeInv,
         LeaderInv
<1>8. ASSUME NEW r \in Runs, NEW h \in Helpers, HelperExit(r, h)
      PROVE PidExclusive'
  BY <1>8, ConstAssumption
     DEF HelperExit, callVars, guardVars, hostVars, TypeOK, Shape, TreeInv,
         LeaderInv
<1>9. CASE UNCHANGED vars
  BY <1>1, <1>9 DEF vars, callVars, guardVars, treeVars, hostVars
<1>10. ASSUME NEW r \in Runs,
             StartFails(r) \/ NewInterruptGuard(r) \/ ReadEOF(r)
             \/ ReadFails(r) \/ WaitCopy(r) \/ CopyFails(r)
             \/ CheckInterrupted(r) \/ StopNotify(r) \/ CloseDone(r)
             \/ JoinGuard(r) \/ RunSignal(r) \/ RunDone(r)
             \/ StoreInterrupted(r) \/ InterruptDetached(r) \/ GraceSignal(r)
             \/ GraceDone(r) \/ GraceTimeout(r)
       PROVE  PidExclusive'
  BY <1>1, <1>10
     DEF StartFails, Goto, guardVars, treeVars, hostVars, NewInterruptGuard,
         ReadEOF, ReadFails, WaitCopy, CopyFails, CheckInterrupted, StopNotify,
         CloseDone, JoinGuard, RunSignal, GuardGoto, callVars, RunDone,
         StoreInterrupted, InterruptDetached, GraceSignal, GraceDone,
         GraceTimeout
<1>11. CASE Signal
  BY <1>1, <1>11 DEF Signal, callVars, treeVars
<1>12. QED
  BY <1>2, <1>3, <1>4, <1>5, <1>6, <1>7, <1>8, <1>9, <1>10, <1>11
     DEF Next, Call, Fails, Guard, Tree

\* A child is killed by a guard, after that guard has recorded the interrupt.
LEMMA KillStep ==
  ASSUME TypeOK, Shape, \A r \in Runs : KillExplained(r), [Next]_vars
  PROVE  \A r \in Runs : KillExplained(r)'
<1> USE DEF KillExplained
<1>1. CASE UNCHANGED <<pid, status, interrupted>>
  BY <1>1, ConstAssumption DEF TypeOK, Shape, TreeInv, LeaderInv, GuardInv
<1>2. ASSUME NEW r \in Runs, Start(r) PROVE \A q \in Runs : KillExplained(q)'
  BY <1>2, ConstAssumption
     DEF Start, Goto, guardVars, hostVars, TypeOK, Shape, TreeInv, LeaderInv,
         GuardInv
<1>3. ASSUME NEW r \in Runs, StoreInterrupted(r)
      PROVE \A q \in Runs : KillExplained(q)'
  BY <1>3, ConstAssumption
     DEF StoreInterrupted, GuardGoto, callVars, treeVars, hostVars, TypeOK,
         Shape, TreeInv, LeaderInv, GuardInv
<1>4. ASSUME NEW r \in Runs, KillDetached(r)
      PROVE \A q \in Runs : KillExplained(q)'
  BY <1>4, ConstAssumption
     DEF KillDetached, GuardGoto, callVars, hostVars, TypeOK, Shape, TreeInv,
         LeaderInv, GuardInv, KillTargets, Swept
<1>5. ASSUME NEW r \in Runs, ChildExit(r)
      PROVE \A q \in Runs : KillExplained(q)'
  BY <1>5, ConstAssumption
     DEF ChildExit, callVars, guardVars, hostVars, TypeOK, Shape, TreeInv,
         LeaderInv, GuardInv
<1>6. CASE UNCHANGED vars
  BY <1>1, <1>6 DEF vars, callVars, guardVars, treeVars, hostVars
<1>7. ASSUME NEW r \in Runs,
             StartFails(r) \/ NewInterruptGuard(r) \/ ReadEOF(r)
             \/ ReadFails(r) \/ WaitProcess(r) \/ WaitCopy(r) \/ CopyFails(r)
             \/ CheckInterrupted(r) \/ StopNotify(r) \/ CloseDone(r)
             \/ JoinGuard(r) \/ RunSignal(r) \/ RunDone(r)
             \/ InterruptDetached(r) \/ GraceSignal(r) \/ GraceDone(r)
             \/ GraceTimeout(r)
       PROVE  \A q \in Runs : KillExplained(q)'
  BY <1>1, <1>7
     DEF StartFails, Goto, guardVars, treeVars, hostVars, NewInterruptGuard,
         ReadEOF, ReadFails, WaitProcess, WaitCopy, CopyFails, CheckInterrupted,
         StopNotify, CloseDone, JoinGuard, RunSignal, GuardGoto, callVars,
         RunDone, InterruptDetached, GraceSignal, GraceDone, GraceTimeout
<1>8. ASSUME NEW r \in Runs, NEW h \in Helpers, Fork(r, h) \/ Escape(r, h)
\/ HelperExit(r, h)
       PROVE  \A q \in Runs : KillExplained(q)'
  BY <1>1, <1>8 DEF Fork, callVars, guardVars, hostVars, Escape, HelperExit
<1>9. CASE Signal
  BY <1>1, <1>9 DEF Signal, callVars, treeVars
<1>10. QED
  BY <1>2, <1>3, <1>4, <1>5, <1>6, <1>7, <1>8, <1>9 DEF Next, Call, Fails, Guard, Tree

\* Whoever is past the end of the stream stays the last of its writers, and a
\* verdict of nil is only taken there.
OutputInv == (\A r \in Runs : DrainedInv(r)) /\ OkMeansWholeOutput

LEMMA OutputStep ==
  ASSUME TypeOK, Shape, OutputInv, [Next]_vars
  PROVE  OutputInv'
<1> USE DEF OutputInv, DrainedInv, OkMeansWholeOutput, PipeClosed
<1>1. CASE UNCHANGED <<pc, scanErr, result, leader, holders>>
  BY <1>1, ConstAssumption DEF TypeOK, Shape, TreeInv, LeaderInv, Pcs
<1>2. ASSUME NEW r \in Runs, Start(r) PROVE OutputInv'
  BY <1>2, ConstAssumption
     DEF Start, Goto, guardVars, hostVars, TypeOK, Shape, TreeInv, LeaderInv,
         Pcs
<1>3. ASSUME NEW r \in Runs, StartFails(r) PROVE OutputInv'
  BY <1>3, ConstAssumption
     DEF StartFails, Goto, guardVars, treeVars, hostVars, TypeOK, Shape,
         TreeInv, LeaderInv, Pcs
<1>4. ASSUME NEW r \in Runs, NewInterruptGuard(r) PROVE OutputInv'
  BY <1>4, ConstAssumption
     DEF NewInterruptGuard, Goto, treeVars, hostVars, TypeOK, Shape, TreeInv,
         LeaderInv, Pcs
<1>5. ASSUME NEW r \in Runs, ReadEOF(r) PROVE OutputInv'
  BY <1>5, ConstAssumption
     DEF ReadEOF, Goto, guardVars, treeVars, hostVars, TypeOK, Shape, TreeInv,
         LeaderInv, Pcs
<1>6. ASSUME NEW r \in Runs, ReadFails(r) PROVE OutputInv'
  BY <1>6, ConstAssumption
     DEF ReadFails, Goto, guardVars, treeVars, hostVars, TypeOK, Shape, TreeInv,
         LeaderInv, Pcs
<1>7. ASSUME NEW r \in Runs, WaitProcess(r) PROVE OutputInv'
  BY <1>7, ConstAssumption
     DEF WaitProcess, Goto, guardVars, hostVars, TypeOK, Shape, TreeInv,
         LeaderInv, Pcs
<1>8. ASSUME NEW r \in Runs, WaitCopy(r) PROVE OutputInv'
  BY <1>8, ConstAssumption
     DEF WaitCopy, Goto, guardVars, treeVars, hostVars, TypeOK, Shape, TreeInv,
         LeaderInv, Pcs
<1>9. ASSUME NEW r \in Runs, CopyFails(r) PROVE OutputInv'
  BY <1>9, ConstAssumption
     DEF CopyFails, Goto, guardVars, treeVars, hostVars, TypeOK, Shape, TreeInv,
         LeaderInv, Pcs
<1>10. ASSUME NEW r \in Runs, CheckInterrupted(r) PROVE OutputInv'
  BY <1>10, ConstAssumption
     DEF CheckInterrupted, Goto, guardVars, treeVars, hostVars, TypeOK, Shape,
         TreeInv, LeaderInv, Pcs, Verdict
<1>11. ASSUME NEW r \in Runs, StopNotify(r) PROVE OutputInv'
  BY <1>11, ConstAssumption
     DEF StopNotify, Goto, treeVars, hostVars, TypeOK, Shape, TreeInv,
         LeaderInv, Pcs
<1>12. ASSUME NEW r \in Runs, CloseDone(r) PROVE OutputInv'
  BY <1>12, ConstAssumption
     DEF CloseDone, Goto, treeVars, hostVars, TypeOK, Shape, TreeInv, LeaderInv,
         Pcs
<1>13. ASSUME NEW r \in Runs, JoinGuard(r) PROVE OutputInv'
  BY <1>13, ConstAssumption
     DEF JoinGuard, Goto, guardVars, treeVars, hostVars, TypeOK, Shape, TreeInv,
         LeaderInv, Pcs
<1>14. ASSUME NEW r \in Runs, KillDetached(r) PROVE OutputInv'
  BY <1>14, ConstAssumption
     DEF KillDetached, GuardGoto, callVars, hostVars, TypeOK, Shape, TreeInv,
         LeaderInv, Pcs, KillTargets, Swept
<1>15. ASSUME NEW r \in Runs, ChildExit(r) PROVE OutputInv'
  BY <1>15, ConstAssumption
     DEF ChildExit, callVars, guardVars, hostVars, TypeOK, Shape, TreeInv,
         LeaderInv, Pcs
<1>16. ASSUME NEW r \in Runs, NEW h \in Helpers, Fork(r, h) PROVE OutputInv'
  BY <1>16, ConstAssumption
     DEF Fork, callVars, guardVars, hostVars, TypeOK, Shape, TreeInv, LeaderInv,
         Pcs
<1>17. ASSUME NEW r \in Runs, NEW h \in Helpers, Escape(r, h) PROVE OutputInv'
  BY <1>17, ConstAssumption
     DEF Escape, callVars, guardVars, hostVars, TypeOK, Shape, TreeInv,
         LeaderInv, Pcs
<1>18. ASSUME NEW r \in Runs, NEW h \in Helpers, HelperExit(r, h)
      PROVE OutputInv'
  BY <1>18, ConstAssumption
     DEF HelperExit, callVars, guardVars, hostVars, TypeOK, Shape, TreeInv,
         LeaderInv, Pcs
<1>19. CASE UNCHANGED vars
  BY <1>1, <1>19 DEF vars, callVars, guardVars, treeVars, hostVars
<1>20. ASSUME NEW r \in Runs,
             RunSignal(r) \/ RunDone(r) \/ StoreInterrupted(r)
             \/ InterruptDetached(r) \/ GraceSignal(r) \/ GraceDone(r)
             \/ GraceTimeout(r)
       PROVE  OutputInv'
  BY <1>1, <1>20
     DEF RunSignal, GuardGoto, callVars, treeVars, hostVars, RunDone,
         StoreInterrupted, InterruptDetached, GraceSignal, GraceDone,
         GraceTimeout
<1>21. CASE Signal
  BY <1>1, <1>21 DEF Signal, callVars, treeVars
<1>22. QED
  BY <1>2, <1>3, <1>4, <1>5, <1>6, <1>7, <1>8, <1>9, <1>10, <1>11, <1>12, <1>13,
     <1>14, <1>15, <1>16, <1>17, <1>18, <1>19, <1>20, <1>21
     DEF Next, Call, Fails, Guard, Tree

\* A verdict of "killed" is taken with the call's own flag down.
LEMMA OwnKillStep ==
  ASSUME TypeOK, Shape, OwnKillReportsInterrupted,
         \A r \in Runs : KillExplained(r), [Next]_vars
  PROVE  OwnKillReportsInterrupted'
<1> USE DEF OwnKillReportsInterrupted, KillExplained
<1>1. CASE UNCHANGED <<pid, result, interrupted>>
  BY <1>1, ConstAssumption DEF TypeOK, Shape, TreeInv, LeaderInv, GuardInv
<1>2. ASSUME NEW r \in Runs, Start(r) PROVE OwnKillReportsInterrupted'
  BY <1>2, ConstAssumption
     DEF Start, Goto, guardVars, hostVars, TypeOK, Shape, TreeInv, LeaderInv,
         GuardInv
<1>3. ASSUME NEW r \in Runs, StartFails(r) PROVE OwnKillReportsInterrupted'
  BY <1>3, ConstAssumption
     DEF StartFails, Goto, guardVars, treeVars, hostVars, TypeOK, Shape,
         TreeInv, LeaderInv, GuardInv
<1>4. ASSUME NEW r \in Runs, CheckInterrupted(r)
      PROVE OwnKillReportsInterrupted'
  BY <1>4, ConstAssumption
     DEF CheckInterrupted, Goto, guardVars, treeVars, hostVars, TypeOK, Shape,
         TreeInv, LeaderInv, GuardInv, Verdict
<1>5. ASSUME NEW r \in Runs, StoreInterrupted(r)
      PROVE OwnKillReportsInterrupted'
  BY <1>5, ConstAssumption
     DEF StoreInterrupted, GuardGoto, callVars, treeVars, hostVars, TypeOK,
         Shape, TreeInv, LeaderInv, GuardInv
<1>6. CASE UNCHANGED vars
  BY <1>1, <1>6 DEF vars, callVars, guardVars, treeVars, hostVars
<1>7. ASSUME NEW r \in Runs,
             NewInterruptGuard(r) \/ ReadEOF(r) \/ ReadFails(r)
             \/ WaitProcess(r) \/ WaitCopy(r) \/ CopyFails(r)
             \/ StopNotify(r) \/ CloseDone(r) \/ JoinGuard(r) \/ RunSignal(r)
             \/ RunDone(r) \/ InterruptDetached(r) \/ GraceSignal(r)
             \/ GraceDone(r) \/ GraceTimeout(r) \/ KillDetached(r)
             \/ ChildExit(r)
       PROVE  OwnKillReportsInterrupted'
  BY <1>1, <1>7
     DEF NewInterruptGuard, Goto, treeVars, hostVars, ReadEOF, guardVars,
         ReadFails, WaitProcess, WaitCopy, CopyFails, StopNotify, CloseDone,
         JoinGuard, RunSignal, GuardGoto, callVars, RunDone, InterruptDetached,
         GraceSignal, GraceDone, GraceTimeout, KillDetached, ChildExit
<1>8. ASSUME NEW r \in Runs, NEW h \in Helpers, Fork(r, h) \/ Escape(r, h)
\/ HelperExit(r, h)
       PROVE  OwnKillReportsInterrupted'
  BY <1>1, <1>8 DEF Fork, callVars, guardVars, hostVars, Escape, HelperExit
<1>9. CASE Signal
  BY <1>1, <1>9 DEF Signal, callVars, treeVars
<1>10. QED
  BY <1>2, <1>3, <1>4, <1>5, <1>6, <1>7, <1>8, <1>9 DEF Next, Call, Fails, Guard, Tree

\* A call leaves its guard behind only once it has exited.
LEMMA ScopeStep ==
  ASSUME TypeOK, Shape, GuardScoped, [Next]_vars
  PROVE  GuardScoped'
<1> USE DEF GuardScoped
<1>1. CASE UNCHANGED <<pc, result, registered, guard>>
  BY <1>1, ConstAssumption DEF TypeOK, Shape, RegisteredInv, GuardInv, Guarded
<1>2. ASSUME NEW r \in Runs, Start(r) PROVE GuardScoped'
  BY <1>2, ConstAssumption
     DEF Start, Goto, guardVars, hostVars, TypeOK, Shape, RegisteredInv,
         GuardInv, Guarded
<1>3. ASSUME NEW r \in Runs, StartFails(r) PROVE GuardScoped'
  BY <1>3, ConstAssumption
     DEF StartFails, Goto, guardVars, treeVars, hostVars, TypeOK, Shape,
         RegisteredInv, GuardInv, Guarded
<1>4. ASSUME NEW r \in Runs, NewInterruptGuard(r) PROVE GuardScoped'
  BY <1>4, ConstAssumption
     DEF NewInterruptGuard, Goto, treeVars, hostVars, TypeOK, Shape,
         RegisteredInv, GuardInv, Guarded
<1>5. ASSUME NEW r \in Runs, ReadEOF(r) PROVE GuardScoped'
  BY <1>5, ConstAssumption
     DEF ReadEOF, Goto, guardVars, treeVars, hostVars, TypeOK, Shape,
         RegisteredInv, GuardInv, Guarded
<1>6. ASSUME NEW r \in Runs, ReadFails(r) PROVE GuardScoped'
  BY <1>6, ConstAssumption
     DEF ReadFails, Goto, guardVars, treeVars, hostVars, TypeOK, Shape,
         RegisteredInv, GuardInv, Guarded
<1>7. ASSUME NEW r \in Runs, WaitProcess(r) PROVE GuardScoped'
  BY <1>7, ConstAssumption
     DEF WaitProcess, Goto, guardVars, hostVars, TypeOK, Shape, RegisteredInv,
         GuardInv, Guarded
<1>8. ASSUME NEW r \in Runs, WaitCopy(r) PROVE GuardScoped'
  BY <1>8, ConstAssumption
     DEF WaitCopy, Goto, guardVars, treeVars, hostVars, TypeOK, Shape,
         RegisteredInv, GuardInv, Guarded
<1>9. ASSUME NEW r \in Runs, CopyFails(r) PROVE GuardScoped'
  BY <1>9, ConstAssumption
     DEF CopyFails, Goto, guardVars, treeVars, hostVars, TypeOK, Shape,
         RegisteredInv, GuardInv, Guarded
<1>10. ASSUME NEW r \in Runs, CheckInterrupted(r) PROVE GuardScoped'
  BY <1>10, ConstAssumption
     DEF CheckInterrupted, Goto, guardVars, treeVars, hostVars, TypeOK, Shape,
         RegisteredInv, GuardInv, Guarded, Verdict
<1>11. ASSUME NEW r \in Runs, StopNotify(r) PROVE GuardScoped'
  BY <1>11, ConstAssumption
     DEF StopNotify, Goto, treeVars, hostVars, TypeOK, Shape, RegisteredInv,
         GuardInv, Guarded
<1>12. ASSUME NEW r \in Runs, CloseDone(r) PROVE GuardScoped'
  BY <1>12, ConstAssumption
     DEF CloseDone, Goto, treeVars, hostVars, TypeOK, Shape, RegisteredInv,
         GuardInv, Guarded
<1>13. ASSUME NEW r \in Runs, JoinGuard(r) PROVE GuardScoped'
  BY <1>13, ConstAssumption
     DEF JoinGuard, Goto, guardVars, treeVars, hostVars, TypeOK, Shape,
         RegisteredInv, GuardInv, Guarded
<1>14. ASSUME NEW r \in Runs, RunSignal(r) PROVE GuardScoped'
  BY <1>14, ConstAssumption
     DEF RunSignal, GuardGoto, callVars, treeVars, hostVars, TypeOK, Shape,
         RegisteredInv, GuardInv, Guarded
<1>15. ASSUME NEW r \in Runs, RunDone(r) PROVE GuardScoped'
  BY <1>15, ConstAssumption
     DEF RunDone, GuardGoto, callVars, treeVars, hostVars, TypeOK, Shape,
         RegisteredInv, GuardInv, Guarded
<1>16. ASSUME NEW r \in Runs, StoreInterrupted(r) PROVE GuardScoped'
  BY <1>16, ConstAssumption
     DEF StoreInterrupted, GuardGoto, callVars, treeVars, hostVars, TypeOK,
         Shape, RegisteredInv, GuardInv, Guarded
<1>17. ASSUME NEW r \in Runs, InterruptDetached(r) PROVE GuardScoped'
  BY <1>17, ConstAssumption
     DEF InterruptDetached, GuardGoto, callVars, treeVars, hostVars, TypeOK,
         Shape, RegisteredInv, GuardInv, Guarded
<1>18. ASSUME NEW r \in Runs, GraceSignal(r) PROVE GuardScoped'
  BY <1>18, ConstAssumption
     DEF GraceSignal, GuardGoto, callVars, treeVars, hostVars, TypeOK, Shape,
         RegisteredInv, GuardInv, Guarded
<1>19. ASSUME NEW r \in Runs, GraceDone(r) PROVE GuardScoped'
  BY <1>19, ConstAssumption
     DEF GraceDone, GuardGoto, callVars, treeVars, hostVars, TypeOK, Shape,
         RegisteredInv, GuardInv, Guarded
<1>20. ASSUME NEW r \in Runs, GraceTimeout(r) PROVE GuardScoped'
  BY <1>20, ConstAssumption
     DEF GraceTimeout, GuardGoto, callVars, treeVars, hostVars, TypeOK, Shape,
         RegisteredInv, GuardInv, Guarded
<1>21. ASSUME NEW r \in Runs, KillDetached(r) PROVE GuardScoped'
  BY <1>21, ConstAssumption
     DEF KillDetached, GuardGoto, callVars, hostVars, TypeOK, Shape,
         RegisteredInv, GuardInv, Guarded
<1>22. CASE UNCHANGED vars
  BY <1>1, <1>22 DEF vars, callVars, guardVars, treeVars, hostVars
<1>23. ASSUME NEW r \in Runs,
             ChildExit(r)
       PROVE  GuardScoped'
  BY <1>1, <1>23 DEF ChildExit, callVars, guardVars, hostVars
<1>24. ASSUME NEW r \in Runs, NEW h \in Helpers, Fork(r, h) \/ Escape(r, h)
\/ HelperExit(r, h)
       PROVE  GuardScoped'
  BY <1>1, <1>24 DEF Fork, callVars, guardVars, hostVars, Escape, HelperExit
<1>25. CASE Signal
  BY <1>1, <1>25 DEF Signal, callVars, treeVars
<1>26. QED
  BY <1>2, <1>3, <1>4, <1>5, <1>6, <1>7, <1>8, <1>9, <1>10, <1>11, <1>12, <1>13,
     <1>14, <1>15, <1>16, <1>17, <1>18, <1>19, <1>20, <1>21, <1>22, <1>23,
     <1>24, <1>25
     DEF Next, Call, Fails, Guard, Tree
--------------------------------------------------------------------------------
\* The strengthening of the safety invariants is an invariant.
THEOREM Inductive == Spec => []IInv
<1>1. Init => IInv
  BY ConstAssumption
     DEF Init, IInv, TypeOK, Pcs, GuardPcs, Statuses, Results, Shape, LeaderInv,
         TreeInv, GuardInv, RegisteredInv, Guarded, Reaped, PidExclusive, Used,
         KillExplained, DrainedInv, PipeClosed, GuardScoped,
         OwnKillReportsInterrupted, OkMeansWholeOutput
<1>2. IInv /\ [Next]_vars => IInv'
  <2> SUFFICES ASSUME IInv, [Next]_vars PROVE IInv'
    OBVIOUS
  <2>1. TypeOK'
    BY TypingStep DEF IInv
  <2>2. Shape'
    BY ShapeStep DEF IInv
  <2>3. PidExclusive'
    BY PidStep DEF IInv
  <2>4. \A r \in Runs : KillExplained(r)'
    BY KillStep DEF IInv
  <2>5. OutputInv'
    BY OutputStep DEF IInv, OutputInv
  <2>6. OwnKillReportsInterrupted'
    BY OwnKillStep DEF IInv
  <2>7. GuardScoped'
    BY ScopeStep DEF IInv
  <2>8. QED
    BY <2>1, <2>2, <2>3, <2>4, <2>5, <2>6, <2>7 DEF IInv, OutputInv
<1>3. QED
  BY <1>1, <1>2, PTL DEF Spec

\* After a call that spawned a child has returned, its channel is not
\* registered and its guard goroutine has ended.
THEOREM Scoped == Spec => []GuardScoped
<1>1. IInv => GuardScoped
  BY DEF IInv
<1>2. QED
  BY <1>1, Inductive, PTL

\* A call never hides a kill of its own guard: its result is ErrInterrupted.
THEOREM OwnKillReported == Spec => []OwnKillReportsInterrupted
<1>1. IInv => OwnKillReportsInterrupted
  BY DEF IInv
<1>2. QED
  BY <1>1, Inductive, PTL

\* A call that returns nil has read all that was written to its child's stdout.
THEOREM WholeOutput == Spec => []OkMeansWholeOutput
<1>1. IInv => OkMeansWholeOutput
  BY DEF IInv
<1>2. QED
  BY <1>1, Inductive, PTL

\* A hard kill reaches another call's tree only on unix, and only from a guard
\* whose own child was waited for and whose group is empty.
THEOREM OthersSpared == Spec => SparesOthers
<1>1. ASSUME IInv, NEW r \in Runs, NEW q \in Runs, KillDetached(r), q # r,
             <<leader[q], group[q], holders[q]>>' # <<leader[q], group[q], holders[q]>>
      PROVE  Unix /\ leader[r] = "reaped" /\ group[r] = {}
  <2>1. leader[r] # "none"
    BY <1>1 DEF IInv, Shape, GuardInv, KillDetached, GuardGoto
  <2>2. Unix /\ pid[q] = pid[r]
    BY <1>1 DEF IInv, TypeOK, KillDetached, KillTargets, Swept
  <2>3. Used(q)
    BY <1>1 DEF IInv, TypeOK, KillDetached, KillTargets, Swept, Used
  <2>4. ~Used(r)
    BY <1>1, <2>2, <2>3 DEF IInv, PidExclusive
  <2>5. QED
    BY <2>1, <2>2, <2>4, <1>1 DEF Used, IInv, TypeOK
<1>2. IInv => [\A r, q \in Runs :
                 /\ KillDetached(r)
                 /\ q # r
                 /\ <<leader[q], group[q], holders[q]>>' # <<leader[q], group[q], holders[q]>>
                 => Unix /\ leader[r] = "reaped" /\ group[r] = {}]_vars
  BY <1>1
<1>3. QED
  BY <1>2, Inductive, PTL DEF SparesOthers

\* A signal can end the host only when no call is between the installation of
\* its guard and the first step of the guard's teardown.
THEOREM HostShielded == Spec => GuardedCallsShieldHost
<1>1. ASSUME IInv, [Next]_vars, hostUp /\ ~hostUp', NEW r \in Runs
      PROVE  pc[r] \in {"idle", "started", "closeDone", "joining", "returned"}
  <2>1. Signal
    BY <1>1
       DEF Next, Call, Fails, Guard, Tree, vars, hostVars, Start, StartFails,
           NewInterruptGuard, ReadEOF, ReadFails, WaitProcess, WaitCopy,
           CopyFails, CheckInterrupted, StopNotify, CloseDone, JoinGuard,
           RunSignal, RunDone, StoreInterrupted, InterruptDetached, GraceSignal,
           GraceDone, GraceTimeout, KillDetached, ChildExit, Fork, Escape,
           HelperExit
  <2>2. ~registered[r]
    BY <1>1, <2>1 DEF Signal
  <2>3. QED
    BY <1>1, <2>2 DEF IInv, TypeOK, Pcs, Shape, RegisteredInv, Guarded
<1>2. IInv /\ [Next]_vars =>
        [hostUp /\ ~hostUp' =>
           \A r \in Runs :
             pc[r] \in {"idle", "started", "closeDone", "joining", "returned"}]_vars
  BY <1>1
<1>3. QED
  BY <1>2, Inductive, PTL DEF Spec, GuardedCallsShieldHost

--------------------------------------------------------------------------------
(* CliExec implements GuardedCall: six of its actions are the six of the   *)
(* abstract specification, every other step leaves what a caller sees.     *)

\* Start is Spawn.
LEMMA StartIsSpawn ==
  ASSUME IInv, TypeOK', NEW r \in Runs, Start(r)
  PROVE  GC!Spawn(r)
<1>1. Phase(r) = "idle"
  BY DEF Start, Goto, guardVars, hostVars, Phase
<1>2. \A q \in Runs : Phase(q)' = IF q = r THEN "running" ELSE Phase(q)
  BY DEF Start, Goto, guardVars, hostVars, Phase, IInv, TypeOK
<1>3. \A q \in Runs : Child(q)' = IF q = r THEN "present" ELSE Child(q)
  BY DEF Start, Goto, guardVars, hostVars, Child, IInv, TypeOK
<1>4. QED
  BY <1>1, <1>2, <1>3
     DEF Start, Goto, guardVars, hostVars, GC!Spawn

\* StartFails is Refuse.
LEMMA StartFailsIsRefuse ==
  ASSUME IInv, TypeOK', NEW r \in Runs, StartFails(r)
  PROVE  GC!Refuse(r)
<1>1. Phase(r) = "idle"
  BY DEF StartFails, Goto, guardVars, treeVars, hostVars, Phase
<1>2. \A q \in Runs : Phase(q)' = IF q = r THEN "over" ELSE Phase(q)
  BY DEF StartFails, Goto, guardVars, treeVars, hostVars, Phase, IInv, TypeOK
<1>3. \A q \in Runs : Child(q)' = Child(q)
  BY DEF StartFails, Goto, guardVars, treeVars, hostVars, Child, IInv, TypeOK
<1>4. QED
  BY <1>1, <1>2, <1>3
     DEF StartFails, Goto, guardVars, treeVars, hostVars, GC!Refuse

\* WaitProcess is ChildGone.
LEMMA WaitProcessIsChildGone ==
  ASSUME IInv, TypeOK', NEW r \in Runs, WaitProcess(r)
  PROVE  GC!ChildGone(r)
<1>1. Phase(r) = "running"
  BY DEF WaitProcess, Goto, guardVars, hostVars, Phase
<1>2. \A q \in Runs : Phase(q)' = Phase(q)
  BY DEF WaitProcess, Goto, guardVars, hostVars, Phase, IInv, TypeOK
<1>3. Child(r) = "present"
  BY DEF WaitProcess, Goto, guardVars, hostVars, Child, IInv, Shape, LeaderInv,
         Reaped
<1>4. \A q \in Runs : Child(q)' = IF q = r THEN "gone" ELSE Child(q)
  BY DEF WaitProcess, Goto, guardVars, hostVars, Child, IInv, TypeOK
<1>5. QED
  BY <1>1, <1>2, <1>3, <1>4
     DEF WaitProcess, Goto, guardVars, hostVars, GC!ChildGone

\* CheckInterrupted is Settle.
LEMMA CheckInterruptedIsSettle ==
  ASSUME IInv, TypeOK', NEW r \in Runs, CheckInterrupted(r)
  PROVE  GC!Settle(r)
<1>1. Phase(r) = "running"
  BY DEF CheckInterrupted, Goto, guardVars, treeVars, hostVars, Phase
<1>2. \A q \in Runs : Phase(q)' = IF q = r THEN "settled" ELSE Phase(q)
  BY DEF CheckInterrupted, Goto, guardVars, treeVars, hostVars, Phase, IInv,
         TypeOK
<1>3. Child(r) = "gone"
  BY DEF CheckInterrupted, Goto, guardVars, treeVars, hostVars, Child, IInv,
         Shape, LeaderInv, Reaped
<1>4. \A q \in Runs : Child(q)' = Child(q)
  BY DEF CheckInterrupted, Goto, guardVars, treeVars, hostVars, Child, IInv,
         TypeOK
<1>5. ~interrupted[r] => Verdict(r) \in GC!Verdicts
  BY DEF CheckInterrupted, Goto, Verdict, GC!Verdicts, IInv, TypeOK, Statuses,
         Shape, LeaderInv, TreeInv, Reaped
<1>6. interrupted[r] => Verdict(r) = "interrupted"
  BY DEF Verdict
<1>7. QED
  BY <1>1, <1>2, <1>3, <1>4, <1>5, <1>6
     DEF CheckInterrupted, Goto, guardVars, treeVars, hostVars, GC!Settle

\* JoinGuard is Finish.
LEMMA JoinGuardIsFinish ==
  ASSUME IInv, TypeOK', NEW r \in Runs, JoinGuard(r)
  PROVE  GC!Finish(r)
<1>1. Phase(r) = "settled"
  BY DEF JoinGuard, Goto, guardVars, treeVars, hostVars, Phase
<1>2. \A q \in Runs : Phase(q)' = IF q = r THEN "over" ELSE Phase(q)
  BY DEF JoinGuard, Goto, guardVars, treeVars, hostVars, Phase, IInv, TypeOK
<1>3. \A q \in Runs : Child(q)' = Child(q)
  BY DEF JoinGuard, Goto, guardVars, treeVars, hostVars, Child, IInv, TypeOK
<1>4. QED
  BY <1>1, <1>2, <1>3
     DEF JoinGuard, Goto, guardVars, treeVars, hostVars, GC!Finish

\* StoreInterrupted is Notice.
LEMMA StoreInterruptedIsNotice ==
  ASSUME IInv, TypeOK', NEW r \in Runs, StoreInterrupted(r)
  PROVE  GC!Notice(r)
BY ConstAssumption
   DEF StoreInterrupted, GuardGoto, callVars, treeVars, hostVars, GC!Notice,
       IInv, TypeOK, Pcs, GuardPcs, Shape, LeaderInv, TreeInv, GuardInv,
       Guarded, Reaped, Phase, Child

\* A step that moves no call between its phases, starts or reaps no child,
\* raises no flag and returns no result is not seen.
LEMMA Unseen ==
  ASSUME \A q \in Runs : Phase(q)' = Phase(q) /\ Child(q)' = Child(q),
         interrupted' = interrupted, result' = result
  PROVE  UNCHANGED GC!vars
BY DEF GC!vars

\* Every step of CliExec is a step of GuardedCall or is not seen.
LEMMA Refines ==
  ASSUME IInv, TypeOK', [Next]_vars
  PROVE  [GC!Next]_(GC!vars)
<1>1. CASE UNCHANGED vars
  BY <1>1, Unseen
     DEF vars, callVars, guardVars, treeVars, hostVars, Phase, Child
<1>2. ASSUME NEW r \in Runs, Start(r) PROVE GC!Next
  BY <1>2, StartIsSpawn DEF GC!Next
<1>3. ASSUME NEW r \in Runs, StartFails(r) PROVE GC!Next
  BY <1>3, StartFailsIsRefuse DEF GC!Next
<1>4. ASSUME NEW r \in Runs, WaitProcess(r) PROVE GC!Next
  BY <1>4, WaitProcessIsChildGone DEF GC!Next
<1>5. ASSUME NEW r \in Runs, CheckInterrupted(r) PROVE GC!Next
  BY <1>5, CheckInterruptedIsSettle DEF GC!Next
<1>6. ASSUME NEW r \in Runs, JoinGuard(r) PROVE GC!Next
  BY <1>6, JoinGuardIsFinish DEF GC!Next
<1>7. ASSUME NEW r \in Runs, StoreInterrupted(r) PROVE GC!Next
  BY <1>7, StoreInterruptedIsNotice DEF GC!Next
<1>8. ASSUME NEW r \in Runs, NewInterruptGuard(r) PROVE UNCHANGED GC!vars
  BY <1>8, Unseen
     DEF NewInterruptGuard, Goto, treeVars, hostVars, IInv, TypeOK, Pcs, Phase,
         Child
<1>9. ASSUME NEW r \in Runs, ReadEOF(r) PROVE UNCHANGED GC!vars
  BY <1>9, Unseen
     DEF ReadEOF, Goto, guardVars, treeVars, hostVars, IInv, TypeOK, Pcs, Phase,
         Child
<1>10. ASSUME NEW r \in Runs, ReadFails(r) PROVE UNCHANGED GC!vars
  BY <1>10, Unseen
     DEF ReadFails, Goto, guardVars, treeVars, hostVars, IInv, TypeOK, Pcs,
         Phase, Child
<1>11. ASSUME NEW r \in Runs, WaitCopy(r) PROVE UNCHANGED GC!vars
  BY <1>11, Unseen
     DEF WaitCopy, Goto, guardVars, treeVars, hostVars, IInv, TypeOK, Pcs,
         Phase, Child
<1>12. ASSUME NEW r \in Runs, CopyFails(r) PROVE UNCHANGED GC!vars
  BY <1>12, Unseen
     DEF CopyFails, Goto, guardVars, treeVars, hostVars, IInv, TypeOK, Pcs,
         Phase, Child
<1>13. ASSUME NEW r \in Runs, StopNotify(r) PROVE UNCHANGED GC!vars
  BY <1>13, Unseen
     DEF StopNotify, Goto, treeVars, hostVars, IInv, TypeOK, Pcs, Phase, Child
<1>14. ASSUME NEW r \in Runs, CloseDone(r) PROVE UNCHANGED GC!vars
  BY <1>14, Unseen
     DEF CloseDone, Goto, treeVars, hostVars, IInv, TypeOK, Pcs, Phase, Child
<1>15. ASSUME NEW r \in Runs, RunSignal(r) PROVE UNCHANGED GC!vars
  BY <1>15, Unseen
     DEF RunSignal, GuardGoto, callVars, treeVars, hostVars, IInv, TypeOK, Pcs,
         Phase, Child
<1>16. ASSUME NEW r \in Runs, RunDone(r) PROVE UNCHANGED GC!vars
  BY <1>16, Unseen
     DEF RunDone, GuardGoto, callVars, treeVars, hostVars, IInv, TypeOK, Pcs,
         Phase, Child
<1>17. ASSUME NEW r \in Runs, InterruptDetached(r) PROVE UNCHANGED GC!vars
  BY <1>17, Unseen
     DEF InterruptDetached, GuardGoto, callVars, treeVars, hostVars, IInv,
         TypeOK, Pcs, Phase, Child
<1>18. ASSUME NEW r \in Runs, GraceSignal(r) PROVE UNCHANGED GC!vars
  BY <1>18, Unseen
     DEF GraceSignal, GuardGoto, callVars, treeVars, hostVars, IInv, TypeOK,
         Pcs, Phase, Child
<1>19. ASSUME NEW r \in Runs, GraceDone(r) PROVE UNCHANGED GC!vars
  BY <1>19, Unseen
     DEF GraceDone, GuardGoto, callVars, treeVars, hostVars, IInv, TypeOK, Pcs,
         Phase, Child
<1>20. ASSUME NEW r \in Runs, GraceTimeout(r) PROVE UNCHANGED GC!vars
  BY <1>20, Unseen
     DEF GraceTimeout, GuardGoto, callVars, treeVars, hostVars, IInv, TypeOK,
         Pcs, Phase, Child
<1>21. ASSUME NEW r \in Runs, KillDetached(r) PROVE UNCHANGED GC!vars
  BY <1>21, Unseen
     DEF KillDetached, GuardGoto, callVars, hostVars, KillTargets, Swept, IInv,
         TypeOK, Pcs, Phase, Child
<1>22. ASSUME NEW r \in Runs, ChildExit(r) PROVE UNCHANGED GC!vars
  BY <1>22, Unseen
     DEF ChildExit, callVars, guardVars, hostVars, IInv, TypeOK, Pcs, Phase,
         Child
<1>23. ASSUME NEW r \in Runs, NEW h \in Helpers, Fork(r, h) PROVE UNCHANGED GC!vars
  BY <1>23, Unseen
     DEF Fork, callVars, guardVars, hostVars, IInv, TypeOK, Pcs, Phase, Child
<1>24. ASSUME NEW r \in Runs, NEW h \in Helpers, Escape(r, h) PROVE UNCHANGED GC!vars
  BY <1>24, Unseen
     DEF Escape, callVars, guardVars, hostVars, IInv, TypeOK, Pcs, Phase, Child
<1>25. ASSUME NEW r \in Runs, NEW h \in Helpers, HelperExit(r, h) PROVE UNCHANGED GC!vars
  BY <1>25, Unseen
     DEF HelperExit, callVars, guardVars, hostVars, IInv, TypeOK, Pcs, Phase,
         Child
<1>26. CASE Signal
  BY <1>26, Unseen DEF Signal, callVars, treeVars, Phase, Child
<1>27. QED
  BY <1>1, <1>2, <1>3, <1>4, <1>5, <1>6, <1>7, <1>8, <1>9, <1>10, <1>11, <1>12,
     <1>13, <1>14, <1>15, <1>16, <1>17, <1>18, <1>19, <1>20, <1>21, <1>22,
     <1>23, <1>24, <1>25, <1>26
     DEF Next, Call, Fails, Guard, Tree

\* Every behaviour of CliExec is one of GuardedCall, seen through GC.
THEOREM Implementation == Spec => ImplementsGuardedCall
<1>1. Init => GC!Init
  BY DEF Init, GC!Init, Phase, Child
<1>2. IInv /\ TypeOK' /\ [Next]_vars => [GC!Next]_(GC!vars)
  BY Refines
<1>3. IInv => TypeOK
  BY DEF IInv
<1>4. QED
  BY <1>1, <1>2, <1>3, Inductive, PTL DEF Spec, ImplementsGuardedCall, GC!Spec

--------------------------------------------------------------------------------
(* What SignalEndsCall and CallReturnsOnceTreeIsGone say, without the time *)
(* it takes: the guards of the two goroutines of a call, action by action, *)
(* and how many steps each has left.                                       *)

CallCanStep(r) ==
  \/ pc[r] \in {"started", "checking", "stopNotify", "closeDone"}
  \/ pc[r] \in {"reading", "copying"} /\ PipeClosed(r)
  \/ pc[r] = "waiting" /\ leader[r] = "zombie"
  \/ pc[r] = "joining" /\ guard[r] = "exited"

GuardCanStep(r) ==
  \/ guard[r] = "select" /\ (sigs[r] > 0 \/ done[r])
  \/ guard[r] \in {"store", "polite", "grace", "hard"}

\* The call waits for its child, or for one that holds its stdout pipe open.
WaitsForTree(r) ==
  \/ pc[r] = "waiting" /\ leader[r] = "alive"
  \/ pc[r] \in {"reading", "copying"} /\ (leader[r] = "alive" \/ holders[r] # {})

\* It waits for holders of the pipe that a kill of the group does not reach: on unix
\* they have left the session, on windows they are not the child itself.
WaitsForStrays(r) ==
  /\ pc[r] \in {"reading", "copying"} /\ leader[r] # "alive" /\ holders[r] # {}
  /\ Unix => Escapes /\ group[r] = {}

\* What a signal that was heard has come to, and what an exited guard leaves.
HeardInv(r) ==
  /\ pc[r] \in {"started", "reading", "waiting"} => leader[r] \in {"alive", "zombie"}
  /\ guard[r] = "off" => pc[r] \in {"idle", "started", "returned"} /\ heard[r] = 0
  /\ pc[r] = "joining" => done[r]
  /\ heard[r] > 0 /\ guard[r] = "select" => sigs[r] = 1
  /\ done[r] => pc[r] \in {"joining", "returned"}
  /\ guard[r] = "exited" /\ ~done[r] =>
       leader[r] # "alive" /\ (Unix => group[r] = {}) /\ interrupted[r]
  /\ ~Escapes => holders[r] \subseteq group[r]

Heard == \A r \in Runs : HeardInv(r)

LEMMA HeardStep ==
  ASSUME TypeOK, Shape, Heard, [Next]_vars
  PROVE  Heard'
<1> USE ConstAssumption
    DEF Shape, Heard, LeaderInv, GuardInv, RegisteredInv, HeardInv, TypeOK, Guarded, Reaped,
        Pcs, GuardPcs, Goto, GuardGoto
<1>1. CASE UNCHANGED vars
  BY <1>1 DEF vars, callVars, guardVars, treeVars, hostVars
<1>2. ASSUME NEW r \in Runs, Start(r) \/ StartFails(r) PROVE Heard'
  BY <1>2 DEF Start, StartFails, TreeInv, guardVars, treeVars, hostVars
<1>3. ASSUME NEW r \in Runs, NewInterruptGuard(r) PROVE Heard'
  BY <1>3 DEF NewInterruptGuard, treeVars, hostVars
<1>4. ASSUME NEW r \in Runs, \/ ReadEOF(r) \/ ReadFails(r) \/ WaitCopy(r) \/ CopyFails(r)
                             \/ CheckInterrupted(r) \/ JoinGuard(r)
      PROVE  Heard'
  BY <1>4 DEF ReadEOF, ReadFails, WaitCopy, CopyFails, CheckInterrupted, JoinGuard,
              guardVars, treeVars, hostVars
<1>5. ASSUME NEW r \in Runs, WaitProcess(r) PROVE Heard'
  BY <1>5 DEF WaitProcess, guardVars, hostVars
<1>6. ASSUME NEW r \in Runs, StopNotify(r) \/ CloseDone(r) PROVE Heard'
  BY <1>6 DEF StopNotify, CloseDone, treeVars, hostVars
<1>7. ASSUME NEW r \in Runs, RunSignal(r) \/ GraceSignal(r) PROVE Heard'
  BY <1>7 DEF RunSignal, GraceSignal, callVars, treeVars, hostVars
<1>8. ASSUME NEW r \in Runs, RunDone(r) \/ GraceDone(r) PROVE Heard'
  BY <1>8 DEF RunDone, GraceDone, callVars, treeVars, hostVars
<1>9. ASSUME NEW r \in Runs, StoreInterrupted(r) \/ InterruptDetached(r) \/ GraceTimeout(r)
      PROVE  Heard'
  BY <1>9 DEF StoreInterrupted, InterruptDetached, GraceTimeout, callVars, treeVars, hostVars
<1>10. ASSUME NEW r \in Runs, KillDetached(r) PROVE Heard'
  BY <1>10 DEF KillDetached, KillTargets, Swept, callVars, hostVars
<1>11. ASSUME NEW r \in Runs, ChildExit(r) PROVE Heard'
  BY <1>11 DEF ChildExit, callVars, guardVars, hostVars
<1>12. ASSUME NEW r \in Runs, NEW h \in Helpers, Fork(r, h) PROVE Heard'
  BY <1>12 DEF Fork, callVars, guardVars, hostVars
<1>13. ASSUME NEW r \in Runs, NEW h \in Helpers, Escape(r, h) \/ HelperExit(r, h) PROVE Heard'
  BY <1>13 DEF Escape, HelperExit, callVars, guardVars, hostVars
<1>14. CASE Signal
  BY <1>14 DEF Signal, Offered, callVars, treeVars
<1> QED
  BY <1>1, <1>2, <1>3, <1>4, <1>5, <1>6, <1>7, <1>8, <1>9, <1>10, <1>11, <1>12, <1>13, <1>14
     DEF Next, Call, Fails, Guard, Tree

LEMMA HeardAlways == Spec => [](IInv /\ Heard)
<1>1. Init => Heard
  BY DEF Init, Heard, HeardInv
<1>2. IInv /\ Heard /\ [Next]_vars => Heard'
  BY HeardStep DEF IInv
<1> QED
  BY <1>1, <1>2, Inductive, PTL DEF Spec

\* For any number of calls: a call in progress waits for its child, or for a process
\* that holds its stdout pipe open, or else its goroutine or its guard's can go on.
\* Once the child has ended and the pipe is closed nothing holds it up: stop and the
\* guard never wait for each other.
THEOREM CallsGoOn ==
  Spec =>
    [](\A r \in Runs :
         hostUp /\ pc[r] \notin {"idle", "returned"} =>
           CallCanStep(r) \/ GuardCanStep(r) \/ WaitsForTree(r))
<1>1. ASSUME IInv, Heard, NEW r \in Runs, pc[r] \notin {"idle", "returned"}
      PROVE  CallCanStep(r) \/ GuardCanStep(r) \/ WaitsForTree(r)
  <2>1. pc[r] \in Pcs /\ guard[r] \in GuardPcs /\ LeaderInv(r) /\ GuardInv(r) /\ HeardInv(r)
        /\ leader[r] \in {"none", "alive", "zombie", "reaped"}
    BY <1>1 DEF IInv, TypeOK, Shape, Heard
  <2>2. CASE pc[r] \in {"reading", "copying"}
    BY <1>1, <2>1, <2>2 DEF CallCanStep, WaitsForTree, PipeClosed, LeaderInv
  <2>3. CASE pc[r] = "waiting"
    BY <2>1, <2>3 DEF CallCanStep, WaitsForTree, HeardInv
  <2>4. CASE pc[r] = "joining"
    BY <2>1, <2>4 DEF CallCanStep, GuardCanStep, GuardPcs, HeardInv
  <2> QED
    BY <1>1, <2>1, <2>2, <2>3, <2>4 DEF CallCanStep, Pcs
<1>2. IInv /\ Heard =>
        \A r \in Runs :
          hostUp /\ pc[r] \notin {"idle", "returned"} =>
            CallCanStep(r) \/ GuardCanStep(r) \/ WaitsForTree(r)
  BY <1>1
<1> QED
  BY <1>2, HeardAlways, PTL

\* A signal that a call heard is never lost and never leaves it waiting for its child:
\* whatever the child does with the polite SIGINT, until the call has returned one of
\* the two goroutines can go on, or the guard has killed all that it can reach and
\* some other process holds the pipe open. On unix that takes one that left the
\* session.
THEOREM HeardSignalsGoOn ==
  Spec =>
    [](\A r \in Runs :
         hostUp /\ heard[r] > 0 /\ pc[r] # "returned" =>
           CallCanStep(r) \/ GuardCanStep(r) \/ WaitsForStrays(r))
<1>1. ASSUME IInv, Heard, NEW r \in Runs, heard[r] > 0, pc[r] # "returned",
             ~CallCanStep(r), ~GuardCanStep(r)
      PROVE  WaitsForStrays(r)
  <2>1. /\ pc[r] \in Pcs /\ guard[r] \in GuardPcs /\ LeaderInv(r) /\ GuardInv(r) /\ HeardInv(r)
        /\ leader[r] \in {"none", "alive", "zombie", "reaped"}
        /\ sigs[r] \in {0, 1} /\ heard[r] \in Nat /\ done[r] \in BOOLEAN
    BY <1>1 DEF IInv, TypeOK, Shape, Heard
  <2>2. guard[r] = "exited"
    BY <1>1, <2>1 DEF HeardInv, GuardCanStep, GuardPcs
  <2>3. ~done[r]
    BY <1>1, <2>1, <2>2 DEF HeardInv, CallCanStep
  <2>4. leader[r] # "alive" /\ (Unix => group[r] = {})
    BY <2>1, <2>2, <2>3 DEF HeardInv
  <2>5. leader[r] # "none" /\ pc[r] # "idle"
    BY <2>1, <2>2 DEF GuardInv, LeaderInv
  <2>6. pc[r] \in {"reading", "copying"} /\ ~PipeClosed(r)
    BY <1>1, <2>1, <2>2, <2>4, <2>5 DEF CallCanStep, Pcs, HeardInv
  <2>7. holders[r] # {}
    BY <2>1, <2>4, <2>5, <2>6 DEF PipeClosed
  <2>8. Unix => Escapes
    BY <2>1, <2>4, <2>7 DEF HeardInv
  <2> QED
    BY <2>4, <2>6, <2>7, <2>8 DEF WaitsForStrays
<1>2. IInv /\ Heard =>
        \A r \in Runs :
          hostUp /\ heard[r] > 0 /\ pc[r] # "returned" =>
            CallCanStep(r) \/ GuardCanStep(r) \/ WaitsForStrays(r)
  BY <1>1
<1> QED
  BY <1>2, HeardAlways, PTL

\* The one way in which the error misses an interrupt that came while the child ran:
\* when the call looks, the guard has not stored the flag yet, either because the
\* signal is still in its channel or between the two steps. A call whose guard got
\* further, one that has killed and ended included, always reports it.
THEOREM OnlyALateGuardGoesUnreported ==
  Spec =>
    [][\A r \in Runs :
         CheckInterrupted(r) /\ heard[r] > 0 /\ result'[r] # "interrupted" =>
           guard[r] = "store" \/ (guard[r] = "select" /\ sigs[r] = 1)]_vars
<1>1. ASSUME IInv, Heard, NEW r \in Runs, CheckInterrupted(r), heard[r] > 0,
             result'[r] # "interrupted"
      PROVE  guard[r] = "store" \/ (guard[r] = "select" /\ sigs[r] = 1)
  <2>1. /\ pc[r] = "checking" /\ guard[r] \in GuardPcs /\ GuardInv(r) /\ HeardInv(r)
        /\ heard[r] \in Nat
    BY <1>1 DEF IInv, TypeOK, Shape, Heard, CheckInterrupted, Goto
  <2>2. ~interrupted[r]
    <3>1. result'[r] = Verdict(r)
      BY <1>1 DEF CheckInterrupted, IInv, TypeOK
    <3> QED
      BY <1>1, <3>1 DEF Verdict
  <2>3. ~done[r] /\ guard[r] # "off"
    BY <1>1, <2>1 DEF HeardInv
  <2> QED
    BY <1>1, <2>1, <2>2, <2>3 DEF HeardInv, GuardInv, GuardPcs
<1>2. IInv /\ Heard /\ [Next]_vars =>
        [\A r \in Runs :
           CheckInterrupted(r) /\ heard[r] > 0 /\ result'[r] # "interrupted" =>
             guard[r] = "store" \/ (guard[r] = "select" /\ sigs[r] = 1)]_vars
  BY <1>1
<1> QED
  BY <1>2, HeardAlways, PTL DEF Spec

\* The steps that the call's goroutine and its guard have left, at most.
CallSteps ==
  [idle |-> 9, started |-> 8, reading |-> 7, waiting |-> 6, copying |-> 5, checking |-> 4,
   stopNotify |-> 3, closeDone |-> 2, joining |-> 1, returned |-> 0]

GuardSteps ==
  [off |-> 6, select |-> 5, store |-> 4, polite |-> 3, grace |-> 2, hard |-> 1, exited |-> 0]

StepsLeft(r) == CallSteps[pc[r]] + GuardSteps[guard[r]]

\* Only its own goroutines move a call on, and each of their steps does.
MovesOn(r) ==
  /\ \A q \in Runs \ {r} : pc'[q] = pc[q] /\ guard'[q] = guard[q]
  /\ \/ CallSteps[pc'[r]] < CallSteps[pc[r]] /\ guard'[r] = guard[r]
     \/ pc'[r] = pc[r] /\ GuardSteps[guard'[r]] < GuardSteps[guard[r]]
     \/ /\ CallSteps[pc'[r]] < CallSteps[pc[r]]
        /\ GuardSteps[guard'[r]] < GuardSteps[guard[r]]

CallMoves(r) == Start(r) \/ StartFails(r) \/ Call(r) \/ Fails(r)

LEMMA OwnStepMovesOn ==
  ASSUME TypeOK, Shape, NEW r \in Runs, CallMoves(r) \/ Guard(r)
  PROVE  MovesOn(r)
<1>1. CASE CallMoves(r) /\ ~NewInterruptGuard(r)
  <2>1. UNCHANGED guard
    BY <1>1 DEF CallMoves, Start, StartFails, Call, Fails, ReadEOF, ReadFails, WaitProcess,
                WaitCopy, CopyFails, CheckInterrupted, StopNotify, CloseDone, JoinGuard, guardVars
  <2>2. CASE Start(r) \/ StartFails(r) \/ ReadEOF(r) \/ ReadFails(r) \/ WaitProcess(r)
    BY <2>1, <2>2 DEF Start, StartFails, ReadEOF, ReadFails, WaitProcess, Goto, TypeOK, MovesOn,
                      CallSteps
  <2>3. CASE WaitCopy(r) \/ CopyFails(r) \/ CheckInterrupted(r) \/ StopNotify(r)
               \/ CloseDone(r) \/ JoinGuard(r)
    BY <2>1, <2>3 DEF WaitCopy, CopyFails, CheckInterrupted, StopNotify, CloseDone, JoinGuard,
                      Goto, TypeOK, MovesOn, CallSteps
  <2> QED
    BY <1>1, <2>2, <2>3 DEF CallMoves, Call, Fails
<1>2. CASE NewInterruptGuard(r)
  <2>1. guard[r] = "off"
    BY <1>2 DEF NewInterruptGuard, Goto, Shape, GuardInv
  <2> QED
    BY <1>2, <2>1 DEF NewInterruptGuard, Goto, TypeOK, MovesOn, CallSteps, GuardSteps
<1>3. CASE Guard(r)
  <2>1. UNCHANGED pc
    BY <1>3 DEF Guard, RunSignal, RunDone, StoreInterrupted, InterruptDetached, GraceSignal,
                GraceDone, GraceTimeout, KillDetached, callVars
  <2>2. CASE RunSignal(r) \/ RunDone(r) \/ StoreInterrupted(r) \/ InterruptDetached(r)
    BY <2>1, <2>2 DEF RunSignal, RunDone, StoreInterrupted, InterruptDetached, GuardGoto,
                      TypeOK, MovesOn, GuardSteps
  <2>3. CASE GraceSignal(r) \/ GraceDone(r) \/ GraceTimeout(r) \/ KillDetached(r)
    BY <2>1, <2>3 DEF GraceSignal, GraceDone, GraceTimeout, KillDetached, GuardGoto,
                      TypeOK, MovesOn, GuardSteps
  <2> QED
    BY <1>3, <2>2, <2>3 DEF Guard
<1> QED
  BY <1>1, <1>2, <1>3

LEMMA StepsAreNat ==
  ASSUME TypeOK, NEW r \in Runs
  PROVE  CallSteps[pc[r]] \in Nat /\ GuardSteps[guard[r]] \in Nat
BY DEF TypeOK, Pcs, GuardPcs, CallSteps, GuardSteps

\* Anything else that happens leaves the goroutines where they are.
LEMMA OthersDoNotMove ==
  ASSUME [Next]_vars, \A r \in Runs : ~CallMoves(r) /\ ~Guard(r)
  PROVE  UNCHANGED <<pc, guard>>
<1>1. CASE UNCHANGED vars
  BY <1>1 DEF vars, callVars, guardVars
<1>2. CASE Signal
  BY <1>2 DEF Signal, callVars
<1>3. ASSUME NEW r \in Runs, Tree(r) PROVE UNCHANGED <<pc, guard>>
  BY <1>3 DEF Tree, ChildExit, Fork, Escape, HelperExit, callVars, guardVars
<1> QED
  BY <1>1, <1>2, <1>3 DEF Next, CallMoves

\* For any number of calls and signals: a call and its guard take no more than fifteen
\* steps together, each of which counts, and nothing that other calls, the child or
\* the user do sets them back.
THEOREM CallsTakeFewSteps ==
  Spec => /\ [](\A r \in Runs : StepsLeft(r) \in 0..15)
          /\ [][\A r \in Runs :
                  IF CallMoves(r) \/ Guard(r) THEN StepsLeft(r)' < StepsLeft(r)
                  ELSE UNCHANGED <<pc[r], guard[r]>>]_vars
<1>1. ASSUME IInv, NEW r \in Runs PROVE StepsLeft(r) \in 0..15
  BY <1>1 DEF IInv, TypeOK, Pcs, GuardPcs, CallSteps, GuardSteps, StepsLeft
<1>2. ASSUME IInv, TypeOK', [Next]_vars, NEW r \in Runs, CallMoves(r) \/ Guard(r)
      PROVE  StepsLeft(r)' < StepsLeft(r)
  <2>1. MovesOn(r)
    BY <1>2, OwnStepMovesOn DEF IInv
  <2>2. /\ CallSteps[pc[r]] \in Nat /\ GuardSteps[guard[r]] \in Nat
        /\ CallSteps[pc'[r]] \in Nat /\ GuardSteps[guard'[r]] \in Nat
    <3>1. pc'[r] \in Pcs /\ guard'[r] \in GuardPcs /\ pc[r] \in Pcs /\ guard[r] \in GuardPcs
      BY <1>2 DEF IInv, TypeOK
    <3> QED
      BY <3>1 DEF Pcs, GuardPcs, CallSteps, GuardSteps
  <2> QED
    BY <2>1, <2>2 DEF MovesOn, StepsLeft
<1>3. ASSUME IInv, [Next]_vars, NEW r \in Runs, ~CallMoves(r), ~Guard(r)
      PROVE  UNCHANGED <<pc[r], guard[r]>>
  <2>1. CASE \E q \in Runs : CallMoves(q) \/ Guard(q)
    BY <1>3, <2>1, OwnStepMovesOn DEF IInv, MovesOn
  <2>2. CASE \A q \in Runs : ~CallMoves(q) /\ ~Guard(q)
    BY <1>3, <2>2, OthersDoNotMove
  <2> QED
    BY <2>1, <2>2
<1>4. IInv => \A r \in Runs : StepsLeft(r) \in 0..15
  BY <1>1
<1>5. IInv /\ TypeOK' /\ [Next]_vars =>
        [\A r \in Runs :
           IF CallMoves(r) \/ Guard(r) THEN StepsLeft(r)' < StepsLeft(r)
           ELSE UNCHANGED <<pc[r], guard[r]>>]_vars
  BY <1>2, <1>3
<1> QED
  BY <1>4, <1>5, Inductive, Typing, PTL DEF Spec

LEMMA CallStays ==
  ASSUME TypeOK, Shape, [Next]_vars, NEW q \in Runs, CallCanStep(q), pc'[q] = pc[q]
  PROVE  CallCanStep(q)'
<1> USE DEF TypeOK, CallCanStep, PipeClosed, Goto, GuardGoto
<1>1. CASE UNCHANGED vars
  BY <1>1 DEF vars, callVars, guardVars, treeVars
<1>2. ASSUME NEW r \in Runs, Start(r) \/ StartFails(r) PROVE CallCanStep(q)'
  BY <1>2 DEF Start, StartFails, Shape, LeaderInv, guardVars, treeVars
<1>3. ASSUME NEW r \in Runs, NewInterruptGuard(r) PROVE CallCanStep(q)'
  BY <1>3 DEF NewInterruptGuard, treeVars
<1>4. ASSUME NEW r \in Runs, \/ ReadEOF(r) \/ ReadFails(r) \/ WaitCopy(r) \/ CopyFails(r)
                             \/ CheckInterrupted(r) \/ JoinGuard(r)
      PROVE  CallCanStep(q)'
  BY <1>4 DEF ReadEOF, ReadFails, WaitCopy, CopyFails, CheckInterrupted, JoinGuard,
              guardVars, treeVars
<1>5. ASSUME NEW r \in Runs, WaitProcess(r) PROVE CallCanStep(q)'
  BY <1>5 DEF WaitProcess, guardVars
<1>6. ASSUME NEW r \in Runs, StopNotify(r) \/ CloseDone(r) PROVE CallCanStep(q)'
  BY <1>6 DEF StopNotify, CloseDone, treeVars
<1>7. ASSUME NEW r \in Runs, Guard(r), ~KillDetached(r) PROVE CallCanStep(q)'
  BY <1>7 DEF Guard, RunSignal, RunDone, StoreInterrupted, InterruptDetached, GraceSignal,
              GraceDone, GraceTimeout, callVars, treeVars
<1>8. ASSUME NEW r \in Runs, KillDetached(r) PROVE CallCanStep(q)'
  BY <1>8 DEF KillDetached, callVars
<1>9. ASSUME NEW r \in Runs, ChildExit(r) PROVE CallCanStep(q)'
  BY <1>9 DEF ChildExit, callVars, guardVars
<1>10. ASSUME NEW r \in Runs, NEW h \in Helpers, Fork(r, h) \/ Escape(r, h) \/ HelperExit(r, h)
       PROVE  CallCanStep(q)'
  BY <1>10 DEF Fork, Escape, HelperExit, callVars, guardVars
<1>11. CASE Signal
  BY <1>11 DEF Signal, callVars, treeVars
<1> QED
  BY <1>1, <1>2, <1>3, <1>4, <1>5, <1>6, <1>7, <1>8, <1>9, <1>10, <1>11 DEF Next, Call, Fails, Tree

LEMMA GuardStays ==
  ASSUME TypeOK, Shape, [Next]_vars, NEW q \in Runs, GuardCanStep(q), guard'[q] = guard[q]
  PROVE  GuardCanStep(q)'
<1> USE DEF TypeOK, GuardCanStep, Goto, GuardGoto
<1>1. CASE guard[q] # "select"
  BY <1>1
<1>2. CASE guard[q] = "select" /\ done[q]
  <2>1. done'[q]
    BY <1>2 DEF Next, vars, callVars, guardVars, Start, StartFails, Call, NewInterruptGuard, ReadEOF,
       WaitProcess, WaitCopy, CheckInterrupted, StopNotify, CloseDone, JoinGuard, Fails,
       ReadFails, CopyFails, Guard, RunSignal, RunDone, StoreInterrupted, InterruptDetached,
       GraceSignal, GraceDone, GraceTimeout, KillDetached, Tree, ChildExit, Fork, Escape,
       HelperExit, Signal
  <2> QED
    BY <1>2, <2>1
<1>3. CASE guard[q] = "select" /\ sigs[q] > 0
  <2>1. sigs'[q] > 0
    <3>1. ASSUME NEW r \in Runs, RunSignal(r) \/ GraceSignal(r) PROVE sigs'[q] > 0
      BY <1>3, <3>1 DEF RunSignal, GraceSignal
    <3>2. CASE Signal
      BY <1>3, <3>2 DEF Signal, Offered
    <3>3. CASE sigs' = sigs
      BY <1>3, <3>3
    <3>4. \/ sigs' = sigs \/ Signal
          \/ \E r \in Runs : RunSignal(r) \/ GraceSignal(r)
      BY DEF Next, vars, guardVars, Start, StartFails, Call, NewInterruptGuard, ReadEOF,
         WaitProcess, WaitCopy, CheckInterrupted, StopNotify, CloseDone, JoinGuard, Fails,
         ReadFails, CopyFails, Guard, RunDone, StoreInterrupted, InterruptDetached,
         GraceDone, GraceTimeout, KillDetached, Tree, ChildExit, Fork, Escape, HelperExit
    <3> QED
      BY <3>1, <3>2, <3>3, <3>4
  <2> QED
    BY <1>3, <2>1
<1> QED
  BY <1>1, <1>2, <1>3

\* What a goroutine of a call can do it can do until it does something: no signal, no
\* exit or kill of a process and no other call takes its turn away, so that it is
\* enough that the scheduler runs, at some time, what can run.
THEOREM TurnsAreNotTakenAway ==
  Spec =>
    [][\A r \in Runs :
         /\ CallCanStep(r) => CallCanStep(r)' \/ pc[r]' # pc[r]
         /\ GuardCanStep(r) => GuardCanStep(r)' \/ guard[r]' # guard[r]]_vars
<1>1. ASSUME IInv, [Next]_vars, NEW r \in Runs
      PROVE  /\ CallCanStep(r) => CallCanStep(r)' \/ pc[r]' # pc[r]
             /\ GuardCanStep(r) => GuardCanStep(r)' \/ guard[r]' # guard[r]
  BY <1>1, CallStays, GuardStays DEF IInv
<1>2. IInv /\ [Next]_vars =>
        [\A r \in Runs :
           /\ CallCanStep(r) => CallCanStep(r)' \/ pc[r]' # pc[r]
           /\ GuardCanStep(r) => GuardCanStep(r)' \/ guard[r]' # guard[r]]_vars
  BY <1>1
<1> QED
  BY <1>2, Inductive, PTL DEF Spec
================================================================================
