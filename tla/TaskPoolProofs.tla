--------------------------- MODULE TaskPoolProofs ---------------------------
(***************************************************************************)
(* Proofs about the task pools, for any tasks, pools, targets and number   *)
(* of concurrent screenings.                                               *)
(***************************************************************************)
EXTENDS TaskPool, FiniteSetTheorems, TLAPS

-----------------------------------------------------------------------------
(* Rows and locks *)

\* Rows that exist have an owner that has reigned, and a pool.
RowInv ==
  /\ king \in reigned
  /\ \A t \in Tasks : task[t] # "none" => owner[t] \in reigned /\ pool[t] \in Pools

\* What screening s relies on at each of its statements.
Holds(s) ==
  /\ screen[s].step # "idle" =>
       /\ screen[s].task \in Tasks
       /\ task[screen[s].task] \in {"pending_screen", "qualified", "disqualified"}
  /\ screen[s].step \in KingHeld => screen[s].king = owner[screen[s].task]
  /\ screen[s].step \in TaskHeld => task[screen[s].task] = "pending_screen"
  /\ screen[s].step \in {"count", "drop_surplus"} => screen[s].verdict = "qualified"

HoldInv == \A s \in Screens : Holds(s)

\* Two screenings that hold no row in common.
Apart(s, r) ==
  /\ ~(/\ screen[s].step \in KingHeld /\ screen[r].step \in KingHeld
       /\ screen[s].king = screen[r].king)
  /\ ~(/\ screen[s].step \in TaskHeld /\ screen[r].step \in TaskHeld
       /\ screen[s].task = screen[r].task)

LockInv == \A s, r \in Screens : s # r => Apart(s, r)

RowsAndLocks == PoolTypeOK /\ RowInv /\ HoldInv /\ LockInv

LEMMA InitRows == Init => RowsAndLocks
BY TaskPoolAssumption
DEF Init, RowsAndLocks, PoolTypeOK, RowInv, HoldInv, Holds, LockInv, Apart, Idle,
    ScreenType, ScreenSteps, KingHeld, TaskHeld, TaskStatuses

\* Steps of the other workers leave the screenings, and their tasks, alone.
LEMMA OtherWorkers ==
  ASSUME RowsAndLocks, UNCHANGED screen, PoolTypeOK', RowInv',
         \A t \in Tasks :
           task[t] \in {"pending_screen", "qualified", "disqualified"} =>
             task'[t] = task[t] /\ owner'[t] = owner[t]
  PROVE  RowsAndLocks'
<1>1. HoldInv'
  <2> SUFFICES ASSUME NEW s \in Screens PROVE Holds(s)'
    BY DEF HoldInv
  <2>1. Holds(s)
    BY DEF RowsAndLocks, HoldInv
  <2> QED BY <2>1 DEF Holds, KingHeld, TaskHeld
<1>2. LockInv'
  <2> SUFFICES ASSUME NEW s \in Screens, NEW r \in Screens, s # r PROVE Apart(s, r)'
    BY DEF LockInv
  <2>1. Apart(s, r)
    BY DEF RowsAndLocks, LockInv
  <2> QED BY <2>1 DEF Apart
<1> QED BY <1>1, <1>2 DEF RowsAndLocks

\* A screening that ends releases its rows; it may give a verdict to queued
\* tasks that no other screening holds.
LEMMA Ends ==
  ASSUME RowsAndLocks, NEW s \in Screens, EndScreen(s), PoolTypeOK',
         UNCHANGED <<king, reigned, owner, pool>>,
         \A t \in Tasks : task'[t] # task[t] =>
           /\ task[t] \in {"candidate", "pending_screen"}
           /\ task'[t] \in {"qualified", "disqualified"}
           /\ TaskFree(s, t)
  PROVE  RowsAndLocks'
<1>1. \A r \in Screens : screen'[r] = IF r = s THEN Idle ELSE screen[r]
  BY DEF EndScreen, RowsAndLocks, PoolTypeOK
<1>2. RowInv'
  BY DEF RowsAndLocks, RowInv, PoolTypeOK
<1>3. HoldInv'
  <2> SUFFICES ASSUME NEW r \in Screens PROVE Holds(r)'
    BY DEF HoldInv
  <2>1. CASE r = s
    BY <1>1, <2>1 DEF Holds, Idle, KingHeld, TaskHeld
  <2>2. CASE r # s
    <3>1. Holds(r) /\ screen'[r] = screen[r]
      BY <1>1, <2>2 DEF RowsAndLocks, HoldInv
    <3> QED BY <3>1, <2>2 DEF Holds, KingHeld, TaskHeld, TaskFree
  <2> QED BY <2>1, <2>2
<1>4. LockInv'
  <2> SUFFICES ASSUME NEW r \in Screens, NEW q \in Screens, r # q PROVE Apart(r, q)'
    BY DEF LockInv
  <2>1. Apart(r, q)
    BY DEF RowsAndLocks, LockInv
  <2> QED BY <1>1, <2>1 DEF Apart, Idle, KingHeld, TaskHeld
<1> QED BY <1>2, <1>3, <1>4 DEF RowsAndLocks

\* A screening that moves on, changing no table, with the rows it then holds.
LEMMA Moves ==
  ASSUME RowsAndLocks, NEW s \in Screens, NEW x \in ScreenType,
         screen' = [screen EXCEPT ![s] = x],
         UNCHANGED <<king, reigned, task, owner, pool>>, PoolTypeOK',
         Holds(s)',
         \A r \in Screens \ {s} : Apart(s, r)'
  PROVE  RowsAndLocks'
<1>1. \A r \in Screens : screen'[r] = IF r = s THEN x ELSE screen[r]
  BY DEF RowsAndLocks, PoolTypeOK
<1>2. RowInv'
  BY DEF RowsAndLocks, RowInv
<1>3. HoldInv'
  <2> SUFFICES ASSUME NEW r \in Screens, r # s PROVE Holds(r)'
    BY DEF HoldInv
  <2>1. Holds(r) /\ screen'[r] = screen[r]
    BY <1>1 DEF RowsAndLocks, HoldInv
  <2> QED BY <2>1 DEF Holds
<1>4. LockInv'
  <2> SUFFICES ASSUME NEW r \in Screens, NEW q \in Screens, r # q PROVE Apart(r, q)'
    BY DEF LockInv
  <2>1. Apart(r, q)
    BY DEF RowsAndLocks, LockInv
  <2>2. CASE r # s /\ q # s
    <3>1. screen'[r] = screen[r] /\ screen'[q] = screen[q]
      BY <1>1, <2>2
    <3> QED BY <2>1, <3>1 DEF Apart
  <2>3. CASE r = s
    <3>1. q \in Screens \ {s}
      BY <2>3
    <3> QED BY <2>3, <3>1
  <2>4. CASE q = s
    <3>1. r \in Screens \ {s}
      BY <2>4
    <3>2. Apart(s, r)'
      BY <3>1
    <3> QED BY <2>4, <3>2 DEF Apart
  <2> QED BY <2>2, <2>3, <2>4
<1> QED BY <1>2, <1>3, <1>4 DEF RowsAndLocks

\* Every step keeps the types.
LEMMA TypedStep == PoolTypeOK /\ RowInv /\ HoldInv /\ [Next]_vars => PoolTypeOK'
<1> SUFFICES ASSUME PoolTypeOK, RowInv, HoldInv, [Next]_vars PROVE PoolTypeOK'
  OBVIOUS
<1>1. ASSUME NEW k \in Kings, Promote(k) PROVE PoolTypeOK'
  BY <1>1 DEF Promote, PoolTypeOK, rows
<1>2. ASSUME NEW t \in Tasks, NEW k \in Kings, NEW p \in Pools, InsertCandidate(t, k, p)
      PROVE  PoolTypeOK'
  BY <1>2 DEF InsertCandidate, PoolTypeOK, TaskStatuses
<1>3. ASSUME NEW t \in Tasks,
             StartSolve(t) \/ SolveRetryable(t) \/ FinishQualification(t) \/ BackoffElapses(t)
      PROVE  PoolTypeOK'
  <2> USE DEF StartSolve, SolveRetryable, FinishQualification, BackoffElapses, rows
  <2>1. solving' \in [Tasks -> Nat]
    BY <1>3 DEF PoolTypeOK
  <2>2. task' \in [Tasks -> TaskStatuses]
    BY <1>3 DEF PoolTypeOK, TaskStatuses
  <2>3. due' \in [Tasks -> BOOLEAN]
    BY <1>3 DEF PoolTypeOK
  <2> QED BY <1>3, <2>1, <2>2, <2>3 DEF PoolTypeOK
<1>4. ASSUME NEW s \in Screens, UNCHANGED <<king, reigned, owner, pool, solving>>,
             faults' \in Nat, screen' \in [Screens -> ScreenType],
             task' \in [Tasks -> TaskStatuses], due' \in [Tasks -> BOOLEAN],
             failedRuns' \in [Tasks -> Nat]
      PROVE  PoolTypeOK'
  BY <1>4 DEF PoolTypeOK
<1>5. ASSUME NEW s \in Screens, EndScreen(s) PROVE screen' \in [Screens -> ScreenType]
  <2>1. Idle \in ScreenType
    BY DEF Idle, ScreenType, ScreenSteps
  <2> QED BY <1>5, <2>1 DEF EndScreen, PoolTypeOK
<1>6. ASSUME NEW s \in Screens, NEW step \in ScreenSteps, MoveTo(s, step)
      PROVE  screen' \in [Screens -> ScreenType]
  BY <1>6 DEF MoveTo, PoolTypeOK, ScreenType
<1>7. ASSUME NEW s \in Screens, NEW t \in Tasks, StartScreen(s, t) PROVE PoolTypeOK'
  <2>1. PICK v \in {"qualified", "disqualified", "error"} :
          screen' = [screen EXCEPT ![s].step = "read_king", ![s].task = t, ![s].verdict = v]
    BY <1>7 DEF StartScreen
  <2> DEFINE x == [screen[s] EXCEPT !.step = "read_king", !.task = t, !.verdict = v]
  <2>2. x \in ScreenType
    BY DEF PoolTypeOK, ScreenType, ScreenSteps
  <2>3. screen' = [screen EXCEPT ![s] = x]
    BY <2>1
  <2> HIDE DEF x
  <2>4. screen' \in [Screens -> ScreenType]
    BY <2>2, <2>3 DEF PoolTypeOK
  <2> QED BY <1>7, <2>4 DEF StartScreen, PoolTypeOK, rows
<1>8. ASSUME NEW s \in Screens, Screening(s) PROVE PoolTypeOK'
  <2> USE DEF Screening, SaveDecision, rows
  <2>1. CASE ReadKing(s)
    <3>1. screen' \in [Screens -> ScreenType]
      BY <2>1, <1>5 DEF ReadKing, PoolTypeOK, ScreenType, ScreenSteps
    <3> QED BY <2>1, <3>1 DEF ReadKing, PoolTypeOK
  <2>2. CASE LockKing(s)
    <3>1. screen' \in [Screens -> ScreenType]
      BY <2>2, <1>5, <1>6 DEF LockKing, ScreenSteps, KingHeld
    <3> QED BY <2>2, <3>1 DEF LockKing, PoolTypeOK
  <2>3. CASE LockTask(s)
    <3>1. screen' \in [Screens -> ScreenType]
      BY <2>3, <1>5, <1>6 DEF LockTask, ScreenSteps, KingHeld
    <3> QED BY <2>3, <3>1 DEF LockTask, PoolTypeOK
  <2>4. CASE CountQualified(s)
    <3> DEFINE t == screen[s].task
               n == Cardinality(QualifiedTasks(owner[t], pool[t]))
    <3>1. n \in Nat
      BY TaskPoolAssumption, FS_Subset, FS_CardinalityType DEF QualifiedTasks
    <3> HIDE DEF n
    <3> DEFINE x == [screen[s] EXCEPT !.step = "write", !.count = n]
    <3>2. x \in ScreenType
      BY <3>1 DEF PoolTypeOK, ScreenType, ScreenSteps, KingHeld
    <3>3. screen' \in [Screens -> ScreenType]
      <4>1. screen' = [screen EXCEPT ![s] = x]
        BY <2>4 DEF CountQualified, n
      <4> HIDE DEF x
      <4> QED BY <3>2, <4>1 DEF PoolTypeOK
    <3> QED BY <2>4, <3>3 DEF CountQualified, PoolTypeOK
  <2>5. CASE WriteDecision(s)
    <3>1. screen' \in [Screens -> ScreenType]
      BY <2>5, <1>5 DEF WriteDecision, PoolTypeOK, ScreenType, ScreenSteps, KingHeld,
                        QueuedTasks
    <3>2. task' \in [Tasks -> TaskStatuses] /\ due' \in [Tasks -> BOOLEAN]
      BY <2>5 DEF WriteDecision, FinalStatus, PoolTypeOK, TaskStatuses
    <3> QED BY <2>5, <3>1, <3>2 DEF WriteDecision, PoolTypeOK
  <2>6. CASE DropSurplus(s)
    <3>1. task' \in [Tasks -> TaskStatuses] /\ due' \in [Tasks -> BOOLEAN]
      BY <2>6 DEF DropSurplus, FinalStatus, PoolTypeOK, TaskStatuses
    <3> QED BY <2>6, <3>1, <1>5 DEF DropSurplus, PoolTypeOK
  <2>7. CASE LockError(s)
    <3>1. screen' \in [Screens -> ScreenType]
      BY <2>7, <1>5, <1>6 DEF LockError, ScreenSteps, TaskHeld
    <3> QED BY <2>7, <3>1 DEF LockError, PoolTypeOK
  <2>8. CASE SaveError(s)
    <3>1. screen[s].task \in Tasks
      BY <2>8 DEF SaveError, HoldInv, Holds
    <3>2. task' \in [Tasks -> TaskStatuses]
      BY <2>8, <3>1 DEF SaveError, PoolTypeOK, TaskStatuses
    <3>3. due' \in [Tasks -> BOOLEAN]
      BY <2>8, <3>1 DEF SaveError, PoolTypeOK
    <3>4. failedRuns' \in [Tasks -> Nat]
      BY <2>8, <3>1 DEF SaveError, PoolTypeOK
    <3> QED BY <2>8, <3>2, <3>3, <3>4, <1>5 DEF SaveError, PoolTypeOK
  <2> QED BY <1>8, <2>1, <2>2, <2>3, <2>4, <2>5, <2>6, <2>7, <2>8
<1>9. ASSUME NEW s \in Screens, CancelScreen(s) \/ AbortDeadlock(s) \/ ScreenFails(s)
      PROVE  PoolTypeOK'
  <2>1. screen' \in [Screens -> ScreenType]
    BY <1>9, <1>5 DEF CancelScreen, AbortDeadlock, ScreenFails
  <2> QED BY <1>9, <2>1 DEF CancelScreen, AbortDeadlock, ScreenFails, PoolTypeOK, rows
<1>10. CASE UNCHANGED vars
  BY <1>10 DEF vars, rows, PoolTypeOK
<1> QED BY <1>1, <1>2, <1>3, <1>7, <1>8, <1>9, <1>10 DEF Next

\* The verdict a decision writes, and what it writes it to.
LEMMA Decides ==
  ASSUME RowsAndLocks, NEW s \in Screens,
         (WriteDecision(s) /\ ~ClosesPool(s)) \/ DropSurplus(s)
  PROVE  /\ EndScreen(s)
         /\ UNCHANGED <<king, reigned, owner, pool>>
         /\ screen[s].task \in Tasks
         /\ task'[screen[s].task] = FinalStatus(s)
         /\ FinalStatus(s) \in {"qualified", "disqualified"}
         /\ \A t \in Tasks \ {screen[s].task} : task'[t] # task[t] =>
              /\ task[t] \in {"candidate", "pending_screen"}
              /\ task'[t] = "disqualified"
              /\ TaskFree(s, t)
         /\ task[screen[s].task] = "pending_screen"
         /\ TaskFree(s, screen[s].task)
<1>1. screen[s].task \in Tasks /\ task[screen[s].task] = "pending_screen"
  BY DEF WriteDecision, DropSurplus, RowsAndLocks, HoldInv, Holds, TaskHeld
<1>2. TaskFree(s, screen[s].task)
  BY DEF WriteDecision, DropSurplus, RowsAndLocks, LockInv, Apart, TaskFree, TaskHeld
<1>3. CASE WriteDecision(s) /\ ~ClosesPool(s)
  BY <1>1, <1>2, <1>3 DEF WriteDecision, FinalStatus, RowsAndLocks, PoolTypeOK
<1>4. CASE DropSurplus(s)
  <2> DEFINE t == screen[s].task
             surplus == QueuedTasks(owner[t], pool[t]) \ {t}
  <2>1. \A u \in Tasks : task'[u] = IF u = t THEN FinalStatus(s)
                                    ELSE IF u \in surplus THEN "disqualified" ELSE task[u]
    BY <1>4 DEF DropSurplus
  <2>2. \A u \in surplus : TaskFree(s, u) /\ task[u] \in {"candidate", "pending_screen"}
    BY <1>4 DEF DropSurplus, QueuedTasks
  <2> HIDE DEF surplus
  <2>3. EndScreen(s) /\ UNCHANGED <<king, reigned, owner, pool>>
    BY <1>4 DEF DropSurplus
  <2> QED BY <1>1, <1>2, <2>1, <2>2, <2>3 DEF FinalStatus
<1> QED BY <1>3, <1>4

\* Every step keeps what the screenings rely on.
LEMMA NextRows == RowsAndLocks /\ [Next]_vars => RowsAndLocks'
<1> SUFFICES ASSUME RowsAndLocks, [Next]_vars PROVE RowsAndLocks'
  OBVIOUS
<1>0. PoolTypeOK'
  BY TypedStep DEF RowsAndLocks
<1>1. ASSUME NEW k \in Kings, Promote(k) PROVE RowsAndLocks'
  <2>1. RowInv'
    BY <1>1 DEF Promote, RowsAndLocks, RowInv, rows
  <2> QED BY <1>0, <1>1, <2>1, OtherWorkers DEF Promote, rows
<1>2. ASSUME NEW t \in Tasks, NEW k \in Kings, NEW p \in Pools, InsertCandidate(t, k, p)
      PROVE  RowsAndLocks'
  <2>1. RowInv'
    BY <1>2 DEF InsertCandidate, RowsAndLocks, RowInv, PoolTypeOK
  <2> QED BY <1>0, <1>2, <2>1, OtherWorkers DEF InsertCandidate, RowsAndLocks, PoolTypeOK
<1>3. ASSUME NEW t \in Tasks,
             StartSolve(t) \/ SolveRetryable(t) \/ FinishQualification(t) \/ BackoffElapses(t)
      PROVE  RowsAndLocks'
  <2> USE DEF StartSolve, SolveRetryable, FinishQualification, BackoffElapses, rows
  <2>1. RowInv'
    BY <1>3 DEF RowsAndLocks, RowInv, PoolTypeOK
  <2>2. UNCHANGED <<screen, owner>>
    BY <1>3
  <2>3. \A u \in Tasks : task[u] # "candidate" => task'[u] = task[u]
    BY <1>3 DEF RowsAndLocks, PoolTypeOK
  <2> QED BY <1>0, <2>1, <2>2, <2>3, OtherWorkers
<1>4. ASSUME NEW s \in Screens, EndScreen(s), UNCHANGED <<king, reigned, task, owner, pool>>
      PROVE  RowsAndLocks'
  BY <1>0, <1>4, Ends
<1>5. ASSUME NEW s \in Screens, NEW t \in Tasks, StartScreen(s, t) PROVE RowsAndLocks'
  <2>1. PICK v \in {"qualified", "disqualified", "error"} :
          screen' = [screen EXCEPT ![s].step = "read_king", ![s].task = t, ![s].verdict = v]
    BY <1>5 DEF StartScreen
  <2> DEFINE x == [screen[s] EXCEPT !.step = "read_king", !.task = t, !.verdict = v]
  <2>2. x \in ScreenType /\ x.step = "read_king" /\ x.task = t
    BY DEF RowsAndLocks, PoolTypeOK, ScreenType, ScreenSteps
  <2>3. screen' = [screen EXCEPT ![s] = x]
    BY <2>1
  <2> HIDE DEF x
  <2>4. screen'[s] = x
    BY <2>3 DEF RowsAndLocks, PoolTypeOK
  <2>5. Holds(s)'
    BY <1>5, <2>2, <2>4 DEF StartScreen, Holds, KingHeld, TaskHeld, rows
  <2>6. \A r \in Screens \ {s} : Apart(s, r)'
    BY <2>2, <2>4 DEF Apart, KingHeld, TaskHeld
  <2>7. UNCHANGED <<king, reigned, task, owner, pool>>
    BY <1>5 DEF StartScreen, rows
  <2> QED BY <1>0, <2>2, <2>3, <2>5, <2>6, <2>7, Moves
<1>6. ASSUME NEW s \in Screens, ReadKing(s) PROVE RowsAndLocks'
  <2>1. UNCHANGED <<king, reigned, task, owner, pool>>
    BY <1>6 DEF ReadKing, rows
  <2>2. CASE EndScreen(s)
    BY <2>1, <2>2, <1>4
  <2>3. CASE ~EndScreen(s)
    <3>1. PICK step \in {"lock_king", "lock_error"} :
            screen' = [screen EXCEPT ![s].step = step, ![s].king = king]
      BY <1>6, <2>3 DEF ReadKing
    <3> DEFINE x == [screen[s] EXCEPT !.step = step, !.king = king]
    <3>2. x \in ScreenType /\ x.step = step /\ x.task = screen[s].task
      BY DEF RowsAndLocks, PoolTypeOK, ScreenType, ScreenSteps
    <3>3. screen' = [screen EXCEPT ![s] = x]
      BY <3>1
    <3> HIDE DEF x
    <3>4. screen'[s] = x
      BY <3>3 DEF RowsAndLocks, PoolTypeOK
    <3>5. Holds(s) /\ screen[s].step = "read_king"
      BY <1>6 DEF ReadKing, RowsAndLocks, HoldInv
    <3>6. Holds(s)'
      BY <2>1, <3>2, <3>4, <3>5 DEF Holds, KingHeld, TaskHeld
    <3>7. \A r \in Screens \ {s} : Apart(s, r)'
      BY <3>2, <3>4 DEF Apart, KingHeld, TaskHeld
    <3> QED BY <1>0, <2>1, <3>2, <3>3, <3>6, <3>7, Moves
  <2> QED BY <2>2, <2>3
<1>7. ASSUME NEW s \in Screens, NEW step \in ScreenSteps, MoveTo(s, step),
             UNCHANGED <<king, reigned, task, owner, pool>>,
             screen[s].step # "idle",
             step \in KingHeld =>
               /\ screen[s].king = owner[screen[s].task]
               /\ \A r \in Screens \ {s} :
                    ~(screen[r].step \in KingHeld /\ screen[r].king = screen[s].king),
             step \in TaskHeld =>
               task[screen[s].task] = "pending_screen" /\ TaskFree(s, screen[s].task),
             step \in {"count", "drop_surplus"} => screen[s].verdict = "qualified"
      PROVE  RowsAndLocks'
  <2> DEFINE x == [screen[s] EXCEPT !.step = step]
  <2>1. /\ x \in ScreenType /\ x.step = step /\ x.task = screen[s].task
        /\ x.king = screen[s].king /\ x.verdict = screen[s].verdict
    BY DEF RowsAndLocks, PoolTypeOK, ScreenType
  <2>2. screen' = [screen EXCEPT ![s] = x]
    BY <1>7 DEF MoveTo
  <2> HIDE DEF x
  <2>3. \A r \in Screens : screen'[r] = IF r = s THEN x ELSE screen[r]
    BY <2>2 DEF RowsAndLocks, PoolTypeOK
  <2>4. Holds(s)
    BY DEF RowsAndLocks, HoldInv
  <2>5. Holds(s)'
    BY <1>7, <2>1, <2>3, <2>4 DEF Holds
  <2>6. \A r \in Screens \ {s} : Apart(s, r)'
    BY <1>7, <2>1, <2>3 DEF Apart, TaskFree
  <2> QED BY <1>0, <1>7, <2>1, <2>2, <2>5, <2>6, Moves
<1>8. ASSUME NEW s \in Screens, LockKing(s) PROVE RowsAndLocks'
  <2>1. UNCHANGED <<king, reigned, task, owner, pool>> /\ screen[s].step = "lock_king"
    BY <1>8 DEF LockKing, rows
  <2>2. CASE EndScreen(s)
    BY <2>1, <2>2, <1>4
  <2>3. CASE ~EndScreen(s)
    BY <1>7, <1>8, <2>1, <2>3 DEF LockKing, ScreenSteps, KingHeld, TaskHeld
  <2> QED BY <2>2, <2>3
<1>9. ASSUME NEW s \in Screens, LockTask(s) PROVE RowsAndLocks'
  <2>1. UNCHANGED <<king, reigned, task, owner, pool>> /\ screen[s].step = "lock_task"
    BY <1>9 DEF LockTask, rows
  <2>2. CASE EndScreen(s)
    BY <2>1, <2>2, <1>4
  <2>3. CASE ~EndScreen(s)
    <3> DEFINE step == IF screen[s].verdict = "qualified" THEN "count" ELSE "write"
    <3>1. MoveTo(s, step) /\ task[screen[s].task] = "pending_screen"
          /\ TaskFree(s, screen[s].task)
      BY <1>9, <2>3 DEF LockTask
    <3>2. /\ screen[s].king = owner[screen[s].task]
          /\ \A r \in Screens \ {s} :
               ~(screen[r].step \in KingHeld /\ screen[r].king = screen[s].king)
      BY <2>1 DEF RowsAndLocks, HoldInv, Holds, LockInv, Apart, KingHeld
    <3>3. step \in ScreenSteps /\ (step \in {"count", "drop_surplus"} =>
                                    screen[s].verdict = "qualified")
      BY DEF ScreenSteps, KingHeld
    <3> HIDE DEF step
    <3> QED BY <1>7, <2>1, <3>1, <3>2, <3>3
  <2> QED BY <2>2, <2>3
<1>10. ASSUME NEW s \in Screens, LockError(s) PROVE RowsAndLocks'
  <2>1. UNCHANGED <<king, reigned, task, owner, pool>> /\ screen[s].step = "lock_error"
    BY <1>10 DEF LockError, rows
  <2>2. CASE EndScreen(s)
    BY <2>1, <2>2, <1>4
  <2>3. CASE ~EndScreen(s)
    BY <1>7, <1>10, <2>1, <2>3 DEF LockError, ScreenSteps, KingHeld, TaskHeld
  <2> QED BY <2>2, <2>3
<1>11. ASSUME NEW s \in Screens, NEW x \in ScreenType,
              screen' = [screen EXCEPT ![s] = x],
              x.king = screen[s].king, x.task = screen[s].task,
              x.verdict = screen[s].verdict,
              screen[s].step \in KingHeld /\ screen[s].step \in TaskHeld,
              x.step \in KingHeld /\ x.step \in TaskHeld,
              x.step = "drop_surplus" => x.verdict = "qualified",
              x.step # "count",
              UNCHANGED <<king, reigned, task, owner, pool>>
       PROVE  RowsAndLocks'
  <2>1. \A r \in Screens : screen'[r] = IF r = s THEN x ELSE screen[r]
    BY <1>11 DEF RowsAndLocks, PoolTypeOK
  <2>2. Holds(s) /\ screen[s].step # "idle" /\ x.step # "idle"
    BY <1>11 DEF RowsAndLocks, HoldInv, KingHeld
  <2>3. Holds(s)'
    BY <1>11, <2>1, <2>2 DEF Holds
  <2>4. \A r \in Screens \ {s} : Apart(s, r)'
    <3> SUFFICES ASSUME NEW r \in Screens \ {s} PROVE Apart(s, r)'
      OBVIOUS
    <3>1. Apart(s, r)
      BY DEF RowsAndLocks, LockInv
    <3> QED BY <1>11, <2>1, <3>1 DEF Apart
  <2> QED BY <1>0, <1>11, <2>3, <2>4, Moves
<1>12. ASSUME NEW s \in Screens, CountQualified(s) PROVE RowsAndLocks'
  <2> DEFINE n == Cardinality(QualifiedTasks(owner[screen[s].task], pool[screen[s].task]))
             x == [screen[s] EXCEPT !.step = "write", !.count = n]
  <2>1. n \in Nat
    BY TaskPoolAssumption, FS_Subset, FS_CardinalityType DEF QualifiedTasks
  <2> HIDE DEF n
  <2>2. /\ x \in ScreenType /\ x.step = "write" /\ x.task = screen[s].task
        /\ x.king = screen[s].king /\ x.verdict = screen[s].verdict
    BY <2>1 DEF RowsAndLocks, PoolTypeOK, ScreenType, ScreenSteps, KingHeld
  <2>3. screen' = [screen EXCEPT ![s] = x] /\ screen[s].step = "count"
    BY <1>12 DEF CountQualified, n
  <2>4. UNCHANGED <<king, reigned, task, owner, pool>>
    BY <1>12 DEF CountQualified, rows
  <2> HIDE DEF x
  <2> QED BY <1>11, <2>2, <2>3, <2>4 DEF KingHeld, TaskHeld
<1>13. ASSUME NEW s \in Screens, WriteDecision(s) /\ ClosesPool(s) PROVE RowsAndLocks'
  <2> DEFINE t == screen[s].task
             c == {u \in QueuedTasks(owner[t], pool[t]) \ {t} : task[u] = "pending_screen"}
             x == [screen[s] EXCEPT !.step = "drop_surplus", !.cleared = c]
  <2>1. c \in SUBSET Tasks
    BY DEF QueuedTasks
  <2>2. screen' = [screen EXCEPT ![s].step = "drop_surplus", ![s].cleared = c]
        /\ screen[s].step = "write"
    BY <1>13 DEF WriteDecision
  <2> HIDE DEF c
  <2>3. /\ x \in ScreenType /\ x.step = "drop_surplus" /\ x.task = screen[s].task
        /\ x.king = screen[s].king /\ x.verdict = screen[s].verdict
    BY <2>1 DEF RowsAndLocks, PoolTypeOK, ScreenType, ScreenSteps, KingHeld
  <2>4. screen' = [screen EXCEPT ![s] = x]
    BY <2>2
  <2>5. UNCHANGED <<king, reigned, task, owner, pool>> /\ screen[s].verdict = "qualified"
    BY <1>13 DEF WriteDecision, ClosesPool
  <2> HIDE DEF x
  <2> QED BY <1>11, <2>2, <2>3, <2>4, <2>5 DEF KingHeld, TaskHeld
<1>14. ASSUME NEW s \in Screens, (WriteDecision(s) /\ ~ClosesPool(s)) \/ DropSurplus(s)
       PROVE  RowsAndLocks'
  BY <1>0, <1>14, Decides, Ends
<1>15. ASSUME NEW s \in Screens, SaveError(s) PROVE RowsAndLocks'
  <2>1. EndScreen(s) /\ UNCHANGED <<king, reigned, owner, pool>>
    BY <1>15 DEF SaveError
  <2>2. screen[s].task \in Tasks /\ task[screen[s].task] = "pending_screen"
    BY <1>15 DEF SaveError, RowsAndLocks, HoldInv, Holds, TaskHeld
  <2>3. TaskFree(s, screen[s].task)
    BY <1>15 DEF SaveError, RowsAndLocks, LockInv, Apart, TaskFree, TaskHeld
  <2>4. \A t \in Tasks : task'[t] # task[t] =>
          t = screen[s].task /\ task'[t] = "disqualified"
    BY <1>15 DEF SaveError, RowsAndLocks, PoolTypeOK
  <2> QED BY <1>0, <2>1, <2>2, <2>3, <2>4, Ends
<1>16. ASSUME NEW s \in Screens, CancelScreen(s) \/ AbortDeadlock(s) \/ ScreenFails(s)
       PROVE  RowsAndLocks'
  BY <1>4, <1>16 DEF CancelScreen, AbortDeadlock, ScreenFails, rows
<1>17. CASE UNCHANGED vars
  <2>1. RowInv'
    BY <1>17 DEF vars, rows, RowsAndLocks, RowInv
  <2> QED BY <1>0, <1>17, <2>1, OtherWorkers DEF vars, rows
<1> QED
  BY <1>1, <1>2, <1>3, <1>5, <1>6, <1>8, <1>9, <1>10, <1>12, <1>13, <1>14, <1>15, <1>16, <1>17
  DEF Next, Screening, SaveDecision

-----------------------------------------------------------------------------
(* The number of qualified tasks *)

\* A screening about to admit a task knows how full the pool is.
CountsRight(s) ==
  screen[s].step \in {"write", "drop_surplus"} /\ screen[s].verdict = "qualified" =>
    screen[s].count =
      Cardinality(QualifiedTasks(owner[screen[s].task], pool[screen[s].task]))

\* The pools of a past king are full.
PastPoolsFull ==
  \A k \in reigned \ {king}, p \in Pools : Cardinality(QualifiedTasks(k, p)) = Target[p]

CountInv ==
  /\ NoOverfill
  /\ PastPoolsFull
  /\ \A s \in Screens : CountsRight(s)

PoolInv == RowsAndLocks /\ CountInv

\* No pool gains or loses a qualified task.
PoolsKept == \A k \in Kings, p \in Pools : QualifiedTasks(k, p)' = QualifiedTasks(k, p)

\* Screening s admits task t of king k to pool p, and no other pool changes.
Admits(s, t, k, p) ==
  /\ t = screen[s].task /\ k = owner[t] /\ p = pool[t]
  /\ screen[s].step \in {"write", "drop_surplus"}
  /\ FitsPool(s)
  /\ task[t] = "pending_screen"
  /\ EndScreen(s)
  /\ UNCHANGED <<king, reigned, owner, pool>>
  /\ QualifiedTasks(k, p)' = QualifiedTasks(k, p) \cup {t}
  /\ \A j \in Kings, q \in Pools : <<j, q>> # <<k, p>> =>
       QualifiedTasks(j, q)' = QualifiedTasks(j, q)

AnAdmission == \E s \in Screens, t \in Tasks, k \in Kings, p \in Pools : Admits(s, t, k, p)

LEMMA FinitePools ==
  \A k, p : /\ IsFiniteSet(QualifiedTasks(k, p))
            /\ Cardinality(QualifiedTasks(k, p)) \in Nat
BY TaskPoolAssumption, FS_Subset, FS_CardinalityType DEF QualifiedTasks

LEMMA InitCount == Init => CountInv
<1> SUFFICES ASSUME Init PROVE CountInv
  OBVIOUS
<1>1. \A k \in Kings, p \in Pools : QualifiedTasks(k, p) = {}
  BY DEF Init, QualifiedTasks
<1>2. NoOverfill
  BY <1>1, FS_EmptySet, TaskPoolAssumption DEF NoOverfill
<1>3. PastPoolsFull
  BY DEF Init, PastPoolsFull
<1>4. \A s \in Screens : CountsRight(s)
  BY DEF Init, Idle, CountsRight
<1> QED BY <1>2, <1>3, <1>4 DEF CountInv

\* What a decision does to the pools.
LEMMA DecisionEffect ==
  ASSUME RowsAndLocks, NEW s \in Screens,
         (WriteDecision(s) /\ ~ClosesPool(s)) \/ DropSurplus(s)
  PROVE  PoolsKept \/ AnAdmission
<1> DEFINE st == screen[s].task
<1>1. PICK t \in Tasks : t = st
  BY Decides
<1>2. PICK k \in Kings, p \in Pools : k = owner[t] /\ p = pool[t]
  <2>1. task[t] # "none"
    BY <1>1, Decides
  <2> QED BY <2>1 DEF RowsAndLocks, RowInv, PoolTypeOK
<1>3. /\ EndScreen(s) /\ UNCHANGED <<king, reigned, owner, pool>>
      /\ task[t] = "pending_screen" /\ task'[t] = FinalStatus(s)
      /\ \A u \in Tasks \ {t} : task'[u] # task[u] =>
           task[u] # "qualified" /\ task'[u] # "qualified"
  BY <1>1, Decides
<1>4. screen[s].step \in {"write", "drop_surplus"}
  BY DEF WriteDecision, DropSurplus
<1>5. CASE FitsPool(s)
  <2>1. task'[t] = "qualified"
    BY <1>3, <1>5 DEF FinalStatus
  <2>2. ASSUME NEW u \in Tasks
        PROVE  (task'[u] = "qualified") <=> (task[u] = "qualified" \/ u = t)
    BY <1>3, <2>1
  <2>3. QualifiedTasks(k, p)' = QualifiedTasks(k, p) \cup {t}
    BY <1>2, <1>3, <2>2 DEF QualifiedTasks
  <2>4. \A j \in Kings, q \in Pools : <<j, q>> # <<k, p>> =>
          QualifiedTasks(j, q)' = QualifiedTasks(j, q)
    BY <1>2, <1>3, <2>2 DEF QualifiedTasks
  <2>5. Admits(s, t, k, p)
    BY <1>1, <1>2, <1>3, <1>4, <1>5, <2>3, <2>4 DEF Admits
  <2> QED BY <2>5 DEF AnAdmission
<1>6. CASE ~FitsPool(s)
  <2>1. task'[t] = "disqualified"
    BY <1>3, <1>6 DEF FinalStatus
  <2> QED BY <1>3, <2>1 DEF PoolsKept, QualifiedTasks
<1> QED BY <1>5, <1>6

\* A step keeps the pools or is the admission of one task.
LEMMA StepEffect ==
  RowsAndLocks /\ [Next]_vars => PoolsKept \/ AnAdmission
<1> SUFFICES ASSUME RowsAndLocks, [Next]_vars
             PROVE  PoolsKept \/ AnAdmission
  OBVIOUS
<1>1. ASSUME NEW k \in Kings, Promote(k) PROVE PoolsKept
  BY <1>1 DEF Promote, rows, PoolsKept, QualifiedTasks
<1>2. ASSUME NEW t \in Tasks, NEW k \in Kings, NEW p \in Pools, InsertCandidate(t, k, p)
      PROVE  PoolsKept
  BY <1>2 DEF InsertCandidate, PoolsKept, QualifiedTasks, RowsAndLocks, PoolTypeOK
<1>3. ASSUME NEW t \in Tasks,
             StartSolve(t) \/ SolveRetryable(t) \/ FinishQualification(t) \/ BackoffElapses(t)
      PROVE  PoolsKept
  <2>1. \A u \in Tasks :
          (task'[u] = task[u]) \/ (task[u] # "qualified" /\ task'[u] # "qualified")
    <3>1. \/ task' = task
          \/ /\ task[t] = "candidate"
             /\ \/ task' = [task EXCEPT ![t] = "pending_screen"]
                \/ task' = [task EXCEPT ![t] = "disqualified"]
      BY <1>3 DEF StartSolve, SolveRetryable, FinishQualification, BackoffElapses, rows
    <3> QED BY <3>1 DEF RowsAndLocks, PoolTypeOK
  <2>2. UNCHANGED <<owner, pool>>
    BY <1>3 DEF StartSolve, SolveRetryable, FinishQualification, BackoffElapses, rows
  <2> QED BY <2>1, <2>2 DEF PoolsKept, QualifiedTasks
<1>4. ASSUME UNCHANGED <<task, owner, pool>> PROVE PoolsKept
  BY <1>4 DEF PoolsKept, QualifiedTasks
<1>5. ASSUME NEW s \in Screens, SaveError(s) PROVE PoolsKept
  <2>1. screen[s].task \in Tasks /\ task[screen[s].task] = "pending_screen"
    BY <1>5 DEF SaveError, RowsAndLocks, HoldInv, Holds, TaskHeld
  <2>2. \A t \in Tasks :
          (task'[t] = task[t]) \/ (task[t] # "qualified" /\ task'[t] # "qualified")
    <3>1. task' = task \/ task' = [task EXCEPT ![screen[s].task] = "disqualified"]
      BY <1>5 DEF SaveError
    <3> QED BY <2>1, <3>1 DEF RowsAndLocks, PoolTypeOK
  <2>3. UNCHANGED <<owner, pool>>
    BY <1>5 DEF SaveError
  <2> QED BY <2>2, <2>3 DEF PoolsKept, QualifiedTasks
<1>6. ASSUME NEW s \in Screens, Screening(s), ~SaveError(s),
             ~(WriteDecision(s) /\ ~ClosesPool(s)), ~DropSurplus(s)
      PROVE  UNCHANGED <<task, owner, pool>>
  BY <1>6 DEF Screening, SaveDecision, ReadKing, LockKing, LockTask, CountQualified,
              WriteDecision, LockError, rows
<1>7. ASSUME NEW s \in Screens, NEW t \in Tasks, StartScreen(s, t)
      PROVE  UNCHANGED <<task, owner, pool>>
  BY <1>7 DEF StartScreen, rows
<1>8. ASSUME NEW s \in Screens, CancelScreen(s) \/ AbortDeadlock(s) \/ ScreenFails(s)
      PROVE  UNCHANGED <<task, owner, pool>>
  BY <1>8 DEF CancelScreen, AbortDeadlock, ScreenFails, rows
<1>9. CASE UNCHANGED vars
  BY <1>4, <1>9 DEF vars, rows
<1>10. ASSUME NEW s \in Screens, Screening(s) PROVE PoolsKept \/ AnAdmission
  BY <1>4, <1>5, <1>6, <1>10, DecisionEffect
<1> QED BY <1>1, <1>2, <1>3, <1>4, <1>7, <1>8, <1>9, <1>10 DEF Next

\* A row never leaves its king and its pool.
LEMMA RowsStay ==
  PoolTypeOK /\ [Next]_vars =>
    \A t \in Tasks : task[t] # "none" => owner'[t] = owner[t] /\ pool'[t] = pool[t]
<1> SUFFICES ASSUME PoolTypeOK, [Next]_vars, NEW t \in Tasks, task[t] # "none"
             PROVE  owner'[t] = owner[t] /\ pool'[t] = pool[t]
  OBVIOUS
<1>1. ASSUME NEW u \in Tasks, NEW k \in Kings, NEW p \in Pools, InsertCandidate(u, k, p)
      PROVE  owner'[t] = owner[t] /\ pool'[t] = pool[t]
  BY <1>1 DEF InsertCandidate, PoolTypeOK
<1>2. CASE ~\E u \in Tasks, k \in Kings, p \in Pools : InsertCandidate(u, k, p)
  BY <1>2 DEF Next, Promote, StartSolve, SolveRetryable, FinishQualification, BackoffElapses,
              StartScreen, Screening, SaveDecision, ReadKing, LockKing, LockTask,
              CountQualified, WriteDecision, DropSurplus, LockError, SaveError, CancelScreen,
              AbortDeadlock, ScreenFails, vars, rows
<1> QED BY <1>1, <1>2

\* How a screening comes to write the decision that admits its task: by counting,
\* and by going on to the surplus.
CameToWrite(r) ==
  \/ screen'[r] = screen[r]
  \/ screen'[r].step \notin {"write", "drop_surplus"}
  \/ screen'[r].verdict # "qualified"
  \/ /\ screen[r].step = "count"
     /\ screen'[r].task = screen[r].task
     /\ screen'[r].count =
          Cardinality(QualifiedTasks(owner[screen[r].task], pool[screen[r].task]))
  \/ /\ screen[r].step = "write"
     /\ screen'[r].task = screen[r].task
     /\ screen'[r].verdict = screen[r].verdict
     /\ screen'[r].count = screen[r].count

LEMMA ComesToWrite ==
  PoolTypeOK /\ [Next]_vars => \A r \in Screens : CameToWrite(r)
<1> SUFFICES ASSUME PoolTypeOK, [Next]_vars, NEW r \in Screens PROVE CameToWrite(r)
  OBVIOUS
<1>1. ASSUME NEW s \in Screens, EndScreen(s) PROVE CameToWrite(r)
  BY <1>1 DEF EndScreen, CameToWrite, Idle, PoolTypeOK
<1>2. ASSUME NEW s \in Screens, NEW step \in ScreenSteps, MoveTo(s, step),
             step \notin {"write", "drop_surplus"} \/ screen[s].verdict # "qualified"
      PROVE  CameToWrite(r)
  BY <1>2 DEF MoveTo, CameToWrite, PoolTypeOK, ScreenType
<1>3. CASE UNCHANGED screen
  BY <1>3 DEF CameToWrite
<1>4. ASSUME NEW s \in Screens, NEW t \in Tasks, StartScreen(s, t) PROVE CameToWrite(r)
  <2>1. PICK v \in {"qualified", "disqualified", "error"} :
          screen' = [screen EXCEPT ![s].step = "read_king", ![s].task = t, ![s].verdict = v]
    BY <1>4 DEF StartScreen
  <2> QED BY <2>1 DEF CameToWrite, PoolTypeOK, ScreenType
<1>5. ASSUME NEW s \in Screens, Screening(s) PROVE CameToWrite(r)
  <2> USE DEF Screening, SaveDecision
  <2>1. CASE ReadKing(s)
    BY <1>1, <2>1 DEF ReadKing, CameToWrite, PoolTypeOK, ScreenType
  <2>2. CASE LockKing(s)
    BY <1>1, <1>2, <2>2 DEF LockKing, ScreenSteps, KingHeld
  <2>3. CASE LockTask(s)
    BY <1>1, <1>2, <2>3 DEF LockTask, ScreenSteps, KingHeld
  <2>4. CASE CountQualified(s)
    <3> DEFINE n == Cardinality(QualifiedTasks(owner[screen[s].task], pool[screen[s].task]))
    <3>1. screen[s].step = "count" /\ screen' = [screen EXCEPT ![s].step = "write", ![s].count = n]
      BY <2>4 DEF CountQualified
    <3>2. n = Cardinality(QualifiedTasks(owner[screen[s].task], pool[screen[s].task]))
      OBVIOUS
    <3> HIDE DEF n
    <3>3. CASE r = s
      BY <3>1, <3>2, <3>3 DEF CameToWrite, PoolTypeOK, ScreenType
    <3>4. CASE r # s
      BY <3>1, <3>4 DEF CameToWrite, PoolTypeOK
    <3> QED BY <3>3, <3>4
  <2>5. CASE WriteDecision(s)
    <3>1. CASE ClosesPool(s)
      <4> DEFINE t == screen[s].task
                 c == {u \in QueuedTasks(owner[t], pool[t]) \ {t} : task[u] = "pending_screen"}
      <4>1. screen' = [screen EXCEPT ![s].step = "drop_surplus", ![s].cleared = c]
            /\ screen[s].step = "write"
        BY <2>5, <3>1 DEF WriteDecision
      <4> HIDE DEF c
      <4> QED BY <4>1 DEF CameToWrite, PoolTypeOK, ScreenType
    <3> QED BY <1>1, <2>5, <3>1 DEF WriteDecision
  <2>6. CASE DropSurplus(s)
    BY <1>1, <2>6 DEF DropSurplus
  <2>7. CASE LockError(s)
    BY <1>1, <1>2, <2>7 DEF LockError, ScreenSteps, TaskHeld
  <2>8. CASE SaveError(s)
    BY <1>1, <2>8 DEF SaveError
  <2> QED BY <1>5, <2>1, <2>2, <2>3, <2>4, <2>5, <2>6, <2>7, <2>8
<1> QED
  BY <1>1, <1>3, <1>4, <1>5
  DEF Next, Promote, InsertCandidate, StartSolve, SolveRetryable, FinishQualification,
      BackoffElapses, CancelScreen, AbortDeadlock, ScreenFails, vars

\* When the pools are kept, so is what the screenings know of them.
LEMMA KeptCounts ==
  ASSUME PoolInv, [Next]_vars, RowsAndLocks', PoolsKept
  PROVE  CountInv'
<1>1. NoOverfill'
  BY DEF PoolInv, CountInv, NoOverfill, PoolsKept
<1>2. PastPoolsFull'
  <2>1. CASE \E n \in Kings : Promote(n)
    <3>1. PICK n \in Kings : Promote(n)
      BY <2>1
    <3>2. ASSUME NEW k \in reigned' \ {king'}, NEW p \in Pools
          PROVE  Cardinality(QualifiedTasks(k, p)) = Target[p]
      <4>1. k \in reigned /\ k \in Kings
        BY <3>1, <3>2 DEF Promote, PoolInv, RowsAndLocks, PoolTypeOK
      <4>2. CASE k = king
        <5>1. Cardinality(QualifiedTasks(k, p)) >= Target[p]
          BY <3>1, <4>2 DEF Promote
        <5>2. Cardinality(QualifiedTasks(k, p)) <= Target[p]
          BY <4>1 DEF PoolInv, CountInv, NoOverfill
        <5> QED BY <5>1, <5>2, FinitePools, TaskPoolAssumption
      <4>3. CASE k # king
        BY <4>1, <4>3 DEF PoolInv, CountInv, PastPoolsFull
      <4> QED BY <4>2, <4>3
    <3>3. reigned' \subseteq Kings
      BY DEF RowsAndLocks, PoolTypeOK
    <3> QED BY <3>2, <3>3 DEF PastPoolsFull, PoolsKept
  <2>2. CASE ~\E n \in Kings : Promote(n)
    <3>1. UNCHANGED <<king, reigned>>
      BY <2>2 DEF Next, InsertCandidate, StartSolve, SolveRetryable, FinishQualification,
                  BackoffElapses, StartScreen, Screening, SaveDecision, ReadKing, LockKing,
                  LockTask, CountQualified, WriteDecision, DropSurplus, LockError, SaveError,
                  CancelScreen, AbortDeadlock, ScreenFails, vars
    <3>2. reigned \subseteq Kings
      BY DEF PoolInv, RowsAndLocks, PoolTypeOK
    <3> QED BY <3>1, <3>2 DEF PoolInv, CountInv, PastPoolsFull, PoolsKept
  <2> QED BY <2>1, <2>2
<1>3. ASSUME NEW r \in Screens PROVE CountsRight(r)'
  <2> SUFFICES ASSUME screen'[r].step \in {"write", "drop_surplus"},
                      screen'[r].verdict = "qualified"
               PROVE  screen'[r].count =
                        Cardinality(QualifiedTasks(owner[screen[r].task], pool[screen[r].task]))'
    BY DEF CountsRight
  <2>1. /\ screen[r].step \in {"count", "write", "drop_surplus"}
        /\ screen'[r].task = screen[r].task
        /\ screen'[r].count =
             Cardinality(QualifiedTasks(owner[screen[r].task], pool[screen[r].task]))
    <3>1. CameToWrite(r) /\ CountsRight(r)
      BY ComesToWrite DEF PoolInv, RowsAndLocks, CountInv
    <3> QED BY <3>1 DEF CameToWrite, CountsRight
  <2>2. PICK t \in Tasks : t = screen[r].task /\ task[t] # "none"
    BY <2>1 DEF PoolInv, RowsAndLocks, HoldInv, Holds
  <2>3. PICK k \in Kings, p \in Pools : k = owner[t] /\ p = pool[t]
    BY <2>2 DEF PoolInv, RowsAndLocks, RowInv, PoolTypeOK
  <2>4. owner'[t] = k /\ pool'[t] = p
    BY <2>2, <2>3, RowsStay DEF PoolInv, RowsAndLocks
  <2>5. QualifiedTasks(k, p)' = QualifiedTasks(k, p)
    BY DEF PoolsKept
  <2>6. screen'[r].count = Cardinality(QualifiedTasks(k, p))'
    BY <2>1, <2>2, <2>3, <2>5
  <2>7. t = screen'[r].task
    BY <2>1, <2>2
  <2> QED BY <2>4, <2>6, <2>7
<1> QED BY <1>1, <1>2, <1>3 DEF CountInv

\* An admission adds one task to a pool of the reigning king that had a place.
LEMMA AdmissionCounts ==
  ASSUME PoolInv, NEW s \in Screens, NEW t \in Tasks, NEW k \in Kings, NEW p \in Pools,
         Admits(s, t, k, p)
  PROVE  /\ k = king
         /\ t \notin QualifiedTasks(k, p)
         /\ Cardinality(QualifiedTasks(k, p)) < Target[p]
         /\ Cardinality(QualifiedTasks(k, p)') = Cardinality(QualifiedTasks(k, p)) + 1
<1>1. screen[s].count = Cardinality(QualifiedTasks(k, p)) /\ screen[s].count < Target[p]
  BY DEF Admits, FitsPool, PoolInv, CountInv, CountsRight
<1>2. t \notin QualifiedTasks(k, p)
  BY DEF Admits, QualifiedTasks
<1>3. Cardinality(QualifiedTasks(k, p)') = Cardinality(QualifiedTasks(k, p)) + 1
  <2> DEFINE S == QualifiedTasks(k, p)
  <2>1. IsFiniteSet(S) /\ t \notin S
    BY <1>2, FinitePools
  <2>2. QualifiedTasks(k, p)' = S \cup {t}
    BY DEF Admits
  <2> HIDE DEF S
  <2>3. Cardinality(S \cup {t}) = Cardinality(S) + 1
    BY <2>1, FS_AddElement
  <2> QED BY <2>2, <2>3 DEF S
<1>4. k \in reigned
  BY DEF Admits, PoolInv, RowsAndLocks, RowInv
<1>5. k = king
  BY <1>1, <1>4, FinitePools, TaskPoolAssumption DEF PoolInv, CountInv, PastPoolsFull
<1> QED BY <1>1, <1>2, <1>3, <1>5

\* The king's row keeps the other counts right during an admission.
LEMMA AdmittedCounts ==
  ASSUME PoolInv, [Next]_vars, NEW s \in Screens, NEW t \in Tasks, NEW k \in Kings,
         NEW p \in Pools, Admits(s, t, k, p)
  PROVE  CountInv'
<1>1. /\ k = king
      /\ Cardinality(QualifiedTasks(k, p)) < Target[p]
      /\ Cardinality(QualifiedTasks(k, p)') = Cardinality(QualifiedTasks(k, p)) + 1
  BY AdmissionCounts
<1>2. \A j \in Kings, q \in Pools : <<j, q>> # <<k, p>> =>
        QualifiedTasks(j, q)' = QualifiedTasks(j, q)
  BY DEF Admits
<1>3. NoOverfill'
  <2> SUFFICES ASSUME NEW j \in Kings, NEW q \in Pools
               PROVE  Cardinality(QualifiedTasks(j, q)') <= Target[q]
    BY DEF NoOverfill
  <2>1. CASE <<j, q>> = <<k, p>>
    BY <1>1, <2>1, FinitePools, TaskPoolAssumption
  <2>2. CASE <<j, q>> # <<k, p>>
    BY <1>2, <2>2 DEF PoolInv, CountInv, NoOverfill
  <2> QED BY <2>1, <2>2
<1>4. PastPoolsFull'
  <2>1. UNCHANGED <<king, reigned>> /\ reigned \subseteq Kings
    BY DEF Admits, PoolInv, RowsAndLocks, PoolTypeOK
  <2> QED BY <1>1, <1>2, <2>1 DEF PoolInv, CountInv, PastPoolsFull
<1>5. ASSUME NEW r \in Screens PROVE CountsRight(r)'
  <2>1. \A x \in Screens : screen'[x] = IF x = s THEN Idle ELSE screen[x]
    BY DEF Admits, EndScreen, PoolInv, RowsAndLocks, PoolTypeOK
  <2>2. CASE r = s
    BY <2>1, <2>2 DEF CountsRight, Idle
  <2>3. CASE r # s
    <3> SUFFICES ASSUME screen[r].step \in {"write", "drop_surplus"},
                        screen[r].verdict = "qualified"
                 PROVE  CountsRight(r)'
      BY <2>1, <2>3 DEF CountsRight
    <3>1. PICK u \in Tasks : u = screen[r].task /\ task[u] = "pending_screen"
      BY DEF PoolInv, RowsAndLocks, HoldInv, Holds, TaskHeld
    <3>2. PICK j \in Kings, q \in Pools : j = owner[u] /\ q = pool[u]
      BY <3>1 DEF PoolInv, RowsAndLocks, RowInv, PoolTypeOK
    <3>3. j # k
      <4>1. Apart(s, r) /\ Holds(s) /\ Holds(r)
        BY <2>3 DEF PoolInv, RowsAndLocks, LockInv, HoldInv
      <4> QED BY <3>1, <3>2, <4>1 DEF Admits, Apart, Holds, KingHeld
    <3>4. screen[r].count = Cardinality(QualifiedTasks(j, q))
      BY <3>1, <3>2 DEF PoolInv, CountInv, CountsRight
    <3>5. screen'[r].count = Cardinality(QualifiedTasks(j, q)')
      BY <1>2, <2>1, <2>3, <3>3, <3>4
    <3>6. u = screen'[r].task /\ j = owner'[u] /\ q = pool'[u]
      BY <2>1, <2>3, <3>1, <3>2 DEF Admits
    <3> QED BY <3>5, <3>6 DEF CountsRight
  <2> QED BY <2>2, <2>3
<1> QED BY <1>3, <1>4, <1>5 DEF CountInv

LEMMA NextPool == PoolInv /\ [Next]_vars => PoolInv'
<1> SUFFICES ASSUME PoolInv, [Next]_vars PROVE PoolInv'
  OBVIOUS
<1>1. RowsAndLocks'
  BY NextRows DEF PoolInv
<1>2. CASE PoolsKept
  BY <1>1, <1>2, KeptCounts DEF PoolInv
<1>3. CASE AnAdmission
  BY <1>1, <1>3, AdmittedCounts DEF PoolInv, AnAdmission
<1> QED BY <1>2, <1>3, StepEffect DEF PoolInv

THEOREM PoolInvariance == Spec => []PoolInv
<1>1. Init => PoolInv
  BY InitRows, InitCount DEF PoolInv
<1> QED BY <1>1, NextPool, PTL DEF Spec

-----------------------------------------------------------------------------
\* save_decision: a pool never holds more than its target, however many screenings
\* pass at the same moment, and every column of tasks and every screening holds
\* values of its type.
THEOREM PoolsNeverOverfill == Spec => []PoolInvariant
<1>1. PoolInv => PoolInvariant
  BY DEF PoolInv, RowsAndLocks, CountInv, PoolInvariant
<1> QED BY <1>1, PoolInvariance, PTL

-----------------------------------------------------------------------------
(* The workers implement the admission *)

pools == [k \in Kings |-> [p \in Pools |-> QualifiedTasks(k, p)]]

LEMMA SameCardinality == \A S : Admission!Cardinality(S) = Cardinality(S)
BY DEF Admission!Cardinality, Cardinality

LEMMA InitAdmission == Init => Admission!Init
BY DEF Init, Admission!Init, QualifiedTasks

\* An admission of the workers is an Admit.
LEMMA AdmitMaps ==
  ASSUME PoolInv, NEW s \in Screens, NEW t \in Tasks, NEW k \in Kings, NEW p \in Pools,
         Admits(s, t, k, p)
  PROVE  Admission!Admit(p, t)
<1>1. k = king /\ Cardinality(QualifiedTasks(k, p)) < Target[p]
  BY AdmissionCounts
<1>2. \A j \in Kings, q \in Pools : t \notin QualifiedTasks(j, q)
  BY DEF Admits, QualifiedTasks
<1>3. pools' = [pools EXCEPT ![k][p] = @ \cup {t}]
  <2>1. \A j \in Kings, q \in Pools :
          QualifiedTasks(j, q)' = IF j = k /\ q = p THEN QualifiedTasks(j, q) \cup {t}
                                  ELSE QualifiedTasks(j, q)
    BY DEF Admits
  <2> QED BY <2>1 DEF pools
<1>4. UNCHANGED <<king, reigned>>
  BY DEF Admits
<1> QED BY <1>1, <1>2, <1>3, <1>4, SameCardinality DEF pools, Admission!Admit

\* Every step is a step of the admission or leaves it alone.
LEMMA StepAdmission ==
  PoolInv /\ [Next]_vars => [Admission!Next]_<<king, reigned, pools>>
<1> SUFFICES ASSUME PoolInv, [Next]_vars PROVE [Admission!Next]_<<king, reigned, pools>>
  OBVIOUS
<1>1. CASE AnAdmission
  BY <1>1, AdmitMaps DEF AnAdmission, Admission!Next
<1>2. CASE PoolsKept
  <2>1. UNCHANGED pools
    BY <1>2 DEF PoolsKept, pools
  <2>2. CASE \E k \in Kings : Promote(k)
    <3>1. PICK k \in Kings : Promote(k)
      BY <2>2
    <3>2. ASSUME NEW p \in Pools PROVE Cardinality(QualifiedTasks(king, p)) = Target[p]
      <4>1. Cardinality(QualifiedTasks(king, p)) >= Target[p]
        BY <3>1 DEF Promote
      <4>2. Cardinality(QualifiedTasks(king, p)) <= Target[p]
        BY DEF PoolInv, RowsAndLocks, PoolTypeOK, CountInv, NoOverfill
      <4> QED BY <4>1, <4>2, FinitePools, TaskPoolAssumption
    <3>3. king \in Kings
      BY DEF PoolInv, RowsAndLocks, PoolTypeOK
    <3>4. Admission!Succeed(k)
      BY <2>1, <3>1, <3>2, <3>3, SameCardinality DEF Admission!Succeed, Promote, pools
    <3> QED BY <3>4 DEF Admission!Next
  <2>3. CASE ~\E k \in Kings : Promote(k)
    <3>1. UNCHANGED <<king, reigned>>
      BY <2>3 DEF Next, InsertCandidate, StartSolve, SolveRetryable, FinishQualification,
                  BackoffElapses, StartScreen, Screening, SaveDecision, ReadKing, LockKing,
                  LockTask, CountQualified, WriteDecision, DropSurplus, LockError, SaveError,
                  CancelScreen, AbortDeadlock, ScreenFails, vars
    <3> QED BY <2>1, <3>1
  <2> QED BY <2>2, <2>3
<1> QED BY <1>1, <1>2, StepEffect DEF PoolInv

\* The task generator, the solver and the screeners implement the admission: only
\* the reigning king's pools grow, one task at a time, and a king is succeeded over
\* exactly full pools, which stay as they are from then on.
THEOREM PoolsImplementAdmission == Spec => AdmissionSpec
<1>1. Init => Admission!Init
  BY InitAdmission
<1>2. PoolInv /\ [Next]_vars => [Admission!Next]_<<king, reigned, pools>>
  BY StepAdmission
<1> QED BY <1>1, <1>2, PoolInvariance, PTL DEF Spec, AdmissionSpec, Admission!Spec, pools

-----------------------------------------------------------------------------
(* Verdicts *)

\* A task's verdict comes from one of the four writers of tasks.status_id, and each
\* of them finds the task still queued.
LEMMA WritersFindQueued ==
  RowsAndLocks /\ [Next]_vars =>
    \A t \in Tasks : task[t] \in {"qualified", "disqualified"} => task'[t] = task[t]
<1> DEFINE Final == \A t \in Tasks :
             task[t] \in {"qualified", "disqualified"} => task'[t] = task[t]
<1> SUFFICES ASSUME RowsAndLocks, [Next]_vars PROVE Final
  OBVIOUS
<1>1. ASSUME NEW t \in Tasks, NEW k \in Kings, NEW p \in Pools, InsertCandidate(t, k, p)
      PROVE  Final
  BY <1>1 DEF InsertCandidate, RowsAndLocks, PoolTypeOK
<1>2. ASSUME NEW t \in Tasks, FinishQualification(t) PROVE Final
  BY <1>2 DEF FinishQualification, RowsAndLocks, PoolTypeOK
<1>3. ASSUME NEW s \in Screens, (WriteDecision(s) /\ ~ClosesPool(s)) \/ DropSurplus(s)
      PROVE  Final
  <2> DEFINE st == screen[s].task
  <2>1. /\ st \in Tasks /\ task[st] = "pending_screen"
        /\ \A u \in Tasks \ {st} : task'[u] # task[u] =>
             task[u] \in {"candidate", "pending_screen"}
    BY <1>3, Decides
  <2> HIDE DEF st
  <2> QED BY <2>1
<1>4. ASSUME NEW s \in Screens, SaveError(s) PROVE Final
  <2>1. screen[s].task \in Tasks /\ task[screen[s].task] = "pending_screen"
    BY <1>4 DEF SaveError, RowsAndLocks, HoldInv, Holds, TaskHeld
  <2>2. task' = task \/ task' = [task EXCEPT ![screen[s].task] = "disqualified"]
    BY <1>4 DEF SaveError
  <2> QED BY <2>1, <2>2 DEF RowsAndLocks, PoolTypeOK
<1>5. CASE UNCHANGED task
  BY <1>5
<1> HIDE DEF Final
<1> QED
  BY <1>1, <1>2, <1>3, <1>4, <1>5
  DEF Next, Promote, StartSolve, SolveRetryable, BackoffElapses, StartScreen, Screening,
      SaveDecision, ReadKing, LockKing, LockTask, CountQualified, WriteDecision, LockError,
      CancelScreen, AbortDeadlock, ScreenFails, vars, rows

\* finish_qualification, save_decision, its surplus, and save_error: whatever the
\* order in which they come, none changes a verdict that another has given.
THEOREM VerdictsStayFinal == Spec => VerdictsAreFinal
<1> DEFINE Kept == \A t \in Tasks :
             /\ task[t] \in {"qualified", "disqualified"} => task'[t] = task[t]
             /\ task[t] # "none" => owner'[t] = owner[t] /\ pool'[t] = pool[t]
<1>1. PoolInv /\ [Next]_vars => [Kept]_rows
  BY WritersFindQueued, RowsStay DEF PoolInv, RowsAndLocks
<1> QED BY <1>1, PoolInvariance, PTL DEF Spec, VerdictsAreFinal
-----------------------------------------------------------------------------
(* Failed runs *)

\* A screening that has found its task due finds it so when it counts the failed run.
DueInv == \A s \in Screens : screen[s].step = "save_error" => due[screen[s].task]

\* Only a failed run starts a back-off.
LEMMA DueFalls ==
  ASSUME RowsAndLocks, [Next]_vars, NEW t \in Tasks, due[t], ~due'[t]
  PROVE  \E r \in Screens : SaveError(r) /\ screen[r].task = t
<1>1. due \in [Tasks -> BOOLEAN]
  BY DEF RowsAndLocks, PoolTypeOK
<1>2. ASSUME NEW s \in Screens, SaveError(s) PROVE screen[s].task = t
  BY <1>1, <1>2 DEF SaveError
<1>3. ASSUME NEW s \in Screens, WriteDecision(s) PROVE FALSE
  BY <1>1, <1>3 DEF WriteDecision
<1>4. ASSUME NEW s \in Screens, DropSurplus(s) PROVE FALSE
  BY <1>4 DEF DropSurplus
<1>5. ASSUME NEW u \in Tasks, BackoffElapses(u) PROVE FALSE
  BY <1>1, <1>5 DEF BackoffElapses
<1>6. due' # due
  OBVIOUS
<1> QED
  BY <1>2, <1>3, <1>4, <1>5, <1>6
  DEF Next, Promote, InsertCandidate, FinishQualification, StartSolve, SolveRetryable, StartScreen, Screening,
      SaveDecision, ReadKing, LockKing, LockTask, CountQualified, LockError, CancelScreen, AbortDeadlock, ScreenFails,
      vars, rows

\* A screening comes to save_error only past the check that the task is due.
LEMMA ComesToSaveError ==
  ASSUME RowsAndLocks, [Next]_vars, NEW s \in Screens, screen'[s].step = "save_error"
  PROVE  \/ screen'[s] = screen[s]
         \/ LockError(s) /\ screen'[s].task = screen[s].task /\ due[screen[s].task]
<1>1. screen \in [Screens -> ScreenType]
  BY DEF RowsAndLocks, PoolTypeOK
<1>2. Idle.step = "idle"
  BY DEF Idle
<1>3. \A q \in Screens : EndScreen(q) => screen'[s] = screen[s]
  BY <1>1, <1>2 DEF EndScreen
<1>4. \A q \in Screens : \A st \in ScreenSteps \ {"save_error"} : MoveTo(q, st) => screen'[s] = screen[s]
  BY <1>1 DEF MoveTo, ScreenType
<1>5. ASSUME NEW q \in Screens, NEW t \in Tasks, StartScreen(q, t) PROVE screen'[s] = screen[s]
  BY <1>1, <1>5 DEF StartScreen, ScreenType
<1>6. ASSUME NEW q \in Screens, ReadKing(q) PROVE screen'[s] = screen[s]
  BY <1>1, <1>3, <1>6 DEF ReadKing, ScreenType
<1>7. ASSUME NEW q \in Screens, LockKing(q) \/ LockTask(q) PROVE screen'[s] = screen[s]
  <2>1. {"lock_task", "count", "write"} \subseteq ScreenSteps \ {"save_error"}
    BY DEF ScreenSteps, KingHeld
  <2> QED BY <1>3, <1>4, <1>7, <2>1 DEF LockKing, LockTask
<1>8. ASSUME NEW q \in Screens, CountQualified(q) PROVE screen'[s] = screen[s]
  BY <1>1, <1>8 DEF CountQualified, ScreenType
<1>9. ASSUME NEW q \in Screens, WriteDecision(q) PROVE screen'[s] = screen[s]
  <2>1. CASE EndScreen(q)
    BY <1>3, <2>1
  <2>2. CASE ~EndScreen(q)
    BY <1>1, <1>9, <2>2 DEF WriteDecision, ScreenType
  <2> QED BY <2>1, <2>2
<1>10. ASSUME NEW q \in Screens, DropSurplus(q) \/ SaveError(q) \/ CancelScreen(q) \/ AbortDeadlock(q) \/ ScreenFails(q)
       PROVE  screen'[s] = screen[s]
  BY <1>3, <1>10 DEF DropSurplus, SaveError, CancelScreen, AbortDeadlock, ScreenFails
<1>11. ASSUME NEW q \in Screens, LockError(q)
       PROVE  \/ screen'[s] = screen[s]
              \/ q = s /\ screen'[s].task = screen[s].task /\ due[screen[s].task]
  <2>1. CASE EndScreen(q)
    BY <1>3, <2>1
  <2>2. CASE ~EndScreen(q)
    BY <1>1, <1>11, <2>2 DEF LockError, MoveTo, ScreenType
  <2> QED BY <2>1, <2>2
<1>12. CASE UNCHANGED screen
  BY <1>12
<1> QED
  BY <1>5, <1>6, <1>7, <1>8, <1>9, <1>10, <1>11, <1>12
  DEF Next, Promote, InsertCandidate, FinishQualification, StartSolve, SolveRetryable, BackoffElapses, Screening,
      SaveDecision, vars

LEMMA NextDue == RowsAndLocks /\ DueInv /\ [Next]_vars => DueInv'
<1> SUFFICES ASSUME RowsAndLocks, DueInv, [Next]_vars, NEW s \in Screens, screen'[s].step = "save_error"
             PROVE  due'[screen'[s].task]
  BY DEF DueInv
<1>1. CASE screen'[s] = screen[s]
  <2>1. due[screen[s].task] /\ screen[s].task \in Tasks /\ screen[s].step \in TaskHeld
    BY <1>1 DEF DueInv, RowsAndLocks, HoldInv, Holds, TaskHeld
  <2>2. ASSUME ~due'[screen[s].task] PROVE FALSE
    <3>1. PICK r \in Screens : SaveError(r) /\ screen[r].task = screen[s].task
      BY <2>1, <2>2, DueFalls
    <3>2. screen'[r].step = "idle"
      BY <3>1 DEF SaveError, EndScreen, RowsAndLocks, PoolTypeOK, Idle
    <3>3. r # s /\ screen[r].step \in TaskHeld
      BY <3>1, <3>2 DEF SaveError, TaskHeld
    <3> QED BY <2>1, <3>1, <3>3 DEF RowsAndLocks, LockInv, Apart
  <2> QED BY <1>1, <2>2
<1>2. CASE LockError(s) /\ screen'[s].task = screen[s].task /\ due[screen[s].task]
  BY <1>2 DEF LockError, rows
<1> QED BY <1>1, <1>2, ComesToSaveError

\* However many screenings of a task fail at the same time, its failed runs grow by one in
\* a back-off window, which the run that counts begins, unless it drops the task (save_error).
THEOREM FailuresCountOnce == Spec => OneFailurePerWindow
<1> DEFINE Counts == \A t \in Tasks : failedRuns'[t] # failedRuns[t] =>
             /\ due[t]
             /\ failedRuns'[t] = failedRuns[t] + 1
             /\ ~due'[t] \/ task'[t] = "disqualified"
<1>1. RowsAndLocks /\ DueInv /\ [Next]_vars => [Counts]_rows
  <2> SUFFICES ASSUME RowsAndLocks, DueInv, [Next]_vars PROVE Counts
    OBVIOUS
  <2>1. ASSUME NEW s \in Screens, SaveError(s) PROVE Counts
    <3>1. PICK x \in Tasks : x = screen[s].task
      BY <2>1 DEF SaveError, RowsAndLocks, HoldInv, Holds
    <3>2. due[x]
      BY <2>1, <3>1 DEF SaveError, DueInv
    <3>3. failedRuns' = [failedRuns EXCEPT ![x] = failedRuns[x] + 1]
      BY <2>1, <3>1 DEF SaveError
    <3>4. task' = [task EXCEPT ![x] = "disqualified"] \/ due' = [due EXCEPT ![x] = FALSE]
      BY <2>1, <3>1 DEF SaveError
    <3>5. failedRuns \in [Tasks -> Nat] /\ DOMAIN task = Tasks /\ DOMAIN due = Tasks
      BY DEF RowsAndLocks, PoolTypeOK
    <3>6. \A t \in Tasks : failedRuns'[t] = IF t = x THEN failedRuns[x] + 1 ELSE failedRuns[t]
      BY <3>3, <3>5
    <3>7. ~due'[x] \/ task'[x] = "disqualified"
      BY <3>1, <3>4, <3>5
    <3> QED BY <3>2, <3>6, <3>7
  <2>2. CASE UNCHANGED failedRuns
    BY <2>2
  <2> HIDE DEF Counts
  <2> QED
    BY <2>1, <2>2
    DEF Next, Promote, InsertCandidate, FinishQualification, StartSolve, SolveRetryable, BackoffElapses, StartScreen,
        Screening, SaveDecision, ReadKing, LockKing, LockTask, CountQualified, WriteDecision, DropSurplus, LockError,
        CancelScreen, AbortDeadlock, ScreenFails, vars, rows
<1>2. Init => DueInv
  BY DEF Init, DueInv, Idle
<1>3. PoolInv => RowsAndLocks
  BY DEF PoolInv
<1> QED BY <1>1, <1>2, <1>3, NextDue, PoolInvariance, PTL DEF Spec, OneFailurePerWindow
=============================================================================
