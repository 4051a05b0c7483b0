------------------------------ MODULE TaskPool ------------------------------
(***************************************************************************)
(* The life of a task: inserted by the task generator, solved by the       *)
(* king's agent (task solver), screened (task screener) and admitted to    *)
(* its pool or dropped.  Solvers and screeners may be scaled, so nothing   *)
(* but PostgreSQL's row locks keeps two of them apart.                     *)
(*                                                                         *)
(* A statement of a screener's transaction is an action, and the last one  *)
(* commits what the transaction has written; row locks are held from the   *)
(* statement that takes them to the commit or the rollback.  The other     *)
(* transactions are single statements.                                     *)
(***************************************************************************)
EXTENDS Integers, FiniteSets

CONSTANTS
  Kings, Pools, Tasks,
  None,           \* no king, no task, no pool
  Screens,        \* concurrent screenings, of any number of screener processes
  Target,         \* Target[p]: TAU_POOL_*_TARGET
  MaxFailedRuns,  \* TAU_TASK_SCREEN_MAX_FAILED_RUNS
  MaxSolves,      \* solvers that may be solving the same task
  MaxFaults       \* bound on transactions rolled back by faults

ASSUME TaskPoolAssumption ==
  /\ IsFiniteSet(Tasks)
  /\ None \notin Kings \cup Tasks \cup Pools
  /\ Target \in [Pools -> Nat \ {0}]
  /\ MaxFailedRuns \in Nat \ {0}
  /\ MaxSolves \in Nat
  /\ MaxFaults \in Nat

VARIABLES
  king,        \* the reigning king: the latest row of kings
  reigned,     \* all rows of kings
  task,        \* tasks.status_id, "none" without a row
  owner,       \* tasks.king_id
  pool,        \* tasks.pool_type
  failedRuns,  \* task_screenings.failed_runs
  due,         \* task_screenings.next_retry_at is null or past
  solving,     \* solving[t]: qualification solves of t that are running
  screen,      \* what each screening is doing
  faults       \* rolled back transactions so far

rows == <<task, owner, pool, failedRuns, due>>
vars == <<king, reigned, rows, solving, screen, faults>>

TaskStatuses == {"none", "candidate", "pending_screen", "qualified", "disqualified"}

\* The statements at which a screening holds its king's row, and its task's.
KingHeld == {"lock_task", "count", "write", "drop_surplus"}
TaskHeld == {"count", "write", "drop_surplus", "save_error"}

Idle ==
  [step |-> "idle", task |-> None, verdict |-> "none", king |-> None,
   count |-> 0, cleared |-> {}]

QualifiedTasks(k, p) ==
  {t \in Tasks : task[t] = "qualified" /\ owner[t] = k /\ pool[t] = p}

\* Queued work of a pool: what _disqualify_surplus selects.
QueuedTasks(k, p) ==
  {t \in Tasks : task[t] \in {"candidate", "pending_screen"} /\ owner[t] = k /\ pool[t] = p}

Init ==
  /\ king \in Kings
  /\ reigned = {king}
  /\ task = [t \in Tasks |-> "none"]
  /\ owner = [t \in Tasks |-> None]
  /\ pool = [t \in Tasks |-> None]
  /\ failedRuns = [t \in Tasks |-> 0]
  /\ due = [t \in Tasks |-> TRUE]
  /\ solving = [t \in Tasks |-> 0]
  /\ screen = [s \in Screens |-> Idle]
  /\ faults = 0

-----------------------------------------------------------------------------
\* The resolver opens a challenge only over two full pools, so the king it may
\* crown finds them full.
Promote(k) ==
  /\ k \notin reigned
  /\ \A p \in Pools : Cardinality(QualifiedTasks(king, p)) >= Target[p]
  /\ king' = k
  /\ reigned' = reigned \cup {k}
  /\ UNCHANGED <<rows, solving, screen, faults>>

\* insert_task_candidate: the king was read when the work was requested and may
\* have been dethroned since.  The foreign key shares the king's row, so the
\* insertion waits for a screening that holds it.
InsertCandidate(t, k, p) ==
  /\ task[t] = "none"
  /\ k \in reigned
  /\ \A s \in Screens : ~(screen[s].step \in KingHeld /\ screen[s].king = k)
  /\ task' = [task EXCEPT ![t] = "candidate"]
  /\ owner' = [owner EXCEPT ![t] = k]
  /\ pool' = [pool EXCEPT ![t] = p]
  /\ UNCHANGED <<king, reigned, failedRuns, due, solving, screen, faults>>

\* _qualify starts on a candidate of the reigning king; each solver process takes
\* a task once, and other processes may be on it.
StartSolve(t) ==
  /\ solving[t] < MaxSolves
  /\ task[t] = "candidate"
  /\ owner[t] = king
  /\ solving' = [solving EXCEPT ![t] = @ + 1]
  /\ UNCHANGED <<king, reigned, rows, screen, faults>>

\* The solve hit an infrastructure fault: the task stays a candidate.
SolveRetryable(t) ==
  /\ solving[t] > 0
  /\ solving' = [solving EXCEPT ![t] = @ - 1]
  /\ UNCHANGED <<king, reigned, rows, screen, faults>>

\* No screening but s holds the row of task t.
TaskFree(s, t) ==
  \A r \in Screens \ {s} : ~(screen[r].step \in TaskHeld /\ screen[r].task = t)

\* Mutant of FinishQualification: the guard on CANDIDATE is dropped.
FinishQualificationUnguarded(t) ==
  /\ solving[t] > 0
  /\ solving' = [solving EXCEPT ![t] = @ - 1]
  /\ owner[t] = king
  /\ \E viable \in BOOLEAN :
       task' = [task EXCEPT ![t] = IF viable THEN "pending_screen" ELSE "disqualified"]
  /\ UNCHANGED <<king, reigned, owner, pool, failedRuns, due, screen, faults>>

\* finish_qualification: one guarded UPDATE, and the screening row with it.  It
\* needs no lock of a screening's: those are on pending tasks.
FinishQualification(t) ==
  /\ solving[t] > 0
  /\ solving' = [solving EXCEPT ![t] = @ - 1]
  /\ \/ /\ task[t] = "candidate"
        /\ owner[t] = king
        /\ task' = [task EXCEPT ![t] = "pending_screen"]
     \/ /\ task[t] = "candidate"
        /\ owner[t] = king
        /\ task' = [task EXCEPT ![t] = "disqualified"]
     \/ /\ task[t] # "candidate" \/ owner[t] # king
        /\ UNCHANGED task
  /\ UNCHANGED <<king, reigned, owner, pool, failedRuns, due, screen, faults>>

-----------------------------------------------------------------------------
\* Screening.

MoveTo(s, step) == screen' = [screen EXCEPT ![s].step = step]
EndScreen(s) == screen' = [screen EXCEPT ![s] = Idle]

\* _reconcile spawns a screening of a due pending task of the reigning king.
\* The language model's verdict is any; another process may screen the same task.
StartScreen(s, t) ==
  /\ screen[s] = Idle
  /\ task[t] = "pending_screen"
  /\ owner[t] = king
  /\ due[t]
  /\ \E verdict \in {"qualified", "disqualified", "error"} :
       screen' = [screen EXCEPT ![s].step = "read_king", ![s].task = t,
                                ![s].verdict = verdict]
  /\ UNCHANGED <<king, reigned, rows, solving, faults>>

\* The save begins with the latest row of kings.
ReadKing(s) ==
  /\ screen[s].step = "read_king"
  /\ \/ /\ screen[s].verdict # "error"
        /\ screen' = [screen EXCEPT ![s].step = "lock_king", ![s].king = king]
     \/ /\ screen[s].verdict = "error"
        /\ owner[screen[s].task] = king
        /\ screen' = [screen EXCEPT ![s].step = "lock_error", ![s].king = king]
     \/ /\ screen[s].verdict = "error"
        /\ owner[screen[s].task] # king
        /\ EndScreen(s)
  /\ UNCHANGED <<king, reigned, rows, solving, faults>>

\* Mutant of LockKing: SELECT without FOR UPDATE.
LockKingShared(s) ==
  /\ screen[s].step = "lock_king"
  /\ \/ /\ screen[s].king = owner[screen[s].task]
        /\ MoveTo(s, "lock_task")
     \/ /\ screen[s].king # owner[screen[s].task]
        /\ EndScreen(s)
  /\ UNCHANGED <<king, reigned, rows, solving, faults>>

\* FOR UPDATE waits for the row it has found; a promotion meanwhile adds a row
\* and does not disturb the wait.
LockKing(s) ==
  /\ screen[s].step = "lock_king"
  /\ \A r \in Screens \ {s} :
       ~(screen[r].step \in KingHeld /\ screen[r].king = screen[s].king)
  /\ \/ /\ screen[s].king = owner[screen[s].task]
        /\ MoveTo(s, "lock_task")
     \/ /\ screen[s].king # owner[screen[s].task]
        /\ EndScreen(s)
  /\ UNCHANGED <<king, reigned, rows, solving, faults>>

\* The task must still be pending when its row is locked.
LockTask(s) ==
  /\ screen[s].step = "lock_task"
  /\ TaskFree(s, screen[s].task)
  /\ \/ /\ task[screen[s].task] = "pending_screen"
        /\ MoveTo(s, IF screen[s].verdict = "qualified" THEN "count" ELSE "write")
     \/ /\ task[screen[s].task] # "pending_screen"
        /\ EndScreen(s)
  /\ UNCHANGED <<king, reigned, rows, solving, faults>>

CountQualified(s) ==
  /\ screen[s].step = "count"
  /\ LET t == screen[s].task IN
       screen' = [screen EXCEPT ![s].step = "write",
                    ![s].count = Cardinality(QualifiedTasks(owner[t], pool[t]))]
  /\ UNCHANGED <<king, reigned, rows, solving, faults>>

\* Mutant of FitsPool: off by one at the target.
FitsPoolLoosely(s) ==
  /\ screen[s].verdict = "qualified"
  /\ screen[s].count <= Target[pool[screen[s].task]]

\* The final outcome: a passing task that finds its pool full is dropped.
FitsPool(s) ==
  /\ screen[s].verdict = "qualified"
  /\ screen[s].count < Target[pool[screen[s].task]]

FinalStatus(s) == IF FitsPool(s) THEN "qualified" ELSE "disqualified"

\* The decision fills the pool or finds it full: the pool's queue is surplus.
ClosesPool(s) ==
  /\ screen[s].verdict = "qualified"
  /\ screen[s].count + 1 >= Target[pool[screen[s].task]]

\* save_decision writes its own rows; then it commits, or goes on to
\* _disqualify_surplus, whose first UPDATE locks the queue's screening rows.
WriteDecision(s) ==
  /\ screen[s].step = "write"
  /\ LET t == screen[s].task IN
     \/ /\ ~ClosesPool(s)
        /\ task' = [task EXCEPT ![t] = FinalStatus(s)]
        /\ due' = [due EXCEPT ![t] = TRUE]
        /\ EndScreen(s)
     \/ /\ ClosesPool(s)
        /\ screen' = [screen EXCEPT ![s].step = "drop_surplus",
             ![s].cleared = {u \in QueuedTasks(owner[t], pool[t]) \ {t} :
                               task[u] = "pending_screen"}]
        /\ UNCHANGED <<task, due>>
  /\ UNCHANGED <<king, reigned, owner, pool, failedRuns, solving, faults>>

\* The second UPDATE drops the tasks that are queued by now, and commits.
DropSurplus(s) ==
  /\ screen[s].step = "drop_surplus"
  /\ LET t == screen[s].task
         surplus == QueuedTasks(owner[t], pool[t]) \ {t} IN
     /\ \A u \in surplus : TaskFree(s, u)
     /\ task' = [u \in Tasks |-> IF u = t THEN FinalStatus(s)
                                 ELSE IF u \in surplus THEN "disqualified"
                                 ELSE task[u]]
     /\ due' = [u \in Tasks |-> due[u] \/ u = t \/ u \in screen[s].cleared]
  /\ EndScreen(s)
  /\ UNCHANGED <<king, reigned, owner, pool, failedRuns, solving, faults>>

\* Mutant of LockError: the back-off is not looked at.
LockErrorNotDue(s) ==
  /\ screen[s].step = "lock_error"
  /\ TaskFree(s, screen[s].task)
  /\ \/ /\ task[screen[s].task] = "pending_screen"
        /\ MoveTo(s, "save_error")
     \/ /\ task[screen[s].task] # "pending_screen"
        /\ EndScreen(s)
  /\ UNCHANGED <<king, reigned, rows, solving, faults>>

\* _lock_pending_task: the task must still be pending and due.  FOR UPDATE of the
\* join takes the task's row here, and then the screening row.
LockError(s) ==
  /\ screen[s].step = "lock_error"
  /\ TaskFree(s, screen[s].task)
  /\ \/ /\ task[screen[s].task] = "pending_screen"
        /\ due[screen[s].task]
        /\ MoveTo(s, "save_error")
     \/ /\ task[screen[s].task] # "pending_screen" \/ ~due[screen[s].task]
        /\ EndScreen(s)
  /\ UNCHANGED <<king, reigned, rows, solving, faults>>

\* Mutant of SaveError: no limit on failed runs.
SaveErrorForever(s) ==
  /\ screen[s].step = "save_error"
  /\ LET t == screen[s].task IN
     /\ \A r \in Screens \ {s} : t \notin screen[r].cleared
     /\ due' = [due EXCEPT ![t] = FALSE]
  /\ EndScreen(s)
  /\ UNCHANGED <<king, reigned, task, owner, pool, failedRuns, solving, faults>>

\* save_error: with the screening row, which another screening's surplus may hold,
\* count the failed run; back off, or drop the task at the limit.
SaveError(s) ==
  /\ screen[s].step = "save_error"
  /\ LET t == screen[s].task
         runs == failedRuns[t] + 1 IN
     /\ \A r \in Screens \ {s} : t \notin screen[r].cleared
     /\ failedRuns' = [failedRuns EXCEPT ![t] = runs]
     /\ \/ /\ runs >= MaxFailedRuns
           /\ task' = [task EXCEPT ![t] = "disqualified"]
           /\ UNCHANGED due
        \/ /\ runs < MaxFailedRuns
           /\ due' = [due EXCEPT ![t] = FALSE]
           /\ UNCHANGED task
  /\ EndScreen(s)
  /\ UNCHANGED <<king, reigned, owner, pool, solving, faults>>

BackoffElapses(t) ==
  /\ ~due[t]
  /\ due' = [due EXCEPT ![t] = TRUE]
  /\ UNCHANGED <<king, reigned, task, owner, pool, failedRuns, solving, screen, faults>>

\* _reconcile cancels a screening whose task is no longer a due pending one of the
\* reigning king, at whatever statement it is.
CancelScreen(s) ==
  /\ screen[s].step # "idle"
  /\ \/ task[screen[s].task] # "pending_screen"
     \/ owner[screen[s].task] # king
     \/ ~due[screen[s].task]
  /\ EndScreen(s)
  /\ UNCHANGED <<king, reigned, rows, solving, faults>>

\* s drops a surplus whose task r has locked, and r waits for the screening row
\* that s has locked: PostgreSQL rolls one of them back.
Deadlocked(s, r) ==
  /\ screen[s].step = "drop_surplus"
  /\ screen[r].step = "save_error"
  /\ screen[r].task \in screen[s].cleared

AbortDeadlock(s) ==
  /\ \E r \in Screens : Deadlocked(s, r) \/ Deadlocked(r, s)
  /\ EndScreen(s)
  /\ UNCHANGED <<king, reigned, rows, solving, faults>>

\* A crash, a lost connection or a lock timeout rolls a screening back.
ScreenFails(s) ==
  /\ screen[s].step # "idle"
  /\ faults < MaxFaults
  /\ faults' = faults + 1
  /\ EndScreen(s)
  /\ UNCHANGED <<king, reigned, rows, solving>>

-----------------------------------------------------------------------------
SaveDecision(s) ==
  LockKing(s) \/ LockTask(s) \/ CountQualified(s) \/ WriteDecision(s) \/ DropSurplus(s)

Screening(s) == ReadKing(s) \/ SaveDecision(s) \/ LockError(s) \/ SaveError(s)

Next ==
  \/ \E k \in Kings : Promote(k)
  \/ \E t \in Tasks, k \in Kings, p \in Pools : InsertCandidate(t, k, p)
  \/ \E t \in Tasks :
       StartSolve(t) \/ SolveRetryable(t) \/ FinishQualification(t) \/ BackoffElapses(t)
  \/ \E s \in Screens, t \in Tasks : StartScreen(s, t)
  \/ \E s \in Screens :
       Screening(s) \/ CancelScreen(s) \/ AbortDeadlock(s) \/ ScreenFails(s)

Spec == Init /\ [][Next]_vars
-----------------------------------------------------------------------------
(* Properties *)

ScreenSteps ==
  {"idle", "read_king", "lock_king", "lock_error"} \cup KingHeld \cup TaskHeld

ScreenType ==
  [step : ScreenSteps, task : Tasks \cup {None},
   verdict : {"none", "qualified", "disqualified", "error"},
   king : Kings \cup {None}, count : Nat, cleared : SUBSET Tasks]

\* Every column and every screening holds values of its type.
PoolTypeOK ==
  /\ king \in Kings
  /\ reigned \subseteq Kings
  /\ task \in [Tasks -> TaskStatuses]
  /\ owner \in [Tasks -> Kings \cup {None}]
  /\ pool \in [Tasks -> Pools \cup {None}]
  /\ failedRuns \in [Tasks -> Nat]
  /\ due \in [Tasks -> BOOLEAN]
  /\ solving \in [Tasks -> Nat]
  /\ screen \in [Screens -> ScreenType]
  /\ faults \in Nat

\* However many screenings pass at the same moment, a pool never holds more
\* qualified tasks than its target: the king's row serialises their counts.
NoOverfill ==
  \A k \in Kings, p \in Pools : Cardinality(QualifiedTasks(k, p)) <= Target[p]

\* What concurrent screenings never break (save_decision).
PoolInvariant == PoolTypeOK /\ NoOverfill

\* A verdict on a task is final: no late solve, late score, failed run or surplus
\* takes an admitted task away from a pool or brings a dropped one back, and a
\* row never leaves its king and pool.
VerdictsAreFinal ==
  [][\A t \in Tasks :
       /\ task[t] \in {"qualified", "disqualified"} => task'[t] = task[t]
       /\ task[t] # "none" => owner'[t] = owner[t] /\ pool'[t] = pool[t]]_rows

\* Concurrent failures of one task count once per back-off window.
OneFailurePerWindow ==
  [][\A t \in Tasks : failedRuns'[t] # failedRuns[t] =>
       /\ due[t]
       /\ failedRuns'[t] = failedRuns[t] + 1
       /\ ~due'[t] \/ task'[t] = "disqualified"]_rows

Admission == INSTANCE PoolAdmission WITH
  admitted <- [k \in Kings |-> [p \in Pools |-> QualifiedTasks(k, p)]]

\* The workers implement the admission the duel relies on; in particular a late
\* score cannot change the pools of a past king.
AdmissionSpec == Admission!Spec

\* Liveness.  A solve is not interrupted by infrastructure faults for ever; due
\* tasks are screened oldest first; a screening proceeds; and when PostgreSQL
\* breaks a deadlock, a waiting statement is granted its lock now and then.
PoolFairness ==
  /\ \A t \in Tasks :
       /\ WF_vars(StartSolve(t))
       /\ SF_vars(FinishQualification(t))
       /\ WF_vars(BackoffElapses(t))
       /\ SF_vars(\E s \in Screens : StartScreen(s, t))
  /\ \A s \in Screens : WF_vars(Screening(s))
  /\ SF_vars(\E s \in Screens : DropSurplus(s) \/ SaveError(s))
  /\ WF_vars(\E s \in Screens : AbortDeadlock(s))

FairPoolSpec == Spec /\ PoolFairness

\* No task of a reigning king stays queued for ever: not when its screenings
\* keep failing, and not through a deadlock between a surplus and a failed run.
EveryTaskSettles ==
  \A t \in Tasks :
    task[t] \in {"candidate", "pending_screen"} ~>
      task[t] \in {"qualified", "disqualified"} \/ owner[t] # king
=============================================================================
