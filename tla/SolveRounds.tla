---------------------------- MODULE SolveRounds ----------------------------
(***************************************************************************)
(* How a round is produced: the task solver's scheduler fills its sandbox  *)
(* slots with duel solves first and qualification solves after them, and   *)
(* the judge's reconcile loop turns each solved pair into one verdict.     *)
(* Solves run in threads, so a poll's two queries interleave with their    *)
(* completions; the judge is one event loop, and its query is an await.    *)
(***************************************************************************)
EXTENDS Integers, FiniteSets, Sequences, Functions, Lists

CONSTANTS
  Tasks,            \* tasks of the founding king, numbered by created_at
  Challengers,      \* challenger submissions, numbered by id
  Founder,          \* the king who reigns at first
  PoolOf,           \* tasks.pool_type, 1 or 2
  KingFirst,        \* the <<task, challenger>> pairs whose hash puts the king first
  FullPool,         \* QUALIFIED tasks a pool needs, 0: TAU_SOLVER_REQUIRE_FULL_POOL_FOR_DUELS off
  MaxContainers,    \* MAX_CONTAINERS
  Concurrency,      \* TAU_JUDGE_CONCURRENCY
  Verdicts          \* what judge_with_fallback answers, the neutral tie included

ASSUME SolveRoundsAssumption ==
  /\ Tasks \subseteq Nat /\ IsFiniteSet(Tasks)
  /\ Challengers \subseteq Nat /\ IsFiniteSet(Challengers)
  /\ Founder \in Nat \ Challengers
  /\ PoolOf \in [Tasks -> {1, 2}]
  /\ "none" \notin Verdicts
  /\ FullPool \in [{1, 2} -> Nat]
  /\ MaxContainers \in Nat \ {0} /\ Concurrency \in Nat \ {0}

VARIABLES
  king,        \* the reigning king
  challenge,   \* challenges.status of each challenger, or Absent
  status,      \* tasks.status_id
  solutions,   \* duel_task_solutions: the keys of the duel jobs that saved one
  verdict,     \* judgements of each <<task, challenger>>, or "none"
  running,     \* the scheduler's futures still at work
  done,        \* its futures that are done and not reaped
  cooldown,    \* keys excluded for one poll interval
  poll,        \* the duel jobs this poll has gathered, or Idle
  judging,     \* the judge's in-flight pairs: "judging" or "cancelled"
  pending      \* the pairs the reconcile tick has read, or NotRead

database == <<king, challenge, status, solutions, verdict>>
scheduler == <<running, done, cooldown, poll>>
judge == <<judging, pending>>
vars == <<database, scheduler, judge>>

Pairs == Tasks \X Challengers

Absent == -1   \* the challenge is not inserted yet
Closed == 0
Active == {1, 2}

\* A JobKey: phase, task, submission to run, challenger (the founder where a
\* qualification job has none).
SideJob(t, s, c) == <<"duel", t, s, c>>
Sides(c) == {Founder, c}
QualificationJob(t) == <<"qualification", t, Founder, Founder>>
DuelJobs == {SideJob(p[1], s, p[2]) : p \in Pairs, s \in Challengers \cup {Founder}}
JobKeys == DuelJobs \cup {QualificationJob(t) : t \in Tasks}

Idle == [step |-> "idle", slots |-> 0, jobs |-> <<>>]
NotRead == [read |-> FALSE, pairs |-> {}]

Init ==
  /\ king = Founder
  /\ challenge = [c \in Challengers |-> Absent]
  /\ status = [t \in Tasks |-> "candidate"]
  /\ solutions = {}
  /\ verdict = [p \in Pairs |-> "none"]
  /\ running = {} /\ done = {} /\ cooldown = {} /\ poll = Idle
  /\ judging = [p \in Pairs |-> "no"] /\ pending = NotRead

-----------------------------------------------------------------------------
\* The database's other writers.

Screened(t) ==
  /\ status[t] = "pending_screen"
  /\ \E s \in {"qualified", "disqualified"} : status' = [status EXCEPT ![t] = s]
  /\ UNCHANGED <<king, challenge, solutions, verdict, scheduler, judge>>

InPool(c, t) == challenge[c] = PoolOf[t]

\* The resolver opens a challenge, advances it to the second pool, or closes
\* it: lost, its challenger deregistered, or won in the second pool.
ResolverMoves(c) ==
  /\ \/ /\ challenge[c] = Absent /\ king = Founder
        /\ \A d \in Challengers : challenge[d] \notin Active
        /\ challenge' = [challenge EXCEPT ![c] = 1]
        /\ king' = king
     \/ /\ challenge[c] = 1
        /\ \E t \in Tasks : InPool(c, t) /\ verdict[<<t, c>>] # "none"
        /\ challenge' = [challenge EXCEPT ![c] = 2]
        /\ king' = king
     \/ /\ challenge[c] \in Active
        /\ challenge' = [challenge EXCEPT ![c] = Closed]
        /\ king' = king
     \/ /\ challenge[c] = 2
        /\ \E t \in Tasks : InPool(c, t) /\ verdict[<<t, c>>] # "none"
        /\ challenge' = [challenge EXCEPT ![c] = Closed]
        /\ king' = c
  /\ UNCHANGED <<status, solutions, verdict, scheduler, judge>>

-----------------------------------------------------------------------------
\* The solver's queries.

Solved(t, s, c) == SideJob(t, s, c) \in solutions
PairSolved(t, c) == Solved(t, Founder, c) /\ Solved(t, c, c)
PoolIsFull(n) == Cardinality({t \in Tasks : PoolOf[t] = n /\ status[t] = "qualified"}) >= FullPool[n]

\* Rounds of active challenges that miss a side's solution.
OpenRounds ==
  {p \in Pairs : /\ challenge[p[2]] \in Active /\ InPool(p[2], p[1])
                 /\ status[p[1]] = "qualified"
                 /\ PoolIsFull(challenge[p[2]])
                 /\ ~PairSolved(p[1], p[2])}

FirstOf(n, seq) == SubSeq(seq, 1, IF n < Len(seq) THEN n ELSE Len(seq))

\* The order of the rounds: by task, then by challenger.
Earlier == {pq \in Pairs \X Pairs :
              pq[1][1] < pq[2][1] \/ (pq[1][1] = pq[2][1] /\ pq[1][2] < pq[2][2])}

\* The order of the backlog: by pool, then by task.
Before == {tu \in Tasks \X Tasks :
             PoolOf[tu[1]] < PoolOf[tu[2]] \/ (PoolOf[tu[1]] = PoolOf[tu[2]] /\ tu[1] < tu[2])}

SideOrder(p) ==
  IF p \in KingFirst THEN <<SideJob(p[1], Founder, p[2]), SideJob(p[1], p[2], p[2])>>
                     ELSE <<SideJob(p[1], p[2], p[2]), SideJob(p[1], Founder, p[2])>>

\* Mutant of AddRound: a round that would fill the last place is left out.
AddRoundStrict(limit, jobs, p) ==
  LET missing == Without(SideOrder(p), solutions) IN
  IF Len(jobs) + Len(missing) >= limit THEN jobs ELSE jobs \o missing

\* A round that misses both sides takes two places or none.
AddRound(limit, jobs, p) ==
  LET missing == Without(SideOrder(p), solutions) IN
  IF Len(jobs) + Len(missing) > limit THEN jobs ELSE jobs \o missing

NextDuelJobs(limit) ==
  LET rows == FirstOf(2 * limit, InOrder(OpenRounds, Earlier))
      filled[i \in 0 .. Len(rows)] ==
        IF i = 0 THEN <<>> ELSE AddRound(limit, filled[i - 1], rows[i])
  IN filled[Len(rows)]

NextQualificationJobs(limit) ==
  LET candidates == IF king = Founder THEN {t \in Tasks : status[t] = "candidate"} ELSE {}
      ordered == FirstOf(limit, InOrder(candidates, Before))
  IN [i \in 1 .. Len(ordered) |-> QualificationJob(ordered[i])]

-----------------------------------------------------------------------------
\* The scheduler.

Excluded == running \cup done \cup cooldown
Room(n, phase) == n + Cardinality({j \in Excluded : j[1] = phase})
Fresh(jobs) == Without(jobs, Excluded)

\* Mutant of GatherDuels: the query makes no room for the excluded jobs.
GatherDuelsNoRoom(slots) == FirstOf(slots, Fresh(NextDuelJobs(slots)))

\* Mutant of GatherDuels: jobs in flight or cooling down are gathered again.
GatherDuelsTwice(slots) == FirstOf(slots, NextDuelJobs(Room(slots, "duel")))

GatherDuels(slots) == FirstOf(slots, Fresh(NextDuelJobs(Room(slots, "duel"))))

FreeSlots == MaxContainers - Cardinality(running)

\* A pass of the loop reaps the done futures, whose keys cool down, and makes
\* the first query when a slot is free.
PollDuels ==
  /\ poll = Idle
  /\ cooldown' = cooldown \cup done
  /\ done' = {}
  /\ FreeSlots > 0
  /\ poll' = [step |-> "gathered", slots |-> FreeSlots, jobs |-> GatherDuels(FreeSlots)]
  /\ UNCHANGED <<database, running, judge>>

GatherQualifications ==
  LET left == poll.slots - Len(poll.jobs) IN
  IF left = 0 THEN <<>>
  ELSE FirstOf(left, Fresh(NextQualificationJobs(Room(left, "qualification"))))

\* The second query, and the launch of what both gathered.
PollQualifications ==
  /\ poll # Idle
  /\ running' = running \cup Range(poll.jobs) \cup Range(GatherQualifications)
  /\ poll' = Idle
  /\ UNCHANGED <<database, done, cooldown, judge>>

\* A query raises: the poll launches nothing.
PollFails ==
  /\ poll # Idle
  /\ poll' = Idle
  /\ UNCHANGED <<database, running, done, cooldown, judge>>

\* The poll interval of a reaped key is over.
Cooled(j) ==
  /\ j \in cooldown
  /\ cooldown' = cooldown \ {j}
  /\ UNCHANGED <<database, running, done, poll, judge>>

Ends(j) == running' = running \ {j} /\ done' = done \cup {j}

\* A duel solve that ends on a terminal reason is saved, whatever became of its
\* challenge.
DuelSolveSaved(j) ==
  /\ j \in running /\ j[1] = "duel"
  /\ solutions' = solutions \cup {j}
  /\ Ends(j)
  /\ UNCHANGED <<king, challenge, status, verdict, cooldown, poll, judge>>

\* The king's solve is viable or not; a repository that cannot be cloned
\* disqualifies the task.  Only a CANDIDATE of the reigning king moves.
QualificationSaved(j) ==
  /\ j \in running /\ j[1] = "qualification"
  /\ \E verdictOfSolve \in {"pending_screen", "disqualified"} :
       status' = IF king = j[3] /\ status[j[2]] = "candidate"
                 THEN [status EXCEPT ![j[2]] = verdictOfSolve] ELSE status
  /\ Ends(j)
  /\ UNCHANGED <<king, challenge, solutions, verdict, cooldown, poll, judge>>

\* An upstream or sandbox fault, a missing bundle, a clone that fails under a
\* duel solve or a failed write: nothing is persisted.
SolveDropped(j) ==
  /\ j \in running
  /\ Ends(j)
  /\ UNCHANGED <<database, cooldown, poll, judge>>

SolverRestarts ==
  /\ running' = {} /\ done' = {} /\ cooldown' = {} /\ poll' = Idle
  /\ UNCHANGED <<database, judge>>

-----------------------------------------------------------------------------
\* The judge.

InJudge == {p \in Pairs : judging[p] # "no"}

\* Mutant of Judgeable: one side's solution is enough.
JudgeableHalf ==
  {p \in Pairs : /\ king = Founder
                 /\ status[p[1]] = "qualified" /\ InPool(p[2], p[1])
                 /\ Solved(p[1], Founder, p[2])
                 /\ verdict[p] = "none"}

Judgeable ==
  {p \in Pairs : /\ king = Founder
                 /\ status[p[1]] = "qualified" /\ InPool(p[2], p[1])
                 /\ PairSolved(p[1], p[2])
                 /\ verdict[p] = "none"}

ReadPending ==
  /\ ~pending.read
  /\ pending' = [read |-> TRUE, pairs |-> Judgeable]
  /\ UNCHANGED <<database, scheduler, judging>>

Startable(n) == FirstOf(Concurrency - Cardinality(InJudge), n)

\* The obsolete judgments are cancelled and leave when their callback runs;
\* pending pairs start, the oldest task first, up to the concurrency.
Reconcile ==
  LET wanted == InOrder(pending.pairs \ InJudge, Earlier)
      starts == Range(Startable(wanted)) IN
  /\ pending.read
  /\ judging' = [p \in Pairs |->
                   IF p \in starts THEN "judging"
                   ELSE IF p \in InJudge \ pending.pairs THEN "cancelled"
                   ELSE judging[p]]
  /\ pending' = NotRead
  /\ UNCHANGED <<database, scheduler>>

Saved(p, v) == verdict' = [verdict EXCEPT ![p] = IF @ = "none" THEN v ELSE @]

\* judge_with_fallback always answers, at worst with the neutral tie.
JudgmentSaved(p) ==
  /\ judging[p] = "judging"
  /\ \E v \in Verdicts : Saved(p, v)
  /\ judging' = [judging EXCEPT ![p] = "no"]
  /\ UNCHANGED <<king, challenge, status, solutions, scheduler, pending>>

\* The insert raises.
JudgmentFails(p) ==
  /\ judging[p] = "judging"
  /\ judging' = [judging EXCEPT ![p] = "no"]
  /\ UNCHANGED <<database, scheduler, pending>>

\* The done callback of a cancelled judgment; the cancellation may have come
\* after its insert reached the server.
JudgmentCancelled(p) ==
  /\ judging[p] = "cancelled"
  /\ \/ verdict' = verdict
     \/ \E v \in Verdicts : Saved(p, v)
  /\ judging' = [judging EXCEPT ![p] = "no"]
  /\ UNCHANGED <<king, challenge, status, solutions, scheduler, pending>>

JudgeRestarts ==
  /\ judging' = [p \in Pairs |-> "no"] /\ pending' = NotRead
  /\ UNCHANGED <<database, scheduler>>

-----------------------------------------------------------------------------
Solve(j) == DuelSolveSaved(j) \/ QualificationSaved(j) \/ SolveDropped(j)
Judgment(p) == JudgmentSaved(p) \/ JudgmentFails(p) \/ JudgmentCancelled(p)

Next ==
  \/ \E t \in Tasks : Screened(t)
  \/ \E c \in Challengers : ResolverMoves(c)
  \/ PollDuels \/ PollQualifications \/ PollFails \/ SolverRestarts
  \/ \E j \in JobKeys : Cooled(j) \/ Solve(j)
  \/ ReadPending \/ Reconcile \/ JudgeRestarts
  \/ \E p \in Pairs : Judgment(p)

Spec == Init /\ [][Next]_vars

\* What any poll may have gathered: that a poll begins is what fairness asks,
\* which jobs it gathers is Next's.
Gathered == UNION {[1 .. n -> JobKeys] : n \in 0 .. MaxContainers}

\* The threads and the event loop run on.  Queries do not fail, and solves,
\* judgments and saves are not dropped, for ever: strong fairness.
PollBegins ==
  /\ poll = Idle /\ FreeSlots > 0
  /\ poll' \in [step : {"gathered"}, slots : {FreeSlots}, jobs : Gathered]

Fairness ==
  /\ WF_poll(PollBegins) /\ SF_vars(PollQualifications)
  /\ WF_vars(\E j \in cooldown : Cooled(j))
  /\ SF_vars(\E j \in running : DuelSolveSaved(j) \/ QualificationSaved(j))
  /\ WF_vars(ReadPending) /\ SF_vars(Reconcile)
  /\ SF_vars(\E p \in Pairs : JudgmentSaved(p))
  /\ WF_vars(\E p \in Pairs : JudgmentCancelled(p))

FairSpec == Spec /\ Fairness

-----------------------------------------------------------------------------
TypeOK ==
  /\ king \in Challengers \cup {Founder}
  /\ challenge \in [Challengers -> {Absent, Closed} \cup Active]
  /\ status \in [Tasks -> {"candidate", "pending_screen", "qualified", "disqualified"}]
  /\ solutions \subseteq DuelJobs
  /\ verdict \in [Pairs -> Verdicts \cup {"none"}]
  /\ running \subseteq JobKeys /\ done \subseteq JobKeys /\ cooldown \subseteq JobKeys
  /\ poll.step \in {"idle", "gathered"} /\ poll.slots \in 0 .. MaxContainers /\ Range(poll.jobs) \subseteq JobKeys
  /\ judging \in [Pairs -> {"no", "judging", "cancelled"}]
  /\ pending.read \in BOOLEAN /\ pending.pairs \subseteq Pairs

\* Whatever the queries return next to jobs in flight and cooling down, the
\* scheduler never has more sandboxes at work, or about to be, than MAX_CONTAINERS
\* (loop.run and _pending_work).
SlotsRespected == Cardinality(running) + Len(poll.jobs) <= MaxContainers

\* The judge has no more judgments in flight than its concurrency, cancelled
\* ones that have not left included (_reconcile and _on_judgment_done).
JudgeWithinConcurrency == Cardinality(InJudge) <= Concurrency

\* A verdict rests on both sides' solves of that very challenge, however late
\* the solves and the judgment end (pending_judge_requests, save_judgment).
VerdictsRestOnPairs == \A p \in Pairs : verdict[p] # "none" => PairSolved(p[1], p[2])

\* What is on record stands: a solve is never launched for a side whose solution is
\* saved already, although the two queries, the threads and the judge interleave
\* (_pending_work's exclusions), and the first verdict of a round stays, although a
\* tick that read the pending pairs before a save starts a second judgment of it
\* (save_judgment).  RoundsSpec below says as much of the solves taken up.
RecordsStand ==
  [][/\ \A j \in running' \ running : j \notin solutions
     /\ \A p \in Pairs : verdict[p] # "none" => verdict'[p] = verdict[p]]_vars

\* The rounds a poll could serve: a side missing, not in flight, not cooling down.
WaitingSides ==
  {j \in DuelJobs : /\ <<j[2], j[4]>> \in OpenRounds /\ j[3] \in Sides(j[4])
                    /\ j \notin solutions /\ j \notin Excluded}

\* Duel solves go first: a poll leaves at most one of its slots to the
\* qualification backlog while a duel solve waits, and that one only because a
\* round takes two places (_pending_work's query limits, next_duel_jobs).
DuelsFirstButOneSlot ==
  [][PollDuels => \/ Len(poll'.jobs) >= FreeSlots - 1
                  \/ Len(poll'.jobs) >= Cardinality(WaitingSides)]_vars

\* A challenger in a full pool has all the pool's rounds judged at some time, or its
\* challenge moves on, although solves are dropped and retried, workers restart and
\* candidates compete for the slots.
RoundsAreJudged ==
  \A c \in Challengers, n \in Active :
    challenge[c] = n /\ PoolIsFull(n)
      ~> \/ challenge[c] # n
         \/ \A t \in Tasks : InPool(c, t) /\ status[t] = "qualified" => verdict[<<t, c>>] # "none"

-----------------------------------------------------------------------------
\* What all this adds up to for the resolver: the rounds of DuelRounds.  A solve is
\* taken up when a poll gathers it and at work until its thread ends.
Underway == (running \cup Range(poll.jobs)) \cap DuelJobs

Qualified == {t \in Tasks : status[t] = "qualified"}

SidesOfRounds == [p \in Pairs |-> {SideJob(p[1], s, p[2]) : s \in Sides(p[2])}]

Promise == INSTANCE DuelRounds WITH
             qualified <- Qualified, underway <- Underway, solved <- solutions,
             SidesOf <- SidesOfRounds

\* Solver and judge keep the promise of DuelRounds: polls that are cut short, threads
\* that end between two queries, restarts, judgments of pairs read before a save and
\* judgments cancelled after theirs show as solves taken up once at a time and as one
\* verdict after both solves (run, _pending_work, _reconcile, save_judgment).
RoundsSpec == Promise!Spec

\* No sandbox works on a pool-two round, and none is saved or judged, before the
\* challenger has a verdict in pool one, however late the solves of an earlier
\* challenge end (next_duel_jobs, pending_judge_requests).
PoolTwoWaits == Promise!PoolTwoWaits

\* A crown that was won rests on a verdict in each pool, and each of those on the
\* solves of both sides (promote, pending_judge_requests).
CrownRestsOnRounds == Promise!CrownRestsOnRounds

\* What polls, solves, judgments, restarts and the resolver's moves in any order never
\* break: the limits, verdicts on pairs and the two above (_pending_work, _reconcile,
\* pending_judge_requests).
RoundsInvariant ==
  /\ TypeOK /\ SlotsRespected /\ JudgeWithinConcurrency /\ VerdictsRestOnPairs
  /\ PoolTwoWaits /\ CrownRestsOnRounds
=============================================================================
