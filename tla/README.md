# Verification of the τ validator (king-of-the-hill duels)

TLA+ models of the validator in `src/src/tau`, TLC runs over small instances and
TLAPS proofs for every instance. Paths below are relative to the repository.

- [1 The system](#1-the-system)
- [2 The modules](#2-the-modules)
- [3 The runs](#3-the-runs)
- [4 The proofs](#4-the-proofs)
- [5 Disagreements with the documentation](#5-disagreements-with-the-documentation)
- [6 What is not modelled](#6-what-is-not-modelled)
- [7 Plan](#7-plan)

## 1 The system

Independent poll loops share one PostgreSQL database and never call each other.
Every worker re-derives what is due from the tables at each tick, so a worker's
own memory is only what it has in flight. Sessions run at READ COMMITTED: two
SELECTs of one transaction may see different states, a guarded
`UPDATE ... WHERE status = observed` is the unit of atomicity.

| component | state it keeps | operations | interacts through | what makes it correct |
|---|---|---|---|---|
| chain watcher (`workers/chain_watcher.py`, `bittensor/`, `db/database.py`) | `registrations`, a history of uid to hotkey/coldkey | append a row for each changed uid | read by the duel resolver (is the challenger still registered?) and by the weight setter | the latest row of a uid is the pair it was registered with; no registration is lost |
| submission qualification (`workers/qualification/loop.py`, `qualification/`, `db/qualification.py`) | `submissions.status_id`, `submission_qualifications` | pick the oldest due submission, review it, save the verdict or an error with back-off | feeds `ELIGIBLE` submissions to the resolver | one final verdict per submission; none waits for ever but behind one that cannot be loaded |
| task generator (`workers/task_generator/`, `db/generator.py`, `github/`, `taskgen/`) | work queue in memory, `tasks` rows `CANDIDATE` | compute pool deficits, fetch a commit, describe it, insert a task | reads the reigning king and pool counts; feeds the solver | slots in flight match the work; one task per commit |
| task solver (`workers/task_solver/loop.py`, `db/solver.py`, `sandbox/`, `proxy/`) | futures in flight, cooldowns, `duel_task_solutions` | qualify a candidate with the king's agent; run both sides of a duel round | feeds the screener and the judge | duel work first, one run per job, infrastructure faults never count |
| task screener (`workers/task_screener/`, `db/task_screening.py`) | LLM calls in flight, `task_screenings`, `tasks.status_id` | score a pending task, admit or drop it, drop the surplus of a full pool | decides when both pools are ready for a duel | a pool holds exactly its target; verdicts are final |
| judge (`workers/judge/`, `judging/`, `db/judge.py`) | LLM calls in flight, `judgements` | judge a round both sides have solved | the tally the resolver counts | one judgement per round and challenge, blind to the sides |
| duel resolver (`workers/duel_resolver/`, `duel/`, `db/duel_resolver.py`, `github/promotion.py`) | pause flag in memory; `kings`, `challenges`, `duel_resolutions` | open, advance, close and promote; publish a promoted king | reads everything above | section 2 |
| weight setter (`workers/weight_setter/`, `weights/`) | last epoch in memory | split the emission over the recent kings once per epoch | reads `kings`, `registrations` | weights sum to one and name registered uids |
| proxy, sandbox, repo cache (`proxy/`, `sandbox/`) | the budget of one solve, containers, cached clones | meter LLM requests, stop a run, share clones | used by the solver | no run outlives its budget; a clone in use is not evicted |
| dashboard, telemetry, utilities | none | read only, logging, environment parsing | | |

Hard behaviours, each listed at its line under `hazards` in `PROJECT.json`:
snapshots of several statements under concurrent writers; writes decided on
what an earlier statement read; results that arrive after what they were for
is over; a crash between an external effect and the commit that records it;
row locks that serialise two workers only while the king stays the same;
arithmetic of early verdicts; flags that live only in memory.

## 2 The modules

| module | models | state |
|---|---|---|
| `DuelRules` | the pure rules: `duel/predicates.py`, `duel/decide.py`, `Tally.judged`, `ActiveChallenge.remaining` | none |
| `DuelResolver` | the duel-resolver worker over the database | below |
| `KingOfTheHill` | what the worker promises: one king, one duel at a time, a submission duels once | `king`, `duel`, `spent` |
| `TaskPool` | the life of a task: inserted, solved, screened, admitted or dropped | below |
| `PoolAdmission` | what the pools promise the duel: one place at a time up to the target, for the reigning king only | `king`, `reigned`, `admitted` |
| `WorkQueue` | the task generator: controller, fetcher and describers over the work queue | below |
| `SolveRounds` | how a round is produced: the task solver's scheduler and the judge's reconcile loop over one database | below |
| `DuelRounds` | what solver and judge promise the resolver: solves taken up once at a time while a round is open, one verdict after both | `king`, `challenge`, `qualified`, `underway`, `solved`, `verdict` |
| `SolveRun` | one run in the sandbox: runner, container, watchdog and the proxy's handler threads | below |
| `RepoCache` | the host's cache of repositories, shared by the solver's threads | below |
| `UpstreamRouter` | the proxy's smart router over upstream endpoints | below |
| `Intake` | chain watcher, registrations and the qualification queue | below |
| `CommitSource` | the generator's sampler of commits and its rotation of tokens | below |
| `LlmCalls` | routes, attempts, time limits and answers of the judge's and the screener's calls | below |
| `WeightSetter` | the weight setter over blocks, registrations and kings | below |
| `Promotion` | the publication of a winner to the promotion branch, call by call | below |
| `MCDuelResolver`, `MCTaskPool`, `MCWorkQueue`, `MCSolveRounds` | instances of one module | none |
| `MCHost` | instances of `RepoCache`, `SolveRun`, `Intake` and `CommitSource` | `part`, the one that runs |
| `MCServices` | instances of `SolveRun`, `UpstreamRouter`, `WeightSetter`, `Promotion` and `LlmCalls` | `part` |
| `Lists` | ordering a set and filtering a sequence, for `SolveRounds`, `UpstreamRouter` and `WeightSetter` | none |
| `CountingLemmas` | lemmas on counts, sums and the operators of `Lists` | none |
| `DuelResolverProofs`, `DuelArenaProofs`, `TaskPoolProofs`, `WorkQueueProofs`, `SolveRoundsProofs`, `HostProofs`, `ServicesProofs` | the proofs of section 4 | none |

How the modules fit together. `DuelResolver` sees the rest of the system as changes of
its tables (`TaskQualified`, `JudgementSaved`, `SubmissionEligible`,
`RegistrationChanges`, `Publish`). Four modules look inside those: `TaskPool` says how
a task becomes qualified, `SolveRounds` how a judgement comes about, `Intake`
how a submission becomes eligible and a registration current, `Promotion` what a
publication does. `WorkQueue` and `CommitSource` are where `TaskPool`'s insertions
come from; `SolveRun`, `RepoCache` and `UpstreamRouter` are what one job of
`SolveRounds` does, and a job's ways to end there (saved, failed, dropped and
retried) are the outcomes of `SolveRun`. `SolveRounds` is itself a composition: solver, judge,
screener, resolver and database in one state.

### DuelResolver

| variables | code |
|---|---|
| `kings` | table `kings`, ordered by `king_from` |
| `status`, `against` | `challenges.status` and `challenges.king_id` |
| `outcome`, `recorded` | `duel_resolutions`: the verdict per pool and the tally stored with it |
| `eligible`, `registration`, `qualified`, `tally` | what the other workers write: `submissions`, `registrations`, counts of `QUALIFIED` tasks, counts of `judgements` |
| `published` | bundles in the promotion repository |
| `pc`, `snap` | the statement a tick is at and what it has read so far |
| `paused`, `drained` | the SIGUSR1 flag and whether the idle report `new_challenges_paused` was made since |

A tick is a sequence of actions, one per SELECT of
`DuelResolverDb.snapshot` (`ReadKing`, `ReadChallenge`, `ReadCounts`,
`ReadRounds`, `ReadRegistration`, or `ReadPools`, `ReadNext`), then `Decide`,
`Publish` and one write transaction (`OpenChallenge`, `AdvancePool`,
`CloseChallenge`, `Promote`, or `StaleWrite` when the guard matches no row).
Between any two, every other writer may step. A write transaction is one
action: its first statement is the guarded UPDATE, which holds the row until
COMMIT, and it reads nothing else that changes. `TickFails` is an exception
out of any statement, `Crash` the death of the process (the pause flag is
gone), `Pause`/`Resume` the signals.

The other workers are their effect on the tables. `TaskQualified` grows only
the reigning king's pools (the resolver reads no others) and stops at the
target; `JudgementSaved` may come while the pool is duelled or
after it was decided, up to the number of qualified tasks; `RegistrationChanges`
is monotone: a hotkey that registers anew leaves its old submissions stale
(`_current_metagraph` joins on the registration block).

Abstractions: a judge score is an integer, the mean margin an integer in the same
unit, and `ChallengerWinsByMeanScore` compares the sum of the deltas with the margin
times the rounds; ids are model values;
token-efficiency multipliers only change a round's score.

### KingOfTheHill

Four actions: an operator crowns the first king; the king is challenged by a
submission that was never king or challenger; a duel moves to pool two; a duel
ends, with or without a new king. `ArenaSpec` in `DuelResolver` maps `king` to
the last row of `kings`, `duel` to the active challenge and `spent` to all
kings and challengers.

### TaskPool

| variables | code |
|---|---|
| `king`, `reigned` | the latest row of `kings` and all of them |
| `task`, `owner`, `pool` | `tasks.status_id`, `king_id`, `pool_type` |
| `failedRuns`, `due` | `task_screenings.failed_runs`; `next_retry_at` is null or past |
| `solving` | qualification solves that are running, per task |
| `screen` | the statement each screening is at, its verdict and what its transaction has read |

The solver and the screener may be scaled (`src/README.md:526`), so any number
of solves and screenings may work on one task; only row locks and guards keep
them apart. A statement of `save_decision` is an action: `ReadKing` and
`LockKing` (one `SELECT ... FOR UPDATE`, which finds the row before it waits for
it: a promotion can come between), `LockTask`, `CountQualified`,
`WriteDecision`, and `DropSurplus` when the decision closes the pool. The writes
of a transaction become visible with its last action, its row locks last until
then. `save_error` is `LockError`, then `SaveError`: its `FOR UPDATE` joins two
tables and locks the task's row before the screening's, while a surplus updates
the screening rows before the tasks. `AbortDeadlock` is PostgreSQL breaking
that cycle, on either side.

Three locks come from PostgreSQL and not from the text of the code: an UPDATE
waits for a row another transaction has locked; the foreign key of `tasks` makes
an insertion wait for a locked king; a statement that has waited re-checks
its condition on the row it gets.

`Promote` is the resolver's step as the pools see it: its guard, both pools
full, is what `DuelResolver` checks before it opens a challenge, and qualified
tasks stay qualified until the challenge is won (`VerdictsAreFinal`).

`PoolAdmission` is mapped by `admitted[k][p]`, the qualified tasks of king `k`
in pool `p`.

### WorkQueue

| variables | code |
|---|---|
| `king`, `row` | the latest row of `kings`; `tasks`, by content fingerprint |
| `poll` | what `pending_pool_deficits` has read and computed so far |
| `currentKing`, `inFlight`, `cancel` | `WorkQueue.current_king`, `_in_flight`, `_cancel` |
| `toFetch`, `toDescribe` | the two priority queues, as one queue per pool |
| `reserved` | `_inflight_fingerprints` |
| `fetcher`, `describer` | the unit of work each coroutine holds and its step |

The generator's coroutines run in one process and switch at awaits. A
query is an action of its own where another coroutine can run before its answer is
used: `PollKing`, `PollTasks` and `SyncToDeficits` for the controller; `SampleCommit`,
`LookUp`, `Reserve` and `SubmitFetched` for the fetcher; `LeaseToDescribe`,
`InsertTask` and `FinishDescribe` for a describer. A lease and its release
are part of the actions that begin and end it. `FetchBreaks` is an exception the
fetcher does not handle, `AnswerLost` an insertion that was committed and raised,
`Restart` the loss of everything in memory. The pools are seen as in
`PoolAdmission`, by two steps of others: `Settle` (with the surplus at once, which
`TaskPool` refines) and `Succeed`. A commit stands for its fingerprint; the
sampler may return any commit again. The retries of one model call and the log of
abandoned commits are inside `DescribeFails`.

### SolveRounds

| variables | code |
|---|---|
| `king`, `challenge`, `status` | the latest row of `kings`, `challenges.status`, `tasks.status_id` |
| `solutions`, `verdict` | `duel_task_solutions` by job key, `judgements` by task and challenger |
| `running`, `done`, `cooldown` | the scheduler's futures at work, those not yet reaped, the keys excluded for one poll interval |
| `poll` | the duel jobs of a poll between its two queries |
| `judging`, `pending` | the judge's table of judgments in flight, the pairs its tick has read |

A poll is two actions, `PollDuels` and `PollQualifications`, one per query of
`_pending_work`; the solves run in threads and save in between. `PollDuels`
includes the round-by-round order of `next_duel_jobs`, its limit of free slots and
excluded keys, and the cut to whole rounds. Reaping is part of the poll
(`run` reaps before it polls). `ReadPending` and `Reconcile` are the await
and the rest of the judge's tick: pairs that are no longer pending are cancelled,
new ones started as far as the concurrency allows. A cancelled judgment leaves
by an action of its own and may save first. `SolverRestarts`, `JudgeRestarts`,
`PollFails` and dropped solves are not bounded.

### DuelRounds

A task qualifies; a challenge opens, clears pool one, falls or wins the crown; solves of open
rounds are taken up, dropped or saved; a round whose two solves are saved is judged
once. There are no slots, no polls and no judgments in flight. `RoundsSpec` in `SolveRounds`
maps `underway` to the duel jobs that run or that a poll has gathered, `solved` to
`duel_task_solutions` and `qualified` to the tasks of that status. A solve is thus taken up at the moment of
the query: that is when the round has to be open, and what happens until the
launch, or after it, to the challenge does not matter.

### SolveRun

`stage` is the place of the runner, `clock` which of the limits have passed (first
token, wall clock, the container's lifetime), `request` each handler thread,
`usage` the record they share under one lock. `Arrive`, `Admit` (or `Reject`),
`FirstToken` and `Recorded` are the steps of a handler between its lock
sections; the clamp of `max_tokens` is part of `Admit`. The watchdog's decision
(`WatchdogFires`) and its kill (`Kill`, which may fail without a word) are two
actions; `Join` is the return of the exec with the watchdog's reason read after it.
`Outcome` and `Classify` choose the result. A charge is what the usage of an answer
reports; the estimate for the prompt (a third of its characters) and the clamp do not
bind it, so `Excess`, any natural number, is how far it may go beyond both. `Raises`
is an exception that `_handle_request` does not catch: the agent gets a 502, the
request stays counted and is in no field of the usage record (`raised` is the model's own).

### RepoCache

`entry` and `marked` are the cache directory: a key's tree, whole or not, and
the ready markers in the order of their mtimes. `exclusive` and `shared` are flocks,
`thread` each solve's place in `clone_task_repo`. Every step after which a
kill leaves another directory is an action: the removal of the old entry, the
rename, the marker, and in an eviction the marker and the tree. `HostKilled` frees
the flocks (they belong to the process) and leaves the directory as it is.

### UpstreamRouter

The router's table is `inFlight`, `failures`, `affinities` and `disabled`, with the
`file` a restart reads; `routed` is the endpoint of each solve's proxy. A handler
of `_next_upstream_base_url` acquires without the proxy's lock, adopts under it
and hands back without it: `Acquire`, `Adopt`, `Remember` and `GiveBack` are four
actions, and the proxy may stop between any two. What is left of
real time is that affinities expire.

### Intake

The chain is a sequence of snapshots: each uid's hotkey and coldkey and its block of
registration. From one to the next any uids may be registered anew, which gives them
a new block of registration, or have their keys swapped, which does not. `Poll` is a poll of the watcher with the rows `_changed_rows` makes and the
conflict rule of `publish_snapshot`, which drops the row of a pair that was swapped in
under a registration on record; a payload may lack the blocks of
registration. `Swapped` says of a uid's pair that it came with a swap. `Look` is `next_candidate`; `Qualify` and `QualificationFails` are
the two ends of a qualification, with the guarded save. A failure
also stands for a restart: the submission is unverified again. `unreadable` are bundles
whose files cannot be loaded, which `save_error` leaves where they are.

### CommitSource, LlmCalls, WeightSetter, Promotion

`CommitSource`: a sample is a sequence of looks (refill the buffer, pop,
events, choose, fetch), each request made with the token whose turn it is.
Cooldowns count down in `SecondPasses`.

`LlmCalls`: one judgment or screening. The judge goes through the attempts of a route
and then to the next, the screener through the routes and then to the next
attempt; a call answers, fails at once or hangs. The blinding and its inverse
are functions of who is shown first; a winner that is missing or unreadable and scores
that are missing, no number or out of range take the fallbacks of `parse_verdict`.
`answer` keeps what the model said of which patch, for `AnswersKeepTheirRoles`.

`WeightSetter`: `Tick` reads the tip, `ReadMetagraph` the neurons, `ReadKings` the
kings, then the vector is set or fails. Shares are in percent. The window may be 0,
as the configuration allows.

`Promotion`: `FetchHead`, `FetchManifest` and `UpdateRef` are the REST calls that
matter: the tree is built on the head read first, and the reference moves only
forward. A manifest that cannot be read is taken for an empty one (`blind`).

## 3 The runs

| run | instance | checks |
|---|---|---|
| `arena` | one resolver, three submissions, one-round pools, one failure, pause and resume, required publication, `Fairness` | `OneDuel`, `CrownedByDuel`, `DrainHolds`, refinement `ArenaSpec`, `EveryDuelEnds`, `EveryChallengerServed` |
| `overlap` | two resolvers on one duel, mean scores with a margin, required publication, two failures, a second submission that qualifies meanwhile | `LedgerInvariant`, `VerdictIsFinal`, `PublishedHasWon`, `CrownedIsPublished`, `AppendOnly` |
| `pool` | two screenings, three tasks with two solves each, one pool of two places, two kings, one fault | `PoolInvariant`, `VerdictsAreFinal`, `OneFailurePerWindow`, refinement `AdmissionSpec` |
| `settle` | two screenings, two tasks, `FairPoolSpec` | `EveryTaskSettles` |
| `slots` | work queue, two pools, three commits, two describers | `QueueInvariant` |
| `deficit` | work queue, one pool, one describer, a restart, a lost answer or a lost unit, `FairSpec` | `LoadIsBounded`, `DeficitsAreFilled` |
| `rounds` | one challenger, two tasks of pool one or one of each pool, two sandbox slots, one judgment at a time, `Fairness` | `RoundsInvariant`, refinement `RoundsSpec`, `DuelsFirstButOneSlot`, `RoundsAreJudged` |
| `host` | `MCHost`: the cache, the run, the intake or the source, with the fairness of each | `CacheInvariant`, `IntakeInvariant`, `SourceInvariant`, `ClonesEnd`, `RunEnds`, `HistoryCatchesUp`, `QueuedAreRegistered`, `EveryBundleDecided`, `SamplesEnd` |
| `services` | `MCServices`: a run with two connections, the router, the weight setter, the publication or the calls | `RunInvariant`, `RouterInvariant`, `SetterInvariant`, `PromotionInvariant`, `CallsInvariant`, `OutagesAreRetried`, `OncePerEpoch`, `PublicationsStay` |
| `leak` (violation) | work queue, one exception of the fetcher | `SlotsMatch` |
| `snapshot` (violation) | round wins, two rounds, no failures | `RecordedConsistently` |
| `silent` (violation) | a run with one connection | `AnsweredAgentsLive` |

An invariant named `...Invariant` is the conjunction of a module's type invariant with the
named parts defined just before it.

`host` and `services` check components that share no state. Their steps interleaved
would multiply the states and show nothing, so the initial state chooses one, and the
state graph is the disjoint union of the components' graphs. The others
rest where none of their fair actions is enabled, so their fairness holds
and the property of the one that runs is neither weakened nor trivial.

Bounds. Three submissions are the smallest number in which a crowned
challenger meets a further one, so a duel against a dethroned king would
show. A pool of two rounds lets a judgement
commit between the two reads of a tally both before the pool is complete and as its last
round; early verdicts by round wins, which need no more rounds than that either, are covered
for every size by the theorem `EarlyVerdictIsFinal`. One failure suffices for the two-step
hazards of a tick (an effect without its commit); `overlap` has two, so that
the retry fails as well. `MaxFailures` bounds failed ticks and crashes
together; nothing else is capped: judgements end with the qualified tasks.

In `pool`, three tasks compete for two places: the count a save has taken can be
overtaken by another admission that does not fill the pool. With one place it
could not matter, even without the lock on the king: the save that fills a pool
drops the surplus and waits for the task rows of the others. Two concurrent
screenings give every pair of saves; two solves
of a task let a stale one come last. Two failed runs are the fewest that
have both a back-off and an exhausted task. In `settle`, two screenings are enough
for the deadlock of a surplus with a failed run.

The work queue's bounds: a target load of two lets a pool be cancelled from two to
one and to none. In `slots` two pools share it and drain in their order; when one is
full the other has it all, and the bound of `LoadIsBounded` is reached (without its
last unit it fails). Two kings make one succession, after which every unit of the
first is stale. A lost answer is the only fault that adds to the load, and a restart
loses slots and units together. `deficit` has one fault of any kind: after an exception
in the fetcher a deficit of one may remain, and no more (`DeficitsAreFilled`).
`slots` has none, which is what `SlotsMatch` needs (`leak`).

In `rounds`, two tasks of one pool with two slots let a round wait for two places while
a qualification takes one; one judgment at a time makes the second round wait for
the first. One task in each pool is the least that leads a
challenger to the crown; the initial state chooses between the two, by which of the
others is disqualified. In `host`, two threads over a cache of one entry evict each other's
repositories; three blocks and two pairs let a uid change hands and back, by
registrations, by swaps or by one of each; a window of one and two
bundles of one miner let the second wait behind the first; three commits of which one is
usable, against a reject cache of two, make the cache overflow. In `services`, two connections
may be admitted before either is recorded, with a token limit that a single grant can
exhaust and charges of up to one token more than was estimated and granted; the window
of kings is three (`WeightsAreWhole` covers the others, 0 included); two handlers of two solves over two endpoints race for an adoption; eight blocks hold
two epochs of each tempo; four commits let each publisher land and one
start from an older head; a total time of five with calls of two lets calls hang and
still reach the second route.

Why the interesting properties are not obvious:

- `OneDuel`: the opponent of a new challenge is the king read several
  statements before the INSERT.
- `VerdictIsFinal`: a pool is decided before all its rounds are judged, on
  counts read by two statements, and judges keep writing afterwards.
- `DrainHolds`: the pause flag is read by `Decide`; a tick that decided to open
  may still be on its way to the write when the signal arrives. The report is
  made only by a later idle tick, which is what saves it.
- `EveryChallengerServed`: registrations and eligibilities change, older
  submissions overtake; each is spent by at most one duel.
- `NoOverfill`, `AdmissionSpec`: the count is read before the write; only the
  lock on the king's row makes them one. A score saved after a succession holds
  the lock of a past king, and is harmless because his pools are full.
- `SlotsMatch`: a unit passes through two queues and three kinds of coroutine, may
  be cancelled or stale at two of them, and comes back after each failure.
- `LoadIsBounded`: the deficits are counted in the database before they are compared
  with the slots, and the tasks inserted in between are in neither number.
- `RoundsSpec`: a job's solution may be saved between the reaping of futures and the query; a judge's tick starts pairs that were judged since it read them, and one that
  is cancelled may have saved. None of it may show as a second solve at work or a second verdict.
- `PoolTwoWaits`, `CrownRestsOnRounds` (in `RoundsInvariant`): solves and judgments end after their challenge has moved on, so
  what is on record mixes the pools; each step is guarded by a row of another worker.
- `DuelsFirstButOneSlot`: the query is asked for free slots plus excluded keys and its
  answer cut to whole rounds; the one slot of the exception is real (a round takes
  two, a single free slot goes to the qualifications).
- `CacheInvariant`: five steps of a fetch and two of an eviction interleave with
  copies and a kill at any of them.
- `RunInvariant`: tokens are promised at admission and spent at the answer, by threads of
  their own. The bound it states is therefore one token limit, and one `Excess`, per
  connection. An admitted request ends in one of three ways, of which only two are recorded.
- `LoadIsTrue` (in `RouterInvariant`): a solve's load is counted by whoever acquired, adopted and stopped,
  in any order. A handler that adopts after the proxy stopped leaves the endpoint
  loaded by a dead solve; the invariant counts those as held.
- `OutagesAreRetried`: a run that saw an outage and has no patch may also be
  killed, rejected or failed; the order of the tests decides whether it counts.
- `HistoryCatchesUp`: the table takes one row for (uid, block), the watcher
  compares with the latest row and knows only the snapshots that it published. Without its
  condition on swaps it fails (section 5).
- `IntakeInvariant`: a swap can put a row between two others, when an earlier one was
  written from a payload without registration blocks; that the current row still differs
  from the one before it is what the watcher's comparison rests on.
- `QueuedAreRegistered`: the queue compares a block of commitment with a block of the
  history, which is the registration's or a later one, of a pair that may have been
  swapped away.
- `CallsInvariant`: two orders of the patches, and three fallbacks that feed each other.
- `EveryBundleDecided`: the query looks at a window of the queue that decided submissions
  also occupy. Where a bundle cannot be loaded, all behind it wait (`Blocked`): it stays
  unverified, is first again at each look, and is passed by only when it goes stale.
- `PublicationsStay`, `PromotionInvariant`: what a publication removes is decided by a manifest
  read from another commit than the one the reference is moved from.
- `EveryTaskSettles`: screenings of the same task overtake each other, roll
  back, and back off.

Fairness (`Fairness`): the resolver's loop is weakly fair (`run_duel_resolver`
is an unconditional loop with a bounded sleep that survives every
exception); judges eventually judge each round of the pool being duelled and
the screener eventually fills the reigning king's pools (both workers poll and
retry for ever, and the generator replaces dropped tasks). A required publication that is tried
again and again succeeds (strong fairness of `Publish` with a result): the resolver
retries it every tick without limit, and without this a won duel would never
close. A pause that is
never lifted is excluded by the property's own premise. No fairness is assumed
of registrations, eligibility, signals or failures.

`PoolFairness` assumes of the pools' workers: candidates are solved and due tasks
screened (both loops poll for ever, oldest task first), and a solve is not hit by
infrastructure faults for ever (strong fairness of `FinishQualification`; a
retryable fault leaves the task a candidate without limit, so without this
assumption it may stay one). Strong fairness of `StartScreen` stands for the
order by creation time: a task that is due again and again gets its turn.
Of the row locks, only that some waiting surplus or failed run is granted its
locks now and then and not always chosen as the victim of a deadlock.

The work queue's `Fairness`: the coroutines are unconditional loops that survive every
exception; the database does not fail every poll; the sampler comes upon a fresh commit
again and again, and a describer that keeps trying has a success (strong fairness of
`SampleCommit` and `InsertTask`). Commits may run out, which the property allows.

`SolveRounds`' `Fairness`: both loops poll for ever and survive exceptions; that a poll
begins is stated over the poll's own variables (`PollBegins`), what it gathers is the query's.
Queries do not fail for ever; a round's solve or judgment that is retried
again and again is saved once (strong fairness of the saves, which a dropped or cancelled
one disables in between). A cooldown ends with its poll interval.

`CacheFairness`: a thread's next step is strongly fair: the flocks and permits it waits
for are free again and again but not for good, and the kernel and the semaphore serve
their waiters in turn. `RunFairness` assumes time, the watchdog's thread and the
runner, and nothing of the agent, the upstream and the kill: that a run whose kill fails
ends is due to the container's lifetime. `IntakeFairness`: polls and looks go on, a
candidate's qualification ends, and one that is tried again and again is decided at some time; eligible
submissions become challengers. `SourceFairness`: time passes and requests end.

Deadlock is checked in the runs of the resolver and of the work queue, whose loops poll
for ever. It is not in `pool` and `settle` (when every task has its verdict no
worker of the pools has anything left to do), in `rounds` (the last round is judged
and the judge has read it), nor in `host`, `services` and `silent`: runs, chains of
blocks and publications end at their bounds, a sandbox run at its result.

## 4 The proofs

Each theorem holds for every value of the module's constants that satisfies its named
ASSUME: finite sets where the code's are finite, limits that are natural numbers, markers such
as `None` that are no ordinary value, and the pools of a challenge being 1 and 2.
Every safety invariant, action property and refinement that a passing run checks
is the conclusion of a theorem.

| theorem | property | holds for |
|---|---|---|
| `TypeCorrectness` | the type invariant of `DuelResolver` | any number of resolvers, submissions and rounds |
| `LedgerIsConsistent` | `LedgerInvariant` | the same |
| `HistoryIsAppendOnly` | `AppendOnly` | the same |
| `EarlyVerdictIsFinal` | `VerdictIsFinal` | the same, every target, margin and scoring method |
| `OnlyWinnersArePublished` | `PublishedHasWon` | the same |
| `CrownWaitsForPublication` | `CrownedIsPublished` | the same |
| `OneDuelAtATime` | `OneDuel` | one resolver |
| `CrownsAreWon` | `CrownedByDuel` | one resolver |
| `DrainIsHonoured` | `DrainHolds` | one resolver |
| `ResolverImplementsArena` | `ArenaSpec` | one resolver |
| `PoolsNeverOverfill` | `PoolInvariant` | any number of tasks, solves and screenings |
| `VerdictsStayFinal` | `VerdictsAreFinal` | the same |
| `FailuresCountOnce` | `OneFailurePerWindow` | the same |
| `PoolsImplementAdmission` | `AdmissionSpec` | the same |
| `QueueIsSound` | `QueueInvariant` while `breaks = 0` | any number of kings, pools, commits, describers and other faults |
| `LoadStaysBounded` | `LoadIsBounded` | the same, exceptions of the fetcher included |
| `CommitsAreHeldOnce` | `OneUnitPerCommit` | the same |
| `LostSlotsAreExceptions` | slots counted without a unit are at most `breaks` | the same |
| `RoundsAreSound` | `RoundsInvariant` | any number of tasks, challengers, slots and judgments |
| `DuelsComeFirst` | `DuelsFirstButOneSlot` | the same |
| `RoundsImplementPromise` | `RoundsSpec` | the same |
| `RecordsAreFinal` | a solve on record is not launched again, the first verdict stays (`RecordsStand`, which `RoundsSpec` says of the solves taken up) | the same |
| `PromiseIsSafe` | `PoolTwoWaits` and `CrownRestsOnRounds`, of whatever implements `DuelRounds` | the same |
| `CopiesAreNeverTorn` | `CacheInvariant` | any number of threads, keys, entries, permits, attempts and kills |
| `SourceIsSound` | `SourceInvariant` | any number of tokens and commits, any limits |
| `HistoryIsSound` | `IntakeInvariant` | any number of uids, pairs, blocks and submissions, any registrations and key swaps |
| `TheQueueIsRegistered` | `QueuedAreRegistered` | the same |
| `PublishedBundlesAreClean` | `PromotionInvariant` | any number of publishers, winners and files |
| `NoPublicationIsLost` | `PublicationsStay` | the same |
| `RouterIsSound` | `RouterInvariant` | any number of endpoints, solves and handlers |
| `RunIsAccounted` | `RunInvariant` | any number of connections, any limits, any excess of a charge |
| `OutagesLeadToRetries` | `OutagesAreRetried` | the same |
| `CallsAreSound` | `CallsInvariant` | any number of routes and tries, any times and scores |
| `WeightsAreWhole` | `SetterInvariant` | any uids, miners and kings, any window (0 included), tempo, margin and rate limit |
| `WeightsOncePerEpoch` | `OncePerEpoch` | the same |

*One resolver* is the assumption `SoleResolver` of `DuelArenaProofs`; the
repository deploys it as a singleton (`src/README.md:526`). It is needed: with
two, each may open a challenge, and the run `overlap` therefore checks only
what the guarded writes give by themselves.

### The duel: `DuelResolverProofs`, `DuelArenaProofs`

`TypeOK` is inductive except for what a tick carries from
one statement to the next; `TickInv` adds it: the king has been read from
`read_challenge` on, the challenger and its pool from `read_counts` on, and an
action due has its fields. `ApplyArena` then reduces the ten kinds of step to the five
ways the tables change (`Opens`, `Clears`, `Closes`, `Crowns`, `Resolves`, or
not at all), and the ledger and the append-only theorem have one case for each.

For the verdicts, `BoundInv` bounds every observed count by the tally and the tally by the
target; `SeenInv` says what a torn read still guarantees: the counts read first
are at most the counts behind the scores read second; `OutcomeInv` ties a
stored verdict to every completion of the pool: the arithmetic lemmas show that
the missing rounds cannot turn it. `PublicationInv` adds that what is published
or crowned was decided so.

`SoleInv` is the conjunction of `ArenaInv` (who duels whom,
who was crowned by what), `FreshInv` (what the one resolver has read is still
so, because only it writes these tables) and `DrainInv` (a reported drain
leaves no challenge active and none about to be opened). The refinement maps
each of the five table changes to an abstract action.

### The pools: `TaskPoolProofs`

`RowsAndLocks` is inductive by itself: what a screening relies
on at each statement (`HoldInv`: the king it has locked owns its task, the task it
has locked is pending) and that no two hold a row together (`LockInv`). `CountInv`
adds the numbers: a screening about to write knows the exact size of the pool,
no pool is overfull, and the pools of past kings are full. `StepEffect`
reduces every step to two cases, no pool changes or one screening admits its task;
in the second the king's row keeps every other screening of that king from
having counted, so each count stays right, and a past king cannot be concerned
because the count was below the target. The refinement has the same two cases.
`DueInv` says that a failed run about to be saved holds a task that is due: this is
why a second failure of the same window finds the first one's back-off.

### Counts: `CountingLemmas`

Slots, units, loads and weights are counts and sums, and what a count is for every
sequence or set would be an induction. Two lemmas take its place:
`MinimalSubset` and `LeastNatural`. A claim that fails for some finite set or some
prefix fails for a minimal one, and that one is refuted by its next smaller
neighbour. From them come the facts that the proofs use: how the number of positions of a
sequence that hold certain values changes when it is appended to, shortened or filtered;
how a sum changes when one value does, and how it splits; what `InOrder` and
`Without` return.

### The work queue: `WorkQueueProofs`

The inductive invariant has four parts.

- `Typed`: every holder of units (two queues, fetcher, describers) holds only units of the
  steps it can be at, and a queue only those of its pool.
- `SlotInv`: for each king and pool, the units held (`Tally`) are at most the slots in flight,
  and those at most the units plus `breaks`. A unit that moves from one holder to the next
  leaves the sum as it is; one that leaves takes its slot along in the same step.
- `HeldInv`: a commit is held by one unit if it is reserved and by none if it is
  not. It is stated over sets of commits (`HeldOf(X)`), so that one lemma on sums
  serves a single commit and all of them.
- `LoadInv`: the tasks queued and the slots in flight that are not yet tasks, together with
  what the poll that is under way may add, are at most twice the in-flight target plus the
  insertions whose answer was lost. The last part is what makes it inductive: the
  deficit was computed on a count that is older than the slots it is compared with.

`SlotsMatch` needs `breaks = 0`, which is why `QueueIsSound` has the premise:
the run `leak` is its counterexample without. `LostSlotsAreExceptions` and
`LoadStaysBounded` say what is left with it.

### The rounds: `SolveRoundsProofs`

`PollInv` relates a poll under way to the futures at work: running solves and the slots the poll
still has to give are within `MaxContainers`, and no job it has gathered is
running or saved. The latter is what `RecordsStand` and the refinement need; it survives the
steps in between because only a poll starts solves. `PairsInv` says that a
pair the judge holds in its tick or in its table has both its solutions; solutions are not
removed. `DuelsFirstButOneSlot` is about one step: the jobs of `PollDuels` are
the first ones of an order (`InOrder`) cut to whole rounds, and the cut takes one job at most.

The refinement needs no other invariant. `PollDuels` takes up a set of solves, all
of rounds that are open at the query and none at work or saved (`GatherDuelsAre`); the launch is a
stutter because `PollInv` keeps what was gathered apart from what runs (`RefinedScheduler`); a saved judgment is
the abstract one if it is the round's first and a stutter if not (`RefinedJudgment`, by
`PairsInv`). `PoolTwoWaits` and `CrownRestsOnRounds` are then proved of `DuelRounds` alone and
carried over. Their inductive invariant, `PromiseInv`, says that a challenge in pool two has a
verdict in pool one, that a verdict rests on saved solves, and that a won crown has a verdict in each
pool; that a solve belongs to one round (`SidesBelong`) is what ties a solve at work to its challenge.

### The host: `HostProofs`

Cache. `CacheInvariant` says nothing of the threads that are about to change
an entry, so `CacheIInv` adds it: `ThreadInv` ties each place of a thread to the flocks it
holds and to the state of the entry it works on (nothing is marked that is being
replaced, a victim under try-lock has lost its marker, a copied entry is held shared), `LocksExclude`
is flock's guarantee, and `MarkedOnce` is needed because a marker is
removed at one position of a sequence (`RemovalKeepsOthers`). `OthersKeep` states what a
step must respect for the other threads' assertions to survive; with it each action's
lemma concerns its own thread only.

Source. `SourceInvariant` is inductive once a look that fetches has a commit (`SourceIInv`).

Intake. `IntakeInvariant` follows from `IntakeIInv`: `ChainInv` (a later block has a
uid's registration of the earlier one or a later registration), `KeysInv` (one row for
each uid and block), `LogInv` (each row was seen in a published snapshot; since then every
snapshot has shown the pair of a uid's latest row, or at least its registration: `Seen`,
`Stood`, `Standing`) and `ChangesInv` (the latest row of a uid differs from the one
before it, and so does every row of a uid without a swap). What is hard is a poll: the
watcher may have restarted or missed blocks, its payload may lack the blocks of
registration, and the row it makes may be dropped or be older than others.
`RowsAfter` says what becomes of the table. A latest row that stays the latest although
the uid's pair has changed shows that the registration is the one it was written under: the new
row's block is not above its own, so neither is the chain's registration. And of a uid
without a swap, a changed pair means a later registration, so the new row is newer than
every other (`RowsAreLater`) and no conflict can drop it.

### The services: `ServicesProofs`

Publication. `BranchInv` says that every commit after the first is a winner's, lists
its files and contains them; `PublisherInv` what a publisher has read from
the commit it builds on; `TreeInv` what a commit's tree is when nothing before it was
published blindly. The step that matters is `UpdateRef`: the reference moves only from the
base, so the manifest that was read is that of the head.

Router. `RouterIInv` adds to the invariant which handlers hold an endpoint
(`HandlersInv`: those about to adopt or to give back) and that all handlers of a
running proxy use the proxy's endpoint (`ProxyInv`). `LoadIsTrue` equates a counter
with the size of a set; each action adds one holder to the set, removes one or moves none.

Run. `RunIInv` types the usage record and bounds each single promise, the estimate, the
grant and the excess (`PromisesInv`). The bound on the sum is restored at admission: what
is spent and the new promise together fit one limit and one excess, the connection that
is admitted had promised nothing before, and each of the others at most as much
(`OthersAreBounded`). The balance of requests moves one of them at a time from flight to a
success, an error or an exception.

Calls. `CallsIInv` adds `UnderWay`: until there is an answer, the screener in its first
round of attempts has asked all routes before the present one and has used at
most a call's time for each; later it has asked all of them. Winner and scores are settled by
cases over the blinding and the answer.

Weights. `WeightIInv` carries what a tick decided on to the step that sets the vector:
the block it saw is late in its epoch and the rate limit has passed since the last
vector (`DecisionInv`), and the kings it read can be paid (`ReadingInv`). Two decisions are
then at least a rate limit apart, each within the margin of its epoch's end, and
`EpochCountsDown` is the arithmetic of the blocks that remain, which gives
`OncePerEpoch` and the announcement of the next attempt. That the vector is the whole emission is
`SumInParts` and `SumSplits`: each share goes to the one uid of its king or, if there is none, to
the burn. A window of 0 has no shares, so nothing is paid and nothing burned.

### What only TLC checks

The liveness properties (`EveryDuelEnds`, `EveryChallengerServed`, `EveryTaskSettles`,
`DeficitsAreFilled`, `RoundsAreJudged`, `ClonesEnd`, `RunEnds`, `HistoryCatchesUp`,
`EveryBundleDecided`, `SamplesEnd`): they rest on fairness, and reasoning with ENABLED is out of the
prover's reach. And the three violation runs, whose counterexamples are their own proof.

The definitions are written so that the prover can open them. A sequence is ordered and filtered by
`Lists`, since `SortSeq` and `SelectSeq` are known to it by name only; a sum is `SumFunction`
or a recursive function; where two conditions of a choice overlap, the order of the
code's tests is an IF/ELSE, because a CASE with overlapping arms may take either.

## 5 Disagreements with the documentation

- *Consistent snapshot* (`src/README.md:334`, `duel/snapshot.py:75`): the counts and
  the score means of a stored verdict can cover different rounds. The verdict
  is right all the same (`VerdictIsFinal`).
- *Never drop a unit* (`workers/task_generator/pipeline.py:233`): an error in the look-up of a
  fingerprint (line 165) drops the fetcher's unit and its slot stays counted in flight. Without
  such an error no slot is lost (`SlotsMatch`); each one can leave a deficit of one
  (`DeficitsAreFilled`) until a succession or a restart.
- *Kill if the model never responds* (`src/README.md:720`): only completions that the
  proxy streams itself report a first token. An agent whose requests are answered in
  another way is killed at the first-token timeout although its model
  responds (`AnsweredAgentsLive`).

Seven more were met while modelling and are visible in the modules without a run of
their own.

- *The history of key assignments* (`publish_snapshot`, `db/database.py:101`, "insert a row only
  where the `(ss58_hot, ss58_cold)` pair differs"): a swap of a uid's hotkey or coldkey keeps
  `block_at_registration`, which `tests/test_bittensor.py:198` builds and `_changed_rows`
  answers with a row. The insertion drops that row on the conflict of (uid, block)
  (`db/database.py:134`), at this poll and at every later one, so the history keeps the old pair
  until the uid is registered anew or a payload lacks its registration block. Submissions of the old
  hotkey stay in the queue, those of the new one are not in it. `HistoryCatchesUp` and
  `QueuedAreRegistered` say what remains true; without their cases for a swap TLC
  violates both.
- *A missing winner is filled from the scores* (`judging/parsing.py:8`): it is a tie, whatever the
  scores (`judging/parsing.py:45`, which `tests/test_judging.py:336` expects). An unreadable one
  is filled from them (`AnswersKeepTheirRoles`).
- *Emit 100% to the burn uid* (`burn_mode`, `workers/weight_setter/config.py:35`): with
  `window = 0`, which the check at line 48 accepts, there are no shares, and the vector is all zero in burn
  mode too (`weights/compute.py:45`, `WholeEmission`).
- *A request is recorded* (`proxy/server.py:653` counts it): an exception other than
  `CacheMissError` and `httpx.HTTPError`, such as on a `stream_options` that is no object
  (`proxy/upstream.py:107`), ends in `_handle` (`proxy/server.py:208`) with a 502 and no record, so
  requests may exceed successes and errors (`AccountsBalance`), and what went wrong there does not count as an
  outage. Nor does the estimate of a prompt bound what it is charged (`SpendIsBounded`).
- A crash between publication and promotion, followed by a deregistration,
  leaves the bundle of a submission that never reigns in the repository
  (`src/README.md:692`; the next publication removes it, `PromotionInvariant`).
- A commit can become a task between the
  generator's look-up and its reservation, and is then described for nothing
  (`workers/task_generator/pipeline.py:162`).
- A single free sandbox slot goes to the qualification backlog
  while a duel's round waits for two (`DuelsFirstButOneSlot`). `rounds` has one candidate and no
  arrivals, so it shows this once and not again and again.

## 6 What is not modelled

- Token-efficiency scoring (`duel/token_efficiency.py` and its columns): a formula over
  floats. It only changes a round's score, which `DuelResolver` takes as any
  of `RoundResults`.
- Dashboard: read-only views; no action of any model would correspond to it.
- Telemetry, logging, environment parsing, migrations, deployment scripts: they change
  no state the properties speak of. `seed_duel.py` is `SeedKing`.
- Task descriptions, the text of prompts, the patterns that parse an answer, diffs and
  fingerprints, the pruning of environments: string handling. Where a parsed value
  matters (winner, scores, usage), it is a member of a small set that has the
  fallbacks' cases.
- The bytes of HTTP, Docker and git: a call succeeds, fails or hangs. The proxy's response
  cache, which the runner does not use, and the prompt, completion and cost
  limits, which the deployment leaves unset, are left out of `SolveRun`.
- Clock time appears as order, or as small counters where a limit is compared
  (`SolveRun`, `LlmCalls`, `CommitSource`). The wall-clock `king_from` is taken to be
  increasing, as `now()` of successive commits of one worker is.
- `TaskPool` leaves out the mode that disables screening (every pending task passes, also
  one that is backing off) and one process's table of screenings in flight.
  `UpstreamRouter` is one process's router: solvers that are scaled share the file of
  disabled upstreams, which the model lets only its own process write.
  `WorkQueue` starts with a reigning king and has one process: another generator is seen
  only as commits that are tasks already.

## 7 Plan

1. Done: the duel resolver, its rules, its abstract arena and their proofs.
2. Done: the task pools, their admission and its proofs.
3. Done: the task generator's work queue and its source of commits.
4. Done: solver and judge over one database (`SolveRounds`), the sandbox run, the
   repository cache with its proof, the router.
5. Done: chain watcher and qualification queue, weight setter, publication with its
   proofs, model calls.
6. Done: the work queue's counts, the rounds, the source, the intake, the router, the run, the calls
   and the weights are proved; only liveness is left to TLC.
7. Done: the abstract specification of a round (`DuelRounds`), which `SolveRounds` is
   proved to implement.
8. Left to model: the screener's table of calls in flight (a cancelled screening's
   callback), several generator processes.
