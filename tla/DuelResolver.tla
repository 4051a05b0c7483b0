----------------------------- MODULE DuelResolver -----------------------------
(***************************************************************************)
(* The duel-resolver worker over the shared database.                      *)
(*                                                                         *)
(* A tick is a read-only transaction of several statements                 *)
(* (DuelResolverDb.snapshot), the pure function decide, an optional        *)
(* publication on GitHub and one guarded write transaction.  PostgreSQL    *)
(* runs at READ COMMITTED, so every SELECT of the snapshot is a step of    *)
(* its own and the other workers write between them; a write transaction   *)
(* is one step (its guarded UPDATE locks the challenge row, and a crash    *)
(* before COMMIT leaves nothing behind).                                   *)
(*                                                                         *)
(* The other workers appear as the writes this one reads: the              *)
(* qualification worker, the chain watcher, the task screener and the      *)
(* judge.  The first king is inserted by the operator.                     *)
(***************************************************************************)
EXTENDS Integers, Sequences, FiniteSets, DuelRules

CONSTANTS
  Submissions,      \* submission ids
  NoOne,            \* the null submission id
  Block,            \* Block[s]: submission s's commitment block
  Resolvers,        \* resolver processes (deployed as exactly one)
  Target,           \* Target[p]: rounds of pool p (TAU_POOL_*_TARGET)
  ScoringMethod,    \* TAU_DUEL_SCORING_METHOD
  RoundWinMargin,   \* TAU_DUEL_ROUND_WIN_MARGIN
  MeanScoreMargin,  \* TAU_DUEL_MEAN_SCORE_MARGIN, in score units
  RoundResults,     \* what a judgement can be: [winner, delta]
  PublishMode,      \* promotion publishing: off, best effort, required
  MaxFailures       \* bound on failed ticks and crashes

Pools == {"pool_one", "pool_two"}
Statuses == {"none", "pool_one", "pool_two", "closed"}
Outcomes == {"king_won", "challenger_won", "challenger_deregistered"}

ASSUME SubmissionsAssumption ==
  /\ NoOne \notin Submissions
  /\ Block \in [Submissions -> Nat]

ASSUME ConfigAssumption ==
  /\ Target \in [Pools -> Nat \ {0}]
  /\ ScoringMethod \in {"round_wins", "mean"}
  /\ RoundWinMargin \in Nat
  /\ MeanScoreMargin \in Nat
  /\ RoundResults \subseteq [winner : {"challenger", "king", "tie"}, delta : Int]
  /\ PublishMode \in {"off", "best_effort", "required"}
  /\ MaxFailures \in Nat

VARIABLES
  kings,         \* rows of kings, in king_from order
  status,        \* challenges.status of each challenger, "none" without a row
  against,       \* challenges.king_id
  outcome,       \* duel_resolutions.outcome per challenger and pool
  recorded,      \* the tally that duel_resolutions row was written with
  eligible,      \* submissions with status ELIGIBLE
  registration,  \* is the submission on a current registration of its hotkey?
  qualified,     \* QUALIFIED tasks per king and pool
  tally,         \* judgements per challenger and pool
  published,     \* submissions whose bundle reached the promotion repository
  pc,            \* the next statement of each resolver's tick
  snap,          \* what the tick has read, and the action that is due
  paused,        \* SIGUSR1 received and not yet SIGUSR2
  drained,       \* reported idle: new_challenges_paused since the last SIGUSR2
  failures       \* failed ticks and crashes so far

arena == <<kings, status, against, outcome, recorded>>
inputs == <<eligible, registration, qualified, tally>>
tick == <<pc, snap>>
signals == <<paused, drained>>
vars == <<arena, inputs, published, tick, signals, failures>>

NoTally == [wins |-> 0, losses |-> 0, ties |-> 0, delta |-> 0]
NoRecord == [wins |-> 0, losses |-> 0, ties |-> 0, rounds |-> 0, delta |-> 0]
NoSnapshot ==
  [king |-> NoOne, challenger |-> NoOne, pool |-> "none",
   wins |-> 0, losses |-> 0, ties |-> 0, rounds |-> 0, delta |-> 0,
   registered |-> FALSE, ready |-> FALSE, next |-> NoOne, due |-> "nothing"]

KingSet == {kings[i] : i \in DOMAIN kings}

\* _reigning_king: the row with the latest king_from.
ReigningKing == IF kings = <<>> THEN NoOne ELSE kings[Len(kings)]

\* Mutant of ActiveChallengers: POOL_TWO is forgotten as an active status.
ActiveInPoolOne(k) == {c \in Submissions : against[c] = k /\ status[c] = "pool_one"}

ActiveChallengers(k) == {c \in Submissions : against[c] = k /\ status[c] \in Pools}

Registered(c) == registration[c] = "current"

\* Mutant of Waiting: a past king may challenge.
WaitingOrDethroned ==
  {c \in eligible : Registered(c) /\ status[c] = "none"}

\* _next_challenger's WHERE clause: an eligible submission on a current
\* registration that is neither a king nor a past or present challenger.
Waiting ==
  {c \in eligible : Registered(c) /\ c \notin KingSet /\ status[c] = "none"}

Init ==
  /\ kings = <<>>
  /\ status = [s \in Submissions |-> "none"]
  /\ against = [s \in Submissions |-> NoOne]
  /\ outcome = [s \in Submissions |-> [p \in Pools |-> "none"]]
  /\ recorded = [s \in Submissions |-> [p \in Pools |-> NoRecord]]
  /\ eligible = {}
  /\ registration = [s \in Submissions |-> "unseen"]
  /\ qualified = [s \in Submissions |-> [p \in Pools |-> 0]]
  /\ tally = [s \in Submissions |-> [p \in Pools |-> NoTally]]
  /\ published = {}
  /\ pc = [r \in Resolvers |-> "idle"]
  /\ snap = [r \in Resolvers |-> NoSnapshot]
  /\ paused = [r \in Resolvers |-> FALSE]
  /\ drained = [r \in Resolvers |-> FALSE]
  /\ failures = 0

-----------------------------------------------------------------------------
\* The writes of the other workers and of the operator.

\* The operator crowns the first king.
SeedKing(s) ==
  /\ kings = <<>>
  /\ kings' = <<s>>
  /\ UNCHANGED <<status, against, outcome, recorded, inputs, published, tick,
                 signals, failures>>

\* The qualification worker's final verdict on a submission.
SubmissionEligible(s) ==
  /\ s \notin eligible
  /\ eligible' = eligible \cup {s}
  /\ UNCHANGED <<arena, registration, qualified, tally, published, tick, signals,
                 failures>>

\* The chain watcher records the hotkey's registration; later its uid changes
\* hands or the hotkey registers anew, which makes the submission stale.
RegistrationChanges(s) ==
  /\ \/ registration[s] = "unseen"
        /\ registration' = [registration EXCEPT ![s] = "current"]
     \/ registration[s] = "current"
        /\ registration' = [registration EXCEPT ![s] = "stale"]
  /\ UNCHANGED <<arena, eligible, qualified, tally, published, tick, signals,
                 failures>>

\* The task screener admits one more task of the reigning king, never past the
\* pool's target.
TaskQualified(p) ==
  /\ kings # <<>>
  /\ qualified[ReigningKing][p] < Target[p]
  /\ qualified' = [qualified EXCEPT ![ReigningKing][p] = @ + 1]
  /\ UNCHANGED <<arena, eligible, registration, tally, published, tick, signals,
                 failures>>

Counted(t, v) ==
  [wins |-> t.wins + (IF v.winner = "challenger" THEN 1 ELSE 0),
   losses |-> t.losses + (IF v.winner = "king" THEN 1 ELSE 0),
   ties |-> t.ties + (IF v.winner = "tie" THEN 1 ELSE 0),
   delta |-> t.delta + v.delta]

\* A judge saves the judgement of one more round.  It requested the round while
\* pool p was being duelled and may answer after that pool is decided.
JudgementSaved(c, p) ==
  /\ status[c] = p \/ outcome[c][p] # "none"
  /\ Judged(tally[c][p]) < qualified[against[c]][p]
  /\ \E v \in RoundResults :
       tally' = [tally EXCEPT ![c][p] = Counted(@, v)]
  /\ UNCHANGED <<arena, eligible, registration, qualified, published, tick,
                 signals, failures>>

-----------------------------------------------------------------------------
\* snapshot: one action per statement.

ReadKing(r) ==
  /\ pc[r] = "idle"
  /\ kings # <<>>
  /\ pc' = [pc EXCEPT ![r] = "read_challenge"]
  /\ snap' = [snap EXCEPT ![r].king = ReigningKing]
  /\ UNCHANGED <<arena, inputs, published, signals, failures>>

\* _active_challenge, LIMIT 1 without an order.
ReadChallenge(r) ==
  /\ pc[r] = "read_challenge"
  /\ LET active == ActiveChallengers(snap[r].king) IN
     \/ /\ active = {}
        /\ pc' = [pc EXCEPT ![r] = "read_pools"]
        /\ UNCHANGED snap
     \/ \E c \in active :
          /\ pc' = [pc EXCEPT ![r] = "read_counts"]
          /\ snap' = [snap EXCEPT ![r].challenger = c, ![r].pool = status[c]]
  /\ UNCHANGED <<arena, inputs, published, signals, failures>>

\* _tally, first statement: judgements by winner.
ReadCounts(r) ==
  /\ pc[r] = "read_counts"
  /\ LET t == tally[snap[r].challenger][snap[r].pool] IN
       snap' = [snap EXCEPT ![r].wins = t.wins, ![r].losses = t.losses,
                            ![r].ties = t.ties]
  /\ pc' = [pc EXCEPT ![r] = "read_rounds"]
  /\ UNCHANGED <<arena, inputs, published, signals, failures>>

\* _tally, second statement: the scores of the judged rounds.
ReadRounds(r) ==
  /\ pc[r] = "read_rounds"
  /\ LET t == tally[snap[r].challenger][snap[r].pool] IN
       snap' = [snap EXCEPT ![r].rounds = Judged(t), ![r].delta = t.delta]
  /\ pc' = [pc EXCEPT ![r] = "read_registration"]
  /\ UNCHANGED <<arena, inputs, published, signals, failures>>

\* _challenger_registered.
ReadRegistration(r) ==
  /\ pc[r] = "read_registration"
  /\ snap' = [snap EXCEPT ![r].registered = Registered(snap[r].challenger)]
  /\ pc' = [pc EXCEPT ![r] = "decide"]
  /\ UNCHANGED <<arena, inputs, published, signals, failures>>

\* Mutant of ReadPools: a pool counts as ready only above its target.
ReadPoolsAbove(r) ==
  /\ pc[r] = "read_pools"
  /\ LET ready == \A p \in Pools : qualified[snap[r].king][p] > Target[p] IN
     /\ snap' = [snap EXCEPT ![r].ready = ready]
     /\ pc' = [pc EXCEPT ![r] = IF ready THEN "read_next" ELSE "decide"]
  /\ UNCHANGED <<arena, inputs, published, signals, failures>>

\* _task_pools_ready.
ReadPools(r) ==
  /\ pc[r] = "read_pools"
  /\ LET ready == \A p \in Pools : qualified[snap[r].king][p] >= Target[p] IN
     /\ snap' = [snap EXCEPT ![r].ready = ready]
     /\ pc' = [pc EXCEPT ![r] = IF ready THEN "read_next" ELSE "decide"]
  /\ UNCHANGED <<arena, inputs, published, signals, failures>>

\* _next_challenger: the oldest of the waiting submissions.
ReadNext(r) ==
  /\ pc[r] = "read_next"
  /\ \/ /\ Waiting = {}
        /\ UNCHANGED snap
     \/ \E c \in Waiting :
          /\ \A d \in Waiting : Block[c] <= Block[d]
          /\ snap' = [snap EXCEPT ![r].next = c]
  /\ pc' = [pc EXCEPT ![r] = "decide"]
  /\ UNCHANGED <<arena, inputs, published, signals, failures>>

-----------------------------------------------------------------------------
\* decide.

\* The verdict on the observed pool.
Verdict(s) ==
  IF ScoringMethod = "round_wins"
  THEN RoundWinsVerdict(s, Target[s.pool], RoundWinMargin)
  ELSE MeanVerdict(s, Target[s.pool], s.delta, s.rounds, MeanScoreMargin)

\* Mutant of DuelAction: a win in pool one already takes the crown.
DuelActionOnePool(s) ==
  CASE ~s.registered -> "forfeit"
    [] s.registered /\ Verdict(s) = "king_won" -> "defend"
    [] s.registered /\ Verdict(s) = "undecided" -> "nothing"
    [] s.registered /\ Verdict(s) = "challenger_won" -> "promote"

\* The one action due with an active challenge; a deregistered challenger
\* forfeits regardless of its tally.
DuelAction(s) ==
  CASE ~s.registered -> "forfeit"
    [] s.registered /\ Verdict(s) = "king_won" -> "defend"
    [] s.registered /\ Verdict(s) = "undecided" -> "nothing"
    [] s.registered /\ Verdict(s) = "challenger_won" ->
         IF s.pool = "pool_one" THEN "advance" ELSE "promote"

\* Mutant of IdleAction: the pause flag is ignored.
IdleActionUnpaused(s, isPaused) ==
  IF s.ready /\ s.next # NoOne THEN "open" ELSE "nothing"

\* The one action due with no active challenge.
IdleAction(s, isPaused) ==
  IF ~isPaused /\ s.ready /\ s.next # NoOne THEN "open" ELSE "nothing"

DueAction(s, isPaused) ==
  IF s.pool = "none" THEN IdleAction(s, isPaused) ELSE DuelAction(s)

EndTick(r) ==
  /\ pc' = [pc EXCEPT ![r] = "idle"]
  /\ snap' = [snap EXCEPT ![r] = NoSnapshot]

\* Mutant of Decide: a pool-one win is published as well.
DecidePublishesEarly(r) ==
  /\ pc[r] = "decide"
  /\ LET due == DueAction(snap[r], paused[r]) IN
     \/ /\ due = "nothing"
        /\ EndTick(r)
        /\ drained' = [drained EXCEPT ![r] =
                         @ \/ (paused[r] /\ snap[r].pool = "none")]
     \/ /\ due # "nothing"
        /\ pc' = [pc EXCEPT ![r] =
                    IF due \in {"advance", "promote"} /\ PublishMode # "off"
                    THEN "publish" ELSE "apply"]
        /\ snap' = [snap EXCEPT ![r].due = due]
        /\ UNCHANGED drained
  /\ UNCHANGED <<arena, inputs, published, paused, failures>>

\* decide runs between the snapshot and the write; it reads the pause flag now.
Decide(r) ==
  /\ pc[r] = "decide"
  /\ LET due == DueAction(snap[r], paused[r]) IN
     \/ /\ due = "nothing"
        /\ EndTick(r)
        /\ drained' = [drained EXCEPT ![r] =
                         @ \/ (paused[r] /\ snap[r].pool = "none")]
     \/ /\ due # "nothing"
        /\ pc' = [pc EXCEPT ![r] = IF due = "promote" /\ PublishMode # "off"
                                   THEN "publish" ELSE "apply"]
        /\ snap' = [snap EXCEPT ![r].due = due]
        /\ UNCHANGED drained
  /\ UNCHANGED <<arena, inputs, published, paused, failures>>

-----------------------------------------------------------------------------
\* _apply: the guarded writes.

\* Mutant of Publish: a failed publication never holds the crown back.
PublishAnyway(r) ==
  /\ pc[r] = "publish"
  /\ published' \in {published, published \cup {snap[r].challenger}}
  /\ pc' = [pc EXCEPT ![r] = "apply"]
  /\ UNCHANGED <<arena, inputs, snap, signals, failures>>

\* _publish_promoted_submission.  A publication that reports a failure may
\* still have reached the repository.
Publish(r) ==
  /\ pc[r] = "publish"
  /\ \/ /\ published' = published \cup {snap[r].challenger}
        /\ pc' = [pc EXCEPT ![r] = "apply"]
        /\ UNCHANGED snap
     \/ /\ published' \in {published, published \cup {snap[r].challenger}}
        /\ \/ /\ PublishMode = "required"
              /\ EndTick(r)
           \/ /\ PublishMode = "best_effort"
              /\ pc' = [pc EXCEPT ![r] = "apply"]
              /\ UNCHANGED snap
  /\ UNCHANGED <<arena, inputs, signals, failures>>

\* Mutant of OpenChallenge: ON CONFLICT DO UPDATE reopens a challenge.
OpenChallengeUpsert(r) ==
  /\ pc[r] = "apply"
  /\ snap[r].due = "open"
  /\ status' = [status EXCEPT ![snap[r].next] = "pool_one"]
  /\ against' = [against EXCEPT ![snap[r].next] = snap[r].king]
  /\ EndTick(r)
  /\ UNCHANGED <<kings, outcome, recorded, inputs, published, signals, failures>>

\* open_challenge: INSERT ... ON CONFLICT DO NOTHING.
OpenChallenge(r) ==
  /\ pc[r] = "apply"
  /\ snap[r].due = "open"
  /\ \/ /\ status[snap[r].next] = "none"
        /\ status' = [status EXCEPT ![snap[r].next] = "pool_one"]
        /\ against' = [against EXCEPT ![snap[r].next] = snap[r].king]
     \/ /\ status[snap[r].next] # "none"
        /\ UNCHANGED <<status, against>>
  /\ EndTick(r)
  /\ UNCHANGED <<kings, outcome, recorded, inputs, published, signals, failures>>

\* Mutant of SetStatus: the guard on the observed pool is dropped.
SetStatusUnguarded(s, new) ==
  status' = [status EXCEPT ![s.challenger] = new]

\* _set_status: the UPDATE applies only in the pool the snapshot observed.
SetStatus(s, new) ==
  /\ status[s.challenger] = s.pool
  /\ status' = [status EXCEPT ![s.challenger] = new]

\* _record_resolution: one row per challenger and pool, ON CONFLICT DO NOTHING.
RecordResolution(s, verdict) ==
  IF outcome[s.challenger][s.pool] = "none"
  THEN /\ outcome' = [outcome EXCEPT ![s.challenger][s.pool] = verdict]
       /\ recorded' = [recorded EXCEPT ![s.challenger][s.pool] =
                         [wins |-> s.wins, losses |-> s.losses, ties |-> s.ties,
                          rounds |-> s.rounds, delta |-> s.delta]]
  ELSE UNCHANGED <<outcome, recorded>>

\* A write whose guard finds the challenge moved on changes nothing.
StaleWrite(r) ==
  /\ pc[r] = "apply"
  /\ snap[r].due # "open"
  /\ status[snap[r].challenger] # snap[r].pool
  /\ EndTick(r)
  /\ UNCHANGED <<arena, inputs, published, signals, failures>>

AdvancePool(r) ==
  /\ pc[r] = "apply"
  /\ snap[r].due = "advance"
  /\ SetStatus(snap[r], "pool_two")
  /\ RecordResolution(snap[r], "challenger_won")
  /\ EndTick(r)
  /\ UNCHANGED <<kings, against, inputs, published, signals, failures>>

CloseChallenge(r) ==
  /\ pc[r] = "apply"
  /\ snap[r].due \in {"defend", "forfeit"}
  /\ SetStatus(snap[r], "closed")
  /\ RecordResolution(snap[r], IF snap[r].due = "defend" THEN "king_won"
                               ELSE "challenger_deregistered")
  /\ EndTick(r)
  /\ UNCHANGED <<kings, against, inputs, published, signals, failures>>

\* promote: close, record and crown in one transaction.
Promote(r) ==
  /\ pc[r] = "apply"
  /\ snap[r].due = "promote"
  /\ SetStatus(snap[r], "closed")
  /\ RecordResolution(snap[r], "challenger_won")
  /\ kings' = IF snap[r].challenger \in KingSet THEN kings
              ELSE Append(kings, snap[r].challenger)
  /\ EndTick(r)
  /\ UNCHANGED <<against, inputs, published, signals, failures>>

-----------------------------------------------------------------------------
\* Failures and signals.

\* A statement raises: the open transaction rolls back and the loop goes on.
TickFails(r) ==
  /\ pc[r] # "idle"
  /\ failures < MaxFailures
  /\ failures' = failures + 1
  /\ EndTick(r)
  /\ UNCHANGED <<arena, inputs, published, signals>>

\* The process dies and is restarted: the pause flag is only in memory.
Crash(r) ==
  /\ failures < MaxFailures
  /\ failures' = failures + 1
  /\ EndTick(r)
  /\ paused' = [paused EXCEPT ![r] = FALSE]
  /\ drained' = [drained EXCEPT ![r] = FALSE]
  /\ UNCHANGED <<arena, inputs, published>>

Pause(r) ==
  /\ ~paused[r]
  /\ paused' = [paused EXCEPT ![r] = TRUE]
  /\ UNCHANGED <<arena, inputs, published, tick, drained, failures>>

Resume(r) ==
  /\ paused[r]
  /\ paused' = [paused EXCEPT ![r] = FALSE]
  /\ drained' = [drained EXCEPT ![r] = FALSE]
  /\ UNCHANGED <<arena, inputs, published, tick, failures>>

-----------------------------------------------------------------------------
Snapshot(r) ==
  \/ ReadKing(r) \/ ReadChallenge(r) \/ ReadCounts(r) \/ ReadRounds(r)
  \/ ReadRegistration(r) \/ ReadPools(r) \/ ReadNext(r)

Apply(r) ==
  \/ Publish(r) \/ OpenChallenge(r) \/ AdvancePool(r) \/ CloseChallenge(r)
  \/ Promote(r) \/ StaleWrite(r)

\* One step of run_duel_resolver's loop.
Tick(r) == Snapshot(r) \/ Decide(r) \/ Apply(r)

Environment ==
  \/ \E s \in Submissions :
       SeedKing(s) \/ SubmissionEligible(s) \/ RegistrationChanges(s)
  \/ \E p \in Pools : TaskQualified(p)
  \/ \E c \in Submissions, p \in Pools : JudgementSaved(c, p)

Next ==
  \/ Environment
  \/ \E r \in Resolvers :
       Tick(r) \/ TickFails(r) \/ Crash(r) \/ Pause(r) \/ Resume(r)

Spec == Init /\ [][Next]_vars
-----------------------------------------------------------------------------
(* Properties *)

ResolverSteps ==
  {"idle", "read_challenge", "read_counts", "read_rounds", "read_registration",
   "read_pools", "read_next", "decide", "publish", "apply"}

SnapshotType ==
  [king : Submissions \cup {NoOne}, challenger : Submissions \cup {NoOne},
   pool : Pools \cup {"none"}, wins : Nat, losses : Nat, ties : Nat,
   rounds : Nat, delta : Int, registered : BOOLEAN, ready : BOOLEAN,
   next : Submissions \cup {NoOne},
   due : {"nothing", "open", "advance", "promote", "defend", "forfeit"}]

RecordType == [wins : Nat, losses : Nat, ties : Nat, rounds : Nat, delta : Int]
TallyType == [wins : Nat, losses : Nat, ties : Nat, delta : Int]

ArenaType ==
  /\ kings \in Seq(Submissions)
  /\ status \in [Submissions -> Statuses]
  /\ against \in [Submissions -> Submissions \cup {NoOne}]
  /\ outcome \in [Submissions -> [Pools -> Outcomes \cup {"none"}]]
  /\ recorded \in [Submissions -> [Pools -> RecordType]]

InputsType ==
  /\ eligible \subseteq Submissions
  /\ registration \in [Submissions -> {"unseen", "current", "stale"}]
  /\ qualified \in [Submissions -> [Pools -> Nat]]
  /\ tally \in [Submissions -> [Pools -> TallyType]]

TickType ==
  /\ pc \in [Resolvers -> ResolverSteps]
  /\ snap \in [Resolvers -> SnapshotType]

SignalsType ==
  /\ paused \in [Resolvers -> BOOLEAN]
  /\ drained \in [Resolvers -> BOOLEAN]

\* Every variable holds values of its column's or field's type.
TypeOK ==
  /\ ArenaType
  /\ InputsType
  /\ TickType
  /\ SignalsType
  /\ published \subseteq Submissions
  /\ failures \in Nat

\* At most one challenge is active, and it is against the reigning king: no
\* promotion, crash or stale snapshot leaves a duel against a dethroned king,
\* which _active_challenge would never look at again.
OneDuel ==
  \A c \in Submissions : status[c] \in Pools =>
    /\ against[c] = ReigningKing
    /\ \A d \in Submissions : status[d] \in Pools => d = c

\* Every king but the first was crowned by promote: its challenge, of the very
\* king it follows, is closed with both pools won.
CrownedByDuel ==
  \A i \in DOMAIN kings : i > 1 =>
    /\ status[kings[i]] = "closed"
    /\ against[kings[i]] = kings[i - 1]
    /\ \A p \in Pools : outcome[kings[i]][p] = "challenger_won"

\* status, duel_resolutions and kings tell one story: a challenge in pool two
\* has won pool one; a closed one has exactly one last verdict; a challenger
\* is king iff it has won pool two.
VerdictLedger ==
  \A c \in Submissions :
    LET one == outcome[c]["pool_one"]
        two == outcome[c]["pool_two"] IN
    /\ status[c] \in {"none", "pool_one"} => one = "none" /\ two = "none"
    /\ status[c] = "pool_two" => one = "challenger_won" /\ two = "none"
    /\ status[c] = "closed" =>
         \/ one \in {"king_won", "challenger_deregistered"} /\ two = "none"
         \/ one = "challenger_won" /\ two # "none"
    /\ two = "challenger_won" => c \in KingSet

\* What several resolvers, stale reads and failures never break (_set_status, promote).
LedgerInvariant == TypeOK /\ VerdictLedger

\* The outcome the whole pool gives once its last round is judged.
FinalOutcome(c, p) ==
  LET t == tally[c][p]
      challengerWins ==
        IF ScoringMethod = "round_wins"
        THEN ChallengerWins(t.wins, t.losses, RoundWinMargin)
        ELSE ChallengerWinsByMeanScore(t.delta, Judged(t), MeanScoreMargin)
  IN IF challengerWins THEN "challenger_won" ELSE "king_won"

\* An early verdict is the verdict of the whole pool: whatever judgements
\* arrive after a pool was decided, from judges that had already requested
\* them, a recorded win or loss is what the full pool would have given.
VerdictIsFinal ==
  \A c \in Submissions, p \in Pools :
    /\ outcome[c][p] \in {"king_won", "challenger_won"}
    /\ Judged(tally[c][p]) = Target[p]
    => outcome[c][p] = FinalOutcome(c, p)

\* Write-once history: a crown, a verdict with its tally and the opponent of a
\* challenge never change, and a challenge only moves forward.
AppendOnly ==
  [][/\ \A i \in DOMAIN kings : i \in DOMAIN kings' /\ kings'[i] = kings[i]
     /\ \A c \in Submissions :
          /\ status[c] # "none" => against'[c] = against[c]
          /\ <<status[c], status'[c]>> \in
               {<<"none", "pool_one">>, <<"pool_one", "pool_two">>,
                <<"pool_one", "closed">>, <<"pool_two", "closed">>}
             \/ status'[c] = status[c]
          /\ \A p \in Pools : outcome[c][p] # "none" =>
               /\ outcome'[c][p] = outcome[c][p]
               /\ recorded'[c][p] = recorded[c][p]]_arena

\* A drain holds: once a paused resolver has reported new_challenges_paused, no
\* challenge is active until it is resumed or restarted.
DrainHolds ==
  \A r \in Resolvers : drained[r] => \A c \in Submissions : status[c] \notin Pools

\* With TAU_PROMOTION_PUBLISH_REQUIRED no submission is crowned unpublished.
CrownedIsPublished ==
  PublishMode = "required" =>
    \A i \in DOMAIN kings : i > 1 => kings[i] \in published

\* Only a submission that has cleared both pools is ever published, whatever
\* happens to its challenge afterwards.
PublishedHasWon ==
  \A c \in published :
    /\ outcome[c]["pool_one"] = "challenger_won"
    /\ Judged(tally[c]["pool_two"]) = Target["pool_two"] =>
         FinalOutcome(c, "pool_two") = "challenger_won"

\* The stored verdict was decided on one consistent read of the pool: its
\* win/loss/tie counts and its score means cover the same rounds.
RecordedConsistently ==
  \A c \in Submissions, p \in Pools :
    LET t == recorded[c][p] IN t.wins + t.losses + t.ties = t.rounds

\* The arena the database shows: its king and the duel it is in.
Duel ==
  IF \E c \in Submissions : status[c] \in Pools
  THEN LET c == CHOOSE d \in Submissions : status[d] \in Pools
       IN [challenger |-> c, pool |-> status[c]]
  ELSE [challenger |-> NoOne, pool |-> "none"]

Arena == INSTANCE KingOfTheHill WITH
  king <- ReigningKing,
  duel <- Duel,
  spent <- KingSet \cup {c \in Submissions : status[c] # "none"}

\* The resolver, with its polling, stale reads and failures, implements the
\* one-duel-at-a-time arena.
ArenaSpec == Arena!Spec

\* Liveness.  The worker keeps polling, the judges answer every round of the
\* pool being duelled, the screener fills the reigning king's pools and a
\* publication that is tried again and again succeeds.
Fairness ==
  /\ \A r \in Resolvers : WF_vars(Tick(r)) /\ SF_vars(Publish(r) /\ pc'[r] = "apply")
  /\ \A c \in Submissions, p \in Pools : WF_vars(status[c] = p /\ JudgementSaved(c, p))
  /\ \A p \in Pools : WF_vars(TaskQualified(p))

FairSpec == Spec /\ Fairness

\* Every duel that is opened is resolved, whatever verdicts the judges give.
EveryDuelEnds ==
  \A c \in Submissions : status[c] \in Pools ~> status[c] = "closed"

\* Once the operator leaves new challenges unpaused, every eligible submission
\* with a reigning king gets its one challenge or stops being registered.
EveryChallengerServed ==
  (\A r \in Resolvers : <>[]~paused[r]) =>
    \A s \in Submissions :
      (s \in Waiting /\ kings # <<>>) ~> s \notin Waiting
=============================================================================
