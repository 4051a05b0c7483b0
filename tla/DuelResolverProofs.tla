-------------------------- MODULE DuelResolverProofs --------------------------
(***************************************************************************)
(* Safety of the duel resolver for every set of submissions, every target, *)
(* margin and scoring method, and any number of resolver processes.        *)
(***************************************************************************)
EXTENDS DuelResolver, SequenceTheorems, TLAPS

\* What a tick's fields promise at each of its steps.
SnapshotInv(step, s) ==
  /\ step # "idle" => s.king \in Submissions
  /\ step \in {"idle", "read_challenge", "read_pools", "read_next"} =>
       s.pool = "none"
  /\ step \in {"read_counts", "read_rounds", "read_registration"} => s.pool \in Pools
  /\ s.pool \in Pools => s.challenger \in Submissions
  /\ step \notin {"publish", "apply"} => s.due = "nothing"
  /\ step \in {"publish", "apply"} => s.due # "nothing"
  /\ step = "publish" => s.due = "promote"
  /\ s.due = "open" => s.pool = "none" /\ s.next \in Submissions
  /\ s.due = "advance" => s.pool = "pool_one"
  /\ s.due = "promote" => s.pool = "pool_two"
  /\ s.due \in {"defend", "forfeit"} => s.pool \in Pools

TickInv == \A r \in Resolvers : SnapshotInv(pc[r], snap[r])

\* The type invariant is inductive together with the tick's invariant: the
\* write transactions store fields of the snapshot.
TypedTick == TypeOK /\ TickInv

-----------------------------------------------------------------------------
LEMMA InitTypedTick == Init => TypedTick
  <1> SUFFICES ASSUME Init PROVE TypedTick
    OBVIOUS
  <1>1. ArenaType
    BY DEF Init, ArenaType, Statuses, RecordType, NoRecord
  <1>2. InputsType
    BY DEF Init, InputsType, TallyType, NoTally
  <1>3. NoSnapshot \in SnapshotType /\ SnapshotInv("idle", NoSnapshot)
    BY DEF NoSnapshot, SnapshotType, SnapshotInv, Pools
  <1>4. TickType /\ TickInv
    BY <1>3 DEF Init, TickType, TickInv, ResolverSteps
  <1>5. QED
    BY <1>1, <1>2, <1>4, ConfigAssumption DEF Init, TypedTick, TypeOK, SignalsType

\* A tick's step may end the tick or move one resolver on.
LEMMA TickMoves ==
  ASSUME TypedTick, NEW r \in Resolvers,
         NEW step \in ResolverSteps, NEW s \in SnapshotType, SnapshotInv(step, s),
         pc' = [pc EXCEPT ![r] = step], snap' = [snap EXCEPT ![r] = s]
  PROVE  TickType' /\ TickInv'
  BY DEF TypedTick, TypeOK, TickType, TickInv

LEMMA TickEnds ==
  ASSUME TypedTick, NEW r \in Resolvers, EndTick(r)
  PROVE  TickType' /\ TickInv'
  <1>1. NoSnapshot \in SnapshotType /\ SnapshotInv("idle", NoSnapshot)
    BY DEF NoSnapshot, SnapshotType, SnapshotInv, Pools
  <1>2. QED
    BY <1>1, TickMoves DEF EndTick, ResolverSteps

\* The writes of the other workers leave the ticks alone.
LEMMA EnvironmentTyped ==
  ASSUME TypedTick, Environment
  PROVE  TypedTick'
  <1> USE DEF TypedTick, TypeOK
  <1>1. ASSUME NEW s \in Submissions, SeedKing(s) PROVE TypedTick'
    <2>1. ArenaType'
      BY <1>1 DEF SeedKing, ArenaType
    <2>2. QED
      BY <1>1, <2>1 DEF SeedKing, inputs, tick, signals, InputsType, TickType,
                        SignalsType, TickInv
  <1>2. ASSUME NEW s \in Submissions,
               SubmissionEligible(s) \/ RegistrationChanges(s)
        PROVE  TypedTick'
    <2>1. InputsType'
      BY <1>2 DEF SubmissionEligible, RegistrationChanges, InputsType
    <2>2. UNCHANGED <<arena, tick, signals, published, failures>>
      BY <1>2 DEF SubmissionEligible, RegistrationChanges
    <2>3. QED
      BY <2>1, <2>2 DEF arena, tick, signals, ArenaType, TickType, SignalsType,
                        TickInv
  <1>3. ASSUME NEW p \in Pools, TaskQualified(p) PROVE TypedTick'
    <2>1. ReigningKing \in Submissions
      BY <1>3 DEF TaskQualified, ReigningKing, ArenaType
    <2>2. InputsType'
      BY <1>3, <2>1 DEF TaskQualified, InputsType
    <2>3. QED
      BY <1>3, <2>2 DEF TaskQualified, arena, tick, signals, ArenaType, TickType,
                        SignalsType, TickInv
  <1>4. ASSUME NEW c \in Submissions, NEW p \in Pools, JudgementSaved(c, p)
        PROVE  TypedTick'
    <2>1. PICK v \in RoundResults :
            tally' = [tally EXCEPT ![c][p] = Counted(@, v)]
      BY <1>4 DEF JudgementSaved
    <2>2. \A t \in TallyType : Counted(t, v) \in TallyType
      BY ConfigAssumption DEF TallyType, Counted
    <2>3. InputsType'
      BY <1>4, <2>1, <2>2 DEF JudgementSaved, InputsType
    <2>4. QED
      BY <1>4, <2>3 DEF JudgementSaved, arena, tick, signals, ArenaType, TickType,
                        SignalsType, TickInv
  <1>5. QED
    BY <1>1, <1>2, <1>3, <1>4 DEF Environment

\* The statements of the snapshot only fill in the tick's own fields.
LEMMA SnapshotTyped ==
  ASSUME TypedTick, NEW r \in Resolvers, Snapshot(r)
  PROVE  TypedTick'
  <1> DEFINE s == snap[r]
  <1> USE DEF TypedTick, TypeOK
  <1>0. s \in SnapshotType /\ SnapshotInv(pc[r], s)
    BY DEF TickType, TickInv
  <1>1. UNCHANGED <<arena, inputs, published, signals, failures>>
    BY DEF Snapshot, ReadKing, ReadChallenge, ReadCounts, ReadRounds,
           ReadRegistration, ReadPools, ReadNext
  <1>2. TickType' /\ TickInv'
    <2>1. CASE ReadKing(r)
      <3>1. ReigningKing \in Submissions
        BY <2>1 DEF ReadKing, ReigningKing, ArenaType
      <3> DEFINE t == [s EXCEPT !.king = ReigningKing]
      <3>2. t \in SnapshotType /\ SnapshotInv("read_challenge", t)
        BY <1>0, <2>1, <3>1 DEF ReadKing, SnapshotType, SnapshotInv, InputsType, TallyType
      <3>3. pc' = [pc EXCEPT ![r] = "read_challenge"] /\ snap' = [snap EXCEPT ![r] = t]
        BY <2>1 DEF ReadKing
      <3>4. QED
        BY <3>2, <3>3, TickMoves DEF ResolverSteps
    <2>2. CASE ReadChallenge(r)
      <3>1. CASE pc' = [pc EXCEPT ![r] = "read_pools"] /\ UNCHANGED snap
        <4>1. SnapshotInv("read_pools", s) /\ snap' = [snap EXCEPT ![r] = s]
          BY <1>0, <2>2, <3>1 DEF ReadChallenge, SnapshotInv, TickType
        <4>2. QED
          BY <1>0, <3>1, <4>1, TickMoves DEF ResolverSteps
      <3>2. ASSUME NEW c \in ActiveChallengers(s.king),
                   pc' = [pc EXCEPT ![r] = "read_counts"],
                   snap' = [snap EXCEPT ![r].challenger = c, ![r].pool = status[c]]
            PROVE  TickType' /\ TickInv'
        <4> DEFINE t == [s EXCEPT !.challenger = c, !.pool = status[c]]
        <4>1. c \in Submissions /\ status[c] \in Pools
          BY DEF ActiveChallengers
        <4>2. t \in SnapshotType /\ SnapshotInv("read_counts", t)
          BY <1>0, <2>2, <4>1 DEF ReadChallenge, SnapshotType, SnapshotInv
        <4>3. snap' = [snap EXCEPT ![r] = t]
          BY <3>2 DEF TickType
        <4>4. QED
          BY <3>2, <4>2, <4>3, TickMoves DEF ResolverSteps
      <3>3. QED
        BY <2>2, <3>1, <3>2 DEF ReadChallenge
    <2>3. CASE ReadCounts(r)
      <3>1. tally[s.challenger][s.pool] \in TallyType
        BY <1>0, <2>3 DEF ReadCounts, SnapshotInv, InputsType
      <3> DEFINE t == [s EXCEPT
             !.wins = tally[s.challenger][s.pool].wins,
             !.losses = tally[s.challenger][s.pool].losses,
             !.ties = tally[s.challenger][s.pool].ties]
      <3>2. t \in SnapshotType /\ SnapshotInv("read_rounds", t)
        BY <1>0, <2>3, <3>1 DEF ReadCounts, SnapshotType, SnapshotInv, TallyType, Judged
      <3>3. pc' = [pc EXCEPT ![r] = "read_rounds"] /\ snap' = [snap EXCEPT ![r] = t]
        BY <2>3 DEF ReadCounts, TickType
      <3>4. QED
        BY <3>2, <3>3, TickMoves DEF ResolverSteps
    <2>4. CASE ReadRounds(r)
      <3>0. tally[s.challenger][s.pool] \in TallyType
        BY <1>0, <2>4 DEF ReadRounds, SnapshotInv, InputsType
      <3>1. /\ tally[s.challenger][s.pool].delta \in Int
            /\ Judged(tally[s.challenger][s.pool]) \in Nat
        BY <3>0 DEF TallyType, Judged
      <3> DEFINE t == [s EXCEPT
             !.rounds = Judged(tally[s.challenger][s.pool]),
             !.delta = tally[s.challenger][s.pool].delta]
      <3>2. t \in SnapshotType /\ SnapshotInv("read_registration", t)
        BY <1>0, <2>4, <3>1 DEF ReadRounds, SnapshotType, SnapshotInv
      <3>3. pc' = [pc EXCEPT ![r] = "read_registration"] /\ snap' = [snap EXCEPT ![r] = t]
        BY <2>4 DEF ReadRounds, TickType
      <3>4. QED
        BY <3>2, <3>3, TickMoves DEF ResolverSteps
    <2>5. CASE ReadRegistration(r)
      <3> DEFINE t == [s EXCEPT !.registered = Registered(s.challenger)]
      <3>1. t \in SnapshotType /\ SnapshotInv("decide", t)
        BY <1>0, <2>5 DEF ReadRegistration, SnapshotType, SnapshotInv, Registered
      <3>2. QED
        BY <2>5, <3>1, TickMoves DEF ReadRegistration, TickType, ResolverSteps
    <2>6. CASE ReadPools(r)
      <3> DEFINE ready == \A p \in Pools : qualified[s.king][p] >= Target[p]
                 step == IF ready THEN "read_next" ELSE "decide"
                 t == [s EXCEPT !.ready = ready]
      <3>1. t \in SnapshotType /\ SnapshotInv(step, t)
        BY <1>0, <2>6 DEF ReadPools, SnapshotType, SnapshotInv
      <3>2. QED
        BY <2>6, <3>1, TickMoves DEF ReadPools, TickType, ResolverSteps
    <2>7. CASE ReadNext(r)
      <3>1. CASE UNCHANGED snap
        <4>1. SnapshotInv("decide", s) /\ snap' = [snap EXCEPT ![r] = s]
          BY <1>0, <2>7, <3>1 DEF ReadNext, SnapshotInv, TickType
        <4>2. QED
          BY <1>0, <2>7, <4>1, TickMoves DEF ReadNext, ResolverSteps
      <3>2. ASSUME NEW c \in Waiting, snap' = [snap EXCEPT ![r].next = c]
            PROVE  TickType' /\ TickInv'
        <4> DEFINE t == [s EXCEPT !.next = c]
        <4>1. c \in Submissions
          BY DEF Waiting, InputsType
        <4>2. t \in SnapshotType /\ SnapshotInv("decide", t)
          BY <1>0, <2>7, <4>1 DEF ReadNext, SnapshotType, SnapshotInv
        <4>3. QED
          BY <2>7, <3>2, <4>2, TickMoves DEF ReadNext, TickType, ResolverSteps
      <3>3. QED
        BY <2>7, <3>1, <3>2 DEF ReadNext
    <2>8. QED
      BY <2>1, <2>2, <2>3, <2>4, <2>5, <2>6, <2>7 DEF Snapshot
  <1>4. QED
    BY <1>1, <1>2 DEF arena, inputs, signals, ArenaType, InputsType, SignalsType

\* decide fits the action to what the snapshot saw.
LEMMA DueActionFits ==
  ASSUME NEW s \in SnapshotType, SnapshotInv("decide", s), NEW isPaused \in BOOLEAN
  PROVE  LET due == DueAction(s, isPaused) IN
         /\ due \in {"nothing", "open", "advance", "promote", "defend", "forfeit"}
         /\ due = "open" => s.pool = "none" /\ s.next \in Submissions
         /\ due = "advance" => s.pool = "pool_one"
         /\ due = "promote" => s.pool = "pool_two"
         /\ due \in {"defend", "forfeit"} => s.pool \in Pools
  <1>1. CASE s.pool = "none"
    BY <1>1 DEF DueAction, IdleAction, SnapshotType
  <1>2. CASE s.pool \in Pools
    <2>1. Verdict(s) \in {"challenger_won", "king_won", "undecided"}
      BY DEF Verdict, RoundWinsVerdict, MeanVerdict
    <2>2. QED
      BY <1>2, <2>1 DEF DueAction, DuelAction, SnapshotType, Pools
  <1>3. QED
    BY <1>1, <1>2 DEF SnapshotType

LEMMA DecideTyped ==
  ASSUME TypedTick, NEW r \in Resolvers, Decide(r)
  PROVE  TypedTick'
  <1> DEFINE s == snap[r]
             due == DueAction(s, paused[r])
  <1> USE DEF TypedTick, TypeOK
  <1>1. s \in SnapshotType /\ SnapshotInv("decide", s) /\ paused[r] \in BOOLEAN
    BY DEF Decide, TickType, TickInv, SignalsType
  <1>2. UNCHANGED <<arena, inputs, published, paused, failures>>
    BY DEF Decide
  <1>3. CASE due = "nothing"
    <2>1. EndTick(r) /\ drained' \in [Resolvers -> BOOLEAN]
      BY <1>1, <1>3 DEF Decide, SignalsType
    <2>2. TickType' /\ TickInv'
      BY <2>1, TickEnds
    <2>3. QED
      BY <1>2, <2>1, <2>2 DEF arena, inputs, ArenaType, InputsType, SignalsType
  <1>4. CASE due # "nothing"
    <2> DEFINE step == IF due = "promote" /\ PublishMode # "off"
                       THEN "publish" ELSE "apply"
               t == [s EXCEPT !.due = due]
    <2>1. pc' = [pc EXCEPT ![r] = step] /\ snap' = [snap EXCEPT ![r] = t]
      BY <1>4 DEF Decide, TickType
    <2>2. t \in SnapshotType /\ SnapshotInv(step, t)
      <3> HIDE DEF due
      <3>1. t \in SnapshotType /\ t.due = due /\ t.pool = s.pool
            /\ t.next = s.next /\ t.king = s.king /\ t.challenger = s.challenger
        BY <1>1, DueActionFits DEF SnapshotType, due
      <3>2. QED
        BY <1>1, <1>4, <3>1, DueActionFits DEF SnapshotInv, due
    <2>3. TickType' /\ TickInv'
      BY <2>1, <2>2, TickMoves DEF ResolverSteps
    <2>4. UNCHANGED drained
      BY <1>4 DEF Decide
    <2>5. QED
      BY <1>2, <2>3, <2>4 DEF arena, inputs, ArenaType, InputsType, SignalsType
  <1>5. QED
    BY <1>3, <1>4

\* A write ends the tick and keeps the tables' types.
LEMMA RecordTyped ==
  ASSUME TypedTick, NEW s \in SnapshotType, s.challenger \in Submissions,
         s.pool \in Pools, NEW verdict \in Outcomes, RecordResolution(s, verdict)
  PROVE  /\ outcome' \in [Submissions -> [Pools -> Outcomes \cup {"none"}]]
         /\ recorded' \in [Submissions -> [Pools -> RecordType]]
  <1> DEFINE row == [wins |-> s.wins, losses |-> s.losses, ties |-> s.ties,
                     rounds |-> s.rounds, delta |-> s.delta]
  <1>1. row \in RecordType
    BY DEF RecordType, SnapshotType
  <1>2. recorded \in [Submissions -> [Pools -> RecordType]]
    BY DEF TypedTick, TypeOK, ArenaType
  <1>3. recorded' \in [Submissions -> [Pools -> RecordType]]
    <2>1. CASE recorded' = [recorded EXCEPT ![s.challenger][s.pool] = row]
      <3> HIDE DEF row
      <3>1. QED
        BY <1>1, <1>2, <2>1
    <2>2. CASE UNCHANGED recorded
      BY <1>2, <2>2
    <2>3. QED
      BY <2>1, <2>2 DEF RecordResolution
  <1>4. outcome' \in [Submissions -> [Pools -> Outcomes \cup {"none"}]]
    <2>1. outcome \in [Submissions -> [Pools -> Outcomes \cup {"none"}]]
      BY DEF TypedTick, TypeOK, ArenaType
    <2>2. \/ UNCHANGED outcome
          \/ outcome' = [outcome EXCEPT ![s.challenger][s.pool] = verdict]
      BY DEF RecordResolution
    <2>3. QED
      BY <2>1, <2>2
  <1>5. QED
    BY <1>3, <1>4

LEMMA ApplyTyped ==
  ASSUME TypedTick, NEW r \in Resolvers, Apply(r)
  PROVE  TypedTick'
  <1> DEFINE s == snap[r]
  <1> USE DEF TypedTick, TypeOK
  <1>1. s \in SnapshotType /\ SnapshotInv(pc[r], s)
    BY DEF TickType, TickInv
  <1>2. UNCHANGED <<inputs, signals, failures>>
    BY DEF Apply, Publish, OpenChallenge, AdvancePool, CloseChallenge, Promote,
           StaleWrite
  <1>3. TickType' /\ TickInv'
    <2>1. CASE EndTick(r)
      BY <2>1, TickEnds
    <2>2. CASE pc[r] = "publish" /\ pc' = [pc EXCEPT ![r] = "apply"] /\ UNCHANGED snap
      <3>1. SnapshotInv("apply", s) /\ snap' = [snap EXCEPT ![r] = s]
        BY <1>1, <2>2 DEF SnapshotInv, TickType
      <3>2. QED
        BY <1>1, <2>2, <3>1, TickMoves DEF ResolverSteps
    <2>3. QED
      BY <2>1, <2>2 DEF Apply, Publish, OpenChallenge, AdvancePool,
                        CloseChallenge, Promote, StaleWrite
  <1>4. published' \subseteq Submissions
    <2>1. CASE Publish(r)
      BY <1>1, <2>1 DEF Publish, SnapshotInv, Pools
    <2>2. CASE UNCHANGED published
      BY <2>2
    <2>3. QED
      BY <2>1, <2>2 DEF Apply, OpenChallenge, AdvancePool, CloseChallenge,
                        Promote, StaleWrite
  <1>5. ArenaType'
    <2>1. CASE UNCHANGED arena
      BY <2>1 DEF arena, ArenaType
    <2>2. CASE OpenChallenge(r)
      <3>1. s.next \in Submissions /\ s.king \in Submissions
        BY <1>1, <2>2 DEF OpenChallenge, SnapshotInv
      <3>2. QED
        BY <2>2, <3>1 DEF OpenChallenge, ArenaType, Statuses
    <2>3. CASE AdvancePool(r)
      <3>1. s.challenger \in Submissions /\ s.pool \in Pools
        BY <1>1, <2>3 DEF AdvancePool, SnapshotInv, Pools
      <3>2. UNCHANGED <<kings, against>>
            /\ status' = [status EXCEPT ![s.challenger] = "pool_two"]
        BY <2>3 DEF AdvancePool, SetStatus
      <3>3. RecordResolution(s, "challenger_won") /\ "challenger_won" \in Outcomes
        BY <2>3 DEF AdvancePool, Outcomes
      <3>4. QED
        BY <1>1, <3>1, <3>2, <3>3, RecordTyped DEF ArenaType, Statuses
    <2>4. CASE CloseChallenge(r)
      <3>1. s.challenger \in Submissions /\ s.pool \in Pools
        BY <1>1, <2>4 DEF CloseChallenge, SnapshotInv
      <3>2. UNCHANGED <<kings, against>>
            /\ status' = [status EXCEPT ![s.challenger] = "closed"]
        BY <2>4 DEF CloseChallenge, SetStatus
      <3>3. PICK verdict \in Outcomes : RecordResolution(s, verdict)
        BY <2>4 DEF CloseChallenge, Outcomes
      <3>4. QED
        BY <1>1, <3>1, <3>2, <3>3, RecordTyped DEF ArenaType, Statuses
    <2>5. CASE Promote(r)
      <3>1. s.challenger \in Submissions /\ s.pool \in Pools
        BY <1>1, <2>5 DEF Promote, SnapshotInv, Pools
      <3>2. UNCHANGED against
            /\ status' = [status EXCEPT ![s.challenger] = "closed"]
        BY <2>5 DEF Promote, SetStatus
      <3>3. kings' \in Seq(Submissions)
        BY <2>5, <3>1 DEF Promote, ArenaType
      <3>4. RecordResolution(s, "challenger_won") /\ "challenger_won" \in Outcomes
        BY <2>5 DEF Promote, Outcomes
      <3>5. QED
        BY <1>1, <3>1, <3>2, <3>3, <3>4, RecordTyped DEF ArenaType, Statuses
    <2>6. QED
      BY <2>1, <2>2, <2>3, <2>4, <2>5 DEF Apply, Publish, StaleWrite
  <1>6. QED
    BY <1>2, <1>3, <1>4, <1>5 DEF inputs, signals, InputsType, SignalsType

LEMMA FaultsTyped ==
  ASSUME TypedTick, NEW r \in Resolvers,
         TickFails(r) \/ Crash(r) \/ Pause(r) \/ Resume(r)
  PROVE  TypedTick'
  <1> USE DEF TypedTick, TypeOK
  <1>1. UNCHANGED <<arena, inputs, published>>
    BY DEF TickFails, Crash, Pause, Resume
  <1>2. SignalsType' /\ failures' \in Nat
    <2>1. SignalsType'
      BY DEF TickFails, Crash, Pause, Resume, SignalsType, signals
    <2>2. failures' \in {failures, failures + 1}
      BY DEF TickFails, Crash, Pause, Resume
    <2>3. QED
      BY <2>1, <2>2
  <1>3. TickType' /\ TickInv'
    <2>1. CASE EndTick(r)
      BY <2>1, TickEnds
    <2>2. CASE UNCHANGED tick
      BY <2>2 DEF tick, TickType, TickInv
    <2>3. QED
      BY <2>1, <2>2 DEF TickFails, Crash, Pause, Resume
  <1>4. QED
    BY <1>1, <1>2, <1>3 DEF arena, inputs, ArenaType, InputsType

LEMMA NextTypedTick == TypedTick /\ [Next]_vars => TypedTick'
  <1> SUFFICES ASSUME TypedTick, [Next]_vars PROVE TypedTick'
    OBVIOUS
  <1>1. CASE Next
    BY <1>1, EnvironmentTyped, SnapshotTyped, DecideTyped, ApplyTyped, FaultsTyped
    DEF Next, Tick
  <1>2. CASE UNCHANGED vars
    BY <1>2 DEF vars, arena, inputs, tick, signals, TypedTick, TypeOK, ArenaType,
                InputsType, TickType, SignalsType, TickInv
  <1>3. QED
    BY <1>1, <1>2

LEMMA SpecTypedTick == Spec => []TypedTick
  BY InitTypedTick, NextTypedTick, PTL DEF Spec

\* Every variable keeps its type.
THEOREM TypeCorrectness == Spec => []TypeOK
  <1>1. TypedTick => TypeOK
    BY DEF TypedTick
  <1>2. QED
    BY <1>1, SpecTypedTick, PTL

-----------------------------------------------------------------------------
\* One reading of the write transactions for all the proofs below: a challenge
\* is opened, cleared, closed or crowned, or the arena is left alone.
Opens(c, k) ==
  /\ status[c] = "none"
  /\ status' = [status EXCEPT ![c] = "pool_one"]
  /\ against' = [against EXCEPT ![c] = k]
  /\ UNCHANGED <<kings, outcome, recorded>>

Resolves(c, p, new, verdict) ==
  /\ status[c] = p
  /\ status' = [status EXCEPT ![c] = new]
  /\ IF outcome[c][p] = "none"
     THEN /\ outcome' = [outcome EXCEPT ![c][p] = verdict]
          /\ \E row \in RecordType :
               recorded' = [recorded EXCEPT ![c][p] = row]
     ELSE UNCHANGED <<outcome, recorded>>
  /\ UNCHANGED against

Clears(c) ==
  Resolves(c, "pool_one", "pool_two", "challenger_won") /\ UNCHANGED kings

Closes(c) ==
  /\ \E p \in Pools, v \in {"king_won", "challenger_deregistered"} :
       Resolves(c, p, "closed", v)
  /\ UNCHANGED kings

Crowns(c) ==
  /\ Resolves(c, "pool_two", "closed", "challenger_won")
  /\ kings' = IF c \in KingSet THEN kings ELSE Append(kings, c)

ArenaStep(r) ==
  LET s == snap[r] IN
  \/ s.due = "open" /\ Opens(s.next, s.king)
  \/ s.due = "advance" /\ Clears(s.challenger)
  \/ s.due \in {"defend", "forfeit"} /\ Closes(s.challenger)
  \/ s.due = "promote" /\ Crowns(s.challenger)

LEMMA ApplyArena ==
  ASSUME TypedTick, NEW r \in Resolvers, Apply(r)
  PROVE  \/ UNCHANGED arena
         \/ /\ pc[r] = "apply"
            /\ ArenaStep(r)
            /\ EndTick(r)
            /\ UNCHANGED <<inputs, published, signals, failures>>
            /\ snap[r].due = "open" =>
                 snap[r].next \in Submissions /\ snap[r].king \in Submissions
            /\ snap[r].due # "open" => snap[r].challenger \in Submissions
  <1> DEFINE s == snap[r]
             row == [wins |-> s.wins, losses |-> s.losses, ties |-> s.ties,
                     rounds |-> s.rounds, delta |-> s.delta]
  <1>1. s \in SnapshotType /\ SnapshotInv(pc[r], s)
    BY DEF TypedTick, TypeOK, TickType, TickInv
  <1>2. row \in RecordType
    BY <1>1 DEF SnapshotType, RecordType
  <1>3. CASE OpenChallenge(r)
    BY <1>1, <1>3 DEF OpenChallenge, arena, ArenaStep, Opens, SnapshotInv
  <1>4. ASSUME NEW new, NEW verdict, SetStatus(s, new), RecordResolution(s, verdict),
               UNCHANGED against
        PROVE  Resolves(s.challenger, s.pool, new, verdict)
    BY <1>2, <1>4 DEF SetStatus, RecordResolution, Resolves
  <1>5. CASE AdvancePool(r)
    <2>1. Clears(s.challenger)
      BY <1>1, <1>4, <1>5 DEF AdvancePool, Clears, SnapshotInv
    <2>2. QED
      BY <1>1, <1>5, <2>1 DEF AdvancePool, ArenaStep, SnapshotInv, Pools
  <1>6. CASE CloseChallenge(r)
    <2>1. Closes(s.challenger)
      BY <1>1, <1>4, <1>6 DEF CloseChallenge, Closes, SnapshotInv
    <2>2. QED
      BY <1>1, <1>6, <2>1 DEF CloseChallenge, ArenaStep, SnapshotInv
  <1>7. CASE Promote(r)
    <2>1. Crowns(s.challenger)
      BY <1>1, <1>4, <1>7 DEF Promote, Crowns, SnapshotInv
    <2>2. QED
      BY <1>1, <1>7, <2>1 DEF Promote, ArenaStep, SnapshotInv, Pools
  <1>8. CASE Publish(r) \/ StaleWrite(r)
    BY <1>8 DEF Publish, StaleWrite, arena
  <1>9. QED
    BY <1>3, <1>5, <1>6, <1>7, <1>8 DEF Apply

\* Besides the writes above, only the operator's first crown changes the arena.
LEMMA NextArena ==
  ASSUME TypedTick, [Next]_vars
  PROVE  \/ UNCHANGED arena
         \/ /\ kings = <<>>
            /\ \E s \in Submissions : kings' = <<s>>
            /\ UNCHANGED <<status, against, outcome, recorded>>
         \/ \E c, k \in Submissions : Opens(c, k)
         \/ \E c \in Submissions : Clears(c) \/ Closes(c) \/ Crowns(c)
  <1>1. CASE Environment
    BY <1>1 DEF Environment, SeedKing, SubmissionEligible, RegistrationChanges,
                TaskQualified, JudgementSaved, arena
  <1>2. ASSUME NEW r \in Resolvers, Apply(r)
        PROVE  \/ UNCHANGED arena
               \/ \E c, k \in Submissions : Opens(c, k)
               \/ \E c \in Submissions : Clears(c) \/ Closes(c) \/ Crowns(c)
    BY <1>2, ApplyArena DEF ArenaStep
  <1>3. ASSUME NEW r \in Resolvers,
               \/ Snapshot(r) \/ Decide(r)
               \/ TickFails(r) \/ Crash(r) \/ Pause(r) \/ Resume(r)
        PROVE  UNCHANGED arena
    BY <1>3 DEF Snapshot, ReadKing, ReadChallenge, ReadCounts, ReadRounds,
                ReadRegistration, ReadPools, ReadNext, Decide, TickFails, Crash,
                Pause, Resume
  <1>4. CASE UNCHANGED vars
    BY <1>4 DEF vars
  <1>5. QED
    BY <1>1, <1>2, <1>3, <1>4 DEF Next, Tick

-----------------------------------------------------------------------------
LEMMA InitLedger == Init => VerdictLedger
  BY DEF Init, VerdictLedger, Pools, KingSet

LEMMA NextLedger ==
  ASSUME TypedTick, VerdictLedger, [Next]_vars
  PROVE  VerdictLedger'
  <1> USE DEF VerdictLedger
  <1>1. ArenaType /\ kings \in Seq(Submissions)
    BY DEF TypedTick, TypeOK, ArenaType
  <1>2. CASE UNCHANGED arena
    BY <1>2 DEF arena, KingSet
  <1>3. ASSUME kings = <<>>, UNCHANGED <<status, against, outcome, recorded>>
        PROVE  VerdictLedger'
    <2>1. KingSet = {}
      BY <1>3 DEF KingSet
    <2>2. QED
      BY <1>3, <2>1
  <1>4. ASSUME NEW c \in Submissions, NEW k \in Submissions, Opens(c, k)
        PROVE  VerdictLedger'
    BY <1>1, <1>4 DEF Opens, ArenaType, KingSet
  <1>5. ASSUME NEW c \in Submissions, Clears(c)
        PROVE  VerdictLedger'
    BY <1>1, <1>5 DEF Clears, Resolves, ArenaType, KingSet, Pools
  <1>6. ASSUME NEW c \in Submissions, Closes(c)
        PROVE  VerdictLedger'
    BY <1>1, <1>6 DEF Closes, Resolves, ArenaType, KingSet, Pools
  <1>7. ASSUME NEW c \in Submissions, Crowns(c)
        PROVE  VerdictLedger'
    <2>1. KingSet \subseteq KingSet' /\ c \in KingSet'
      BY <1>1, <1>7 DEF Crowns, KingSet
    <2>2. /\ status[c] = "pool_two"
          /\ status' = [status EXCEPT ![c] = "closed"]
          /\ outcome' = [outcome EXCEPT ![c]["pool_two"] = "challenger_won"]
      BY <1>7 DEF Crowns, Resolves
    <2>3. QED
      BY <1>1, <2>1, <2>2 DEF ArenaType, Pools
  <1>8. QED
    BY <1>2, <1>3, <1>4, <1>5, <1>6, <1>7, NextArena

LEMMA SpecLedger == Spec => []VerdictLedger
  <1>1. TypedTick /\ VerdictLedger /\ [Next]_vars => VerdictLedger'
    BY NextLedger
  <1>2. QED
    BY <1>1, InitLedger, SpecTypedTick, PTL DEF Spec

\* status, duel_resolutions and kings tell one story, and every column keeps its
\* type, whatever the number of resolver processes that interleave.
THEOREM LedgerIsConsistent == Spec => []LedgerInvariant
  <1>1. TypeOK /\ VerdictLedger => LedgerInvariant
    BY DEF LedgerInvariant
  <1>2. QED
    BY <1>1, TypeCorrectness, SpecLedger, PTL

\* Crowns, verdicts and opponents are written once and a challenge only moves
\* forward, whatever the number of resolver processes.
THEOREM HistoryIsAppendOnly == Spec => AppendOnly
  <1> DEFINE A == /\ \A i \in DOMAIN kings : i \in DOMAIN kings' /\ kings'[i] = kings[i]
                  /\ \A c \in Submissions :
                       /\ status[c] # "none" => against'[c] = against[c]
                       /\ <<status[c], status'[c]>> \in
                            {<<"none", "pool_one">>, <<"pool_one", "pool_two">>,
                             <<"pool_one", "closed">>, <<"pool_two", "closed">>}
                          \/ status'[c] = status[c]
                       /\ \A p \in Pools : outcome[c][p] # "none" =>
                            /\ outcome'[c][p] = outcome[c][p]
                            /\ recorded'[c][p] = recorded[c][p]
  <1>1. ASSUME TypedTick, [Next]_vars PROVE [A]_arena
    <2>1. ArenaType
      BY <1>1 DEF TypedTick, TypeOK
    <2>2. ASSUME kings = <<>>, UNCHANGED <<status, against, outcome, recorded>>
          PROVE  A
      <3>1. DOMAIN kings = {}
        BY <2>2
      <3>2. QED
        BY <2>2, <3>1
    <2>3. ASSUME NEW c \in Submissions, NEW k \in Submissions, Opens(c, k)
          PROVE  A
      BY <2>1, <2>3 DEF Opens, ArenaType
    <2>4. ASSUME NEW c \in Submissions, Clears(c)
          PROVE  A
      BY <2>1, <2>4 DEF Clears, Resolves, ArenaType, Pools
    <2>5. ASSUME NEW c \in Submissions, Closes(c)
          PROVE  A
      BY <2>1, <2>5 DEF Closes, Resolves, ArenaType, Pools
    <2>6. ASSUME NEW c \in Submissions, Crowns(c)
          PROVE  A
      <3>1. \A i \in DOMAIN kings : i \in DOMAIN kings' /\ kings'[i] = kings[i]
        BY <2>1, <2>6 DEF Crowns, ArenaType
      <3>2. Resolves(c, "pool_two", "closed", "challenger_won")
        BY <2>6 DEF Crowns
      <3>3. QED
        BY <2>1, <3>1, <3>2 DEF Resolves, ArenaType, Pools
    <2>7. QED
      BY <1>1, <2>2, <2>3, <2>4, <2>5, <2>6, NextArena DEF arena
  <1>2. TypedTick /\ [Next]_vars => [A]_arena
    BY <1>1
  <1>3. QED
    BY <1>2, SpecTypedTick, PTL DEF Spec, AppendOnly

-----------------------------------------------------------------------------
(***************************************************************************)
(* Verdicts and publications, for both scoring methods: a verdict decided  *)
(* on a stale or torn read of a pool is still the verdict of the whole     *)
(* pool, because judgements only accumulate, never past the target, and    *)
(* the rules look at the rounds still open.                                *)
(***************************************************************************)

\* What the rules say of a pool on the judgements stored so far.
StoredVerdict(c, p) ==
  LET t == tally[c][p] IN
  IF ScoringMethod = "round_wins"
  THEN RoundWinsVerdict(t, Target[p], RoundWinMargin)
  ELSE MeanVerdict(t, Target[p], t.delta, Judged(t), MeanScoreMargin)

\* No pool holds more qualified tasks or judgements than its target, and a
\* challenge has an opponent.
BoundInv ==
  /\ \A k \in Submissions, p \in Pools : qualified[k][p] <= Target[p]
  /\ \A c \in Submissions, p \in Pools : Judged(tally[c][p]) <= Target[p]
  /\ \A c \in Submissions : status[c] # "none" => against[c] \in Submissions

\* A tick has seen no more judgements than there are, and once it has seen every
\* round of the pool its scores are those of the whole pool.
Seen(step, s) ==
  s.pool \in Pools =>
    LET t == tally[s.challenger][s.pool] IN
    /\ s.wins <= t.wins /\ s.losses <= t.losses /\ s.ties <= t.ties
    /\ step \notin {"read_counts", "read_rounds"} /\ Judged(s) >= Target[s.pool] =>
         s.rounds = Judged(t) /\ s.delta = t.delta
    /\ s.due \in {"advance", "promote"} => Verdict(s) = "challenger_won"
    /\ s.due = "defend" => Verdict(s) = "king_won"

\* Before the counts are read they are zero.
SeenInv ==
  \A r \in Resolvers :
    /\ Seen(pc[r], snap[r])
    /\ pc[r] \in {"idle", "read_challenge", "read_counts"} =>
         snap[r].wins = 0 /\ snap[r].losses = 0 /\ snap[r].ties = 0

\* A stored verdict agrees with the stored judgements.
OutcomeInv ==
  \A c \in Submissions, p \in Pools :
    outcome[c][p] \in {"king_won", "challenger_won"} =>
      StoredVerdict(c, p) = outcome[c][p]

VerdictInv == BoundInv /\ SeenInv /\ OutcomeInv

-----------------------------------------------------------------------------
\* Judgements that arrive later never overturn a decided round-wins verdict.
LEMMA RoundWinsIsStable ==
  ASSUME NEW target \in Nat, NEW margin \in Nat,
         NEW t, NEW u, Judged(u) <= target,
         t.wins \in Nat, t.losses \in Nat, t.ties \in Nat,
         u.wins \in Nat, u.losses \in Nat, u.ties \in Nat,
         t.wins <= u.wins, t.losses <= u.losses, t.ties <= u.ties,
         RoundWinsVerdict(t, target, margin) # "undecided"
  PROVE  RoundWinsVerdict(u, target, margin) = RoundWinsVerdict(t, target, margin)
  BY DEF RoundWinsVerdict, ChallengerIsUnbeatable, ChallengerCannotCatch,
         ChallengerWins, Remaining, Judged

\* With no round open the round-wins verdict is who won the pool.
LEMMA RoundWinsAtTarget ==
  ASSUME NEW target \in Nat, NEW margin \in Nat, NEW t, Judged(t) = target,
         t.wins \in Nat, t.losses \in Nat, t.ties \in Nat
  PROVE  RoundWinsVerdict(t, target, margin) =
           IF ChallengerWins(t.wins, t.losses, margin) THEN "challenger_won"
           ELSE "king_won"
  BY DEF RoundWinsVerdict, ChallengerIsUnbeatable, ChallengerCannotCatch,
         ChallengerWins, Remaining, Judged

\* A mean verdict exists only when every round is judged.
LEMMA MeanNeedsEveryRound ==
  ASSUME NEW target \in Nat, NEW margin, NEW delta, NEW rounds, NEW t,
         t.wins \in Nat, t.losses \in Nat, t.ties \in Nat,
         MeanVerdict(t, target, delta, rounds, margin) # "undecided"
  PROVE  Judged(t) >= target
  BY DEF MeanVerdict, Remaining, Judged

\* A verdict decided on what a tick has seen is the one the stored judgements give.
LEMMA SeenVerdict ==
  ASSUME TypedTick, BoundInv, SeenInv, NEW r \in Resolvers, snap[r].pool \in Pools,
         pc[r] \notin {"read_counts", "read_rounds"},
         Verdict(snap[r]) # "undecided"
  PROVE  StoredVerdict(snap[r].challenger, snap[r].pool) = Verdict(snap[r])
  <1> DEFINE s == snap[r]
             t == tally[s.challenger][s.pool]
  <1>1. s \in SnapshotType /\ s.challenger \in Submissions
    BY DEF TypedTick, TypeOK, TickType, TickInv, SnapshotInv
  <1>2. t \in TallyType
    BY <1>1 DEF TypedTick, TypeOK, InputsType
  <1>3. /\ s.wins \in Nat /\ s.losses \in Nat /\ s.ties \in Nat
        /\ t.wins \in Nat /\ t.losses \in Nat /\ t.ties \in Nat
        /\ s.wins <= t.wins /\ s.losses <= t.losses /\ s.ties <= t.ties
        /\ Judged(t) <= Target[s.pool] /\ Target[s.pool] \in Nat
    BY <1>1, <1>2, ConfigAssumption DEF SnapshotType, TallyType, SeenInv, Seen, BoundInv
  <1> HIDE DEF s, t
  <1>4. CASE ScoringMethod = "round_wins"
    <2>1. RoundWinsVerdict(s, Target[s.pool], RoundWinMargin) # "undecided"
      BY <1>4 DEF Verdict, s
    <2>2. RoundWinsVerdict(t, Target[s.pool], RoundWinMargin) =
            RoundWinsVerdict(s, Target[s.pool], RoundWinMargin)
      BY <1>3, <2>1, RoundWinsIsStable, ConfigAssumption
    <2>3. QED
      BY <1>4, <2>2 DEF StoredVerdict, Verdict, s, t
  <1>5. CASE ScoringMethod # "round_wins"
    <2>1. MeanVerdict(s, Target[s.pool], s.delta, s.rounds, MeanScoreMargin) # "undecided"
      BY <1>5 DEF Verdict, s
    <2>2. Judged(s) >= Target[s.pool]
      BY <1>3, <2>1, MeanNeedsEveryRound
    <2>3. s.rounds = Judged(t) /\ s.delta = t.delta
      BY <2>2 DEF SeenInv, Seen, s, t
    <2>4. Remaining(s, Target[s.pool]) = 0 /\ Remaining(t, Target[s.pool]) = 0
      BY <1>3, <2>2 DEF Remaining, Judged
    <2>5. QED
      BY <1>5, <2>3, <2>4 DEF StoredVerdict, Verdict, MeanVerdict, s, t
  <1>6. QED
    BY <1>4, <1>5

-----------------------------------------------------------------------------
\* Each table has one writer among the actions.
LEMMA WhoWrites ==
  ASSUME [Next]_vars
  PROVE  /\ \/ UNCHANGED tally
            \/ \E c \in Submissions, p \in Pools : JudgementSaved(c, p)
         /\ UNCHANGED qualified \/ \E p \in Pools : TaskQualified(p)
         /\ UNCHANGED outcome \/ \E r \in Resolvers : Apply(r)
         /\ UNCHANGED published \/ \E r \in Resolvers : Publish(r)
         /\ \/ UNCHANGED kings
            \/ \E s \in Submissions : SeedKing(s)
            \/ \E r \in Resolvers : Promote(r)
  <1> DEFINE Keep == UNCHANGED <<tally, qualified, outcome, published, kings>>
  <1>1. ASSUME UNCHANGED vars PROVE Keep
    BY <1>1 DEF vars, arena, inputs
  <1>2. ASSUME Environment
        PROVE  /\ \/ UNCHANGED tally
                  \/ \E c \in Submissions, p \in Pools : JudgementSaved(c, p)
               /\ UNCHANGED qualified \/ \E p \in Pools : TaskQualified(p)
               /\ UNCHANGED <<outcome, published>>
               /\ UNCHANGED kings \/ \E s \in Submissions : SeedKing(s)
    BY <1>2 DEF Environment, SeedKing, SubmissionEligible, RegistrationChanges,
                TaskQualified, JudgementSaved, arena, inputs
  <1>3. ASSUME NEW r \in Resolvers, Snapshot(r) \/ Decide(r)
        PROVE  Keep
    BY <1>3 DEF Snapshot, ReadKing, ReadChallenge, ReadCounts, ReadRounds,
                ReadRegistration, ReadPools, ReadNext, Decide, arena, inputs
  <1>4. ASSUME NEW r \in Resolvers, TickFails(r) \/ Crash(r) \/ Pause(r) \/ Resume(r)
        PROVE  Keep
    BY <1>4 DEF TickFails, Crash, Pause, Resume, arena, inputs
  <1>5. ASSUME NEW r \in Resolvers, Apply(r)
        PROVE  /\ UNCHANGED <<tally, qualified>>
               /\ UNCHANGED published \/ Publish(r)
               /\ UNCHANGED kings \/ Promote(r)
    BY <1>5 DEF Apply, Publish, OpenChallenge, AdvancePool, CloseChallenge, Promote,
                StaleWrite, arena, inputs
  <1>6. CASE \E r \in Resolvers : Snapshot(r) \/ Decide(r) \/ TickFails(r) \/ Crash(r) \/ Pause(r) \/ Resume(r)
    BY <1>3, <1>4, <1>6
  <1>7. CASE \E r \in Resolvers : Apply(r)
    BY <1>5, <1>7
  <1>8. QED
    BY <1>1, <1>2, <1>6, <1>7 DEF Next, Tick

LEMMA InitVerdict == Init => VerdictInv
  <1> SUFFICES ASSUME Init PROVE VerdictInv
    OBVIOUS
  <1>1. BoundInv
    BY ConfigAssumption DEF Init, BoundInv, Judged, NoTally
  <1>2. SeenInv
    BY DEF Init, SeenInv, Seen, NoSnapshot, Pools
  <1>3. OutcomeInv
    BY DEF Init, OutcomeInv
  <1>4. QED
    BY <1>1, <1>2, <1>3 DEF VerdictInv

\* A judgement adds one round to a pool that is not full.
LEMMA JudgementGrows ==
  ASSUME TypedTick, VerdictLedger, BoundInv,
         NEW c \in Submissions, NEW p \in Pools, JudgementSaved(c, p)
  PROVE  LET t == tally[c][p]
             u == tally'[c][p] IN
         /\ t \in TallyType /\ u \in TallyType
         /\ t.wins <= u.wins /\ t.losses <= u.losses /\ t.ties <= u.ties
         /\ Judged(t) < Target[p] /\ Judged(u) <= Target[p]
         /\ \A d \in Submissions, q \in Pools :
              d # c \/ q # p => tally'[d][q] = tally[d][q]
  <1> DEFINE t == tally[c][p]
  <1>1. PICK v \in RoundResults : tally' = [tally EXCEPT ![c][p] = Counted(@, v)]
    BY DEF JudgementSaved
  <1>2. tally \in [Submissions -> [Pools -> TallyType]] /\ t \in TallyType
    BY DEF TypedTick, TypeOK, InputsType
  <1>3. status[c] # "none"
    BY DEF JudgementSaved, VerdictLedger, Pools
  <1>4. Judged(t) < Target[p]
    <2>1. against[c] \in Submissions
      BY <1>3 DEF BoundInv
    <2>2. Judged(t) < qualified[against[c]][p] /\ qualified[against[c]][p] <= Target[p]
          /\ qualified[against[c]][p] \in Nat
      BY <2>1 DEF JudgementSaved, BoundInv, TypedTick, TypeOK, InputsType
    <2>3. Judged(t) \in Nat /\ Target[p] \in Nat
      BY <1>2, ConfigAssumption DEF TallyType, Judged
    <2>4. QED
      BY <2>2, <2>3
  <1>5. /\ Counted(t, v) \in TallyType /\ Judged(Counted(t, v)) = Judged(t) + 1
        /\ t.wins <= Counted(t, v).wins /\ t.losses <= Counted(t, v).losses
        /\ t.ties <= Counted(t, v).ties
    <2>1. v.winner \in {"challenger", "king", "tie"} /\ v.delta \in Int
      BY ConfigAssumption
    <2>2. t.wins \in Nat /\ t.losses \in Nat /\ t.ties \in Nat /\ t.delta \in Int
      BY <1>2 DEF TallyType
    <2> DEFINE u == Counted(t, v)
    <2>3. PICK w, l, e \in {0, 1} :
            /\ w + l + e = 1
            /\ u = [wins |-> t.wins + w, losses |-> t.losses + l,
                    ties |-> t.ties + e, delta |-> t.delta + v.delta]
      BY <2>1 DEF Counted
    <2> HIDE DEF u, t
    <2>4. \A a, b \in Nat, i, j, k \in {0, 1}, g \in Nat : i + j + k = 1 =>
            /\ a <= a + i /\ a + i \in Nat
            /\ (a + i) + (b + j) + (g + k) = a + b + g + 1
      OBVIOUS
    <2>5. /\ u.wins = t.wins + w /\ u.losses = t.losses + l /\ u.ties = t.ties + e
      BY <2>3
    <2>6. /\ u.wins \in Nat /\ u.losses \in Nat /\ u.ties \in Nat
          /\ t.delta + v.delta \in Int
          /\ t.wins <= u.wins /\ t.losses <= u.losses /\ t.ties <= u.ties
          /\ u.wins + u.losses + u.ties = t.wins + t.losses + t.ties + 1
      BY <2>4, <2>1, <2>2, <2>3, <2>5
    <2>7. u \in TallyType
      BY <2>2, <2>3, <2>6 DEF TallyType
    <2>8. QED
      BY <2>6, <2>7 DEF Judged, u
  <1>6. tally'[c][p] = Counted(t, v)
    BY <1>1, <1>2
  <1>7. \A d \in Submissions, q \in Pools :
          d # c \/ q # p => tally'[d][q] = tally[d][q]
    BY <1>1, <1>2
  <1>8. Judged(t) \in Int /\ Target[p] \in Int
    BY <1>2, ConfigAssumption DEF TallyType, Judged
  <1>9. QED
    BY <1>2, <1>4, <1>5, <1>6, <1>7, <1>8

\* A later judgement leaves a decided pool's verdict as it is.
LEMMA JudgementKeepsVerdict ==
  ASSUME TypedTick, VerdictLedger, BoundInv,
         NEW c \in Submissions, NEW p \in Pools, JudgementSaved(c, p),
         NEW d \in Submissions, NEW q \in Pools, StoredVerdict(d, q) # "undecided"
  PROVE  StoredVerdict(d, q)' = StoredVerdict(d, q)
  <1> DEFINE t == tally[c][p]
             u == tally'[c][p]
  <1>1. /\ t \in TallyType /\ u \in TallyType
        /\ t.wins <= u.wins /\ t.losses <= u.losses /\ t.ties <= u.ties
        /\ Judged(t) < Target[p] /\ Judged(u) <= Target[p]
        /\ \A e \in Submissions, o \in Pools :
             e # c \/ o # p => tally'[e][o] = tally[e][o]
    BY JudgementGrows
  <1>2. CASE d # c \/ q # p
    BY <1>1, <1>2 DEF StoredVerdict
  <1>3. CASE d = c /\ q = p
    <2>1. /\ t.wins \in Nat /\ t.losses \in Nat /\ t.ties \in Nat
          /\ u.wins \in Nat /\ u.losses \in Nat /\ u.ties \in Nat
          /\ Target[p] \in Nat
      BY <1>1, ConfigAssumption DEF TallyType
    <2>2. CASE ScoringMethod = "round_wins"
      <3> HIDE DEF t, u
      <3>1. RoundWinsVerdict(t, Target[p], RoundWinMargin) # "undecided"
        BY <1>3, <2>2 DEF StoredVerdict, t
      <3>2. RoundWinsVerdict(u, Target[p], RoundWinMargin) =
              RoundWinsVerdict(t, Target[p], RoundWinMargin)
        BY <1>1, <2>1, <3>1, RoundWinsIsStable, ConfigAssumption
      <3>3. QED
        BY <1>3, <2>2, <3>2 DEF StoredVerdict, t, u
    <2>3. CASE ScoringMethod # "round_wins"
      <3> HIDE DEF t, u
      <3>1. MeanVerdict(t, Target[p], t.delta, Judged(t), MeanScoreMargin) # "undecided"
        BY <1>3, <2>3 DEF StoredVerdict, t
      <3>2. Judged(t) >= Target[p]
        BY <2>1, <3>1, MeanNeedsEveryRound
      <3>3. QED
        BY <1>1, <2>1, <3>2 DEF Judged
    <2>4. QED
      BY <2>2, <2>3
  <1>4. QED
    BY <1>2, <1>3

-----------------------------------------------------------------------------
LEMMA NextBound ==
  ASSUME TypedTick, VerdictLedger, BoundInv, [Next]_vars
  PROVE  BoundInv'
  <1>1. \A k \in Submissions, p \in Pools : qualified'[k][p] <= Target[p]
    <2>1. CASE UNCHANGED qualified
      BY <2>1 DEF BoundInv
    <2>2. ASSUME NEW p \in Pools, TaskQualified(p)
          PROVE  \A k \in Submissions, q \in Pools : qualified'[k][q] <= Target[q]
      <3>1. ReigningKing \in Submissions
        BY <2>2 DEF TaskQualified, ReigningKing, TypedTick, TypeOK, ArenaType
      <3>2. qualified[ReigningKing][p] + 1 <= Target[p]
        BY <2>2, <3>1, ConfigAssumption DEF TaskQualified, TypedTick, TypeOK, InputsType
      <3>3. QED
        BY <2>2, <3>1, <3>2
        DEF TaskQualified, BoundInv, TypedTick, TypeOK, InputsType
    <2>3. QED
      BY <2>1, <2>2, WhoWrites
  <1>2. \A c \in Submissions, p \in Pools : Judged(tally'[c][p]) <= Target[p]
    <2>1. CASE UNCHANGED tally
      BY <2>1 DEF BoundInv
    <2>2. ASSUME NEW c \in Submissions, NEW p \in Pools, JudgementSaved(c, p)
          PROVE  \A d \in Submissions, q \in Pools : Judged(tally'[d][q]) <= Target[q]
      BY <2>2, JudgementGrows DEF BoundInv
    <2>3. QED
      BY <2>1, <2>2, WhoWrites
  <1>3. \A c \in Submissions : status'[c] # "none" => against'[c] \in Submissions
    <2>1. ArenaType
      BY DEF TypedTick, TypeOK
    <2>2. CASE UNCHANGED <<status, against>>
      BY <2>2 DEF BoundInv
    <2>3. ASSUME NEW c \in Submissions, NEW k \in Submissions, Opens(c, k)
          PROVE  \A d \in Submissions : status'[d] # "none" => against'[d] \in Submissions
      BY <2>1, <2>3 DEF Opens, BoundInv, ArenaType
    <2>4. ASSUME NEW c \in Submissions, Clears(c) \/ Closes(c) \/ Crowns(c)
          PROVE  \A d \in Submissions : status'[d] # "none" => against'[d] \in Submissions
      BY <2>1, <2>4 DEF Clears, Closes, Crowns, Resolves, BoundInv, ArenaType, Pools
    <2>5. QED
      BY <2>2, <2>3, <2>4, NextArena DEF arena
  <1>4. QED
    BY <1>1, <1>2, <1>3 DEF BoundInv

LEMMA SeenMoves ==
  ASSUME TypedTick, SeenInv, UNCHANGED tally, NEW r \in Resolvers, NEW step, NEW s,
         Seen(step, s),
         step \in {"idle", "read_challenge", "read_counts"} =>
           s.wins = 0 /\ s.losses = 0 /\ s.ties = 0,
         pc' = [pc EXCEPT ![r] = step], snap' = [snap EXCEPT ![r] = s]
  PROVE  SeenInv'
  <1>1. /\ \A q \in Resolvers \ {r} : pc'[q] = pc[q] /\ snap'[q] = snap[q]
        /\ pc'[r] = step /\ snap'[r] = s
    BY DEF TypedTick, TypeOK, TickType
  <1>2. ASSUME NEW q \in Resolvers
        PROVE  /\ Seen(pc[q], snap[q])'
               /\ pc'[q] \in {"idle", "read_challenge", "read_counts"} =>
                    snap'[q].wins = 0 /\ snap'[q].losses = 0 /\ snap'[q].ties = 0
    <2>1. PICK a, b : a = pc'[q] /\ b = snap'[q]
      OBVIOUS
    <2>2. /\ Seen(a, b)
          /\ a \in {"idle", "read_challenge", "read_counts"} => b.wins = 0 /\ b.losses = 0 /\ b.ties = 0
      <3>1. CASE q = r
        BY <1>1, <2>1, <3>1
      <3>2. CASE q # r
        BY <1>1, <2>1, <3>2 DEF SeenInv
      <3>3. QED
        BY <3>1, <3>2
    <2>3. Seen(pc[q], snap[q])'
      BY <2>1, <2>2 DEF Seen
    <2>4. QED
      BY <2>1, <2>2, <2>3
  <1>3. QED
    BY <1>2 DEF SeenInv

LEMMA SeenEnds ==
  ASSUME TypedTick, SeenInv, UNCHANGED tally, NEW r \in Resolvers, EndTick(r)
  PROVE  SeenInv'
  <1>1. Seen("idle", NoSnapshot)
        /\ NoSnapshot.wins = 0 /\ NoSnapshot.losses = 0 /\ NoSnapshot.ties = 0
    BY DEF Seen, NoSnapshot, Pools
  <1>2. QED
    BY <1>1, SeenMoves DEF EndTick

LEMMA EnvironmentSeen ==
  ASSUME TypedTick, VerdictLedger, BoundInv, SeenInv, Environment
  PROVE  SeenInv'
  <1>1. CASE UNCHANGED <<tally, tick>>
    BY <1>1 DEF SeenInv, Seen, tick
  <1>2. ASSUME NEW c \in Submissions, NEW p \in Pools, JudgementSaved(c, p)
        PROVE  SeenInv'
    <2> SUFFICES ASSUME NEW r \in Resolvers
                 PROVE  /\ Seen(pc[r], snap[r])'
                        /\ pc'[r] \in {"idle", "read_challenge", "read_counts"} =>
                             /\ snap'[r].wins = 0 /\ snap'[r].losses = 0
                             /\ snap'[r].ties = 0
      BY DEF SeenInv
    <2> DEFINE s == snap[r]
               t == tally[s.challenger][s.pool]
               u == tally'[s.challenger][s.pool]
    <2>1. UNCHANGED tick /\ UNCHANGED <<pc, snap>>
      BY <1>2 DEF JudgementSaved, tick
    <2>2. ASSUME s.pool \in Pools
          PROVE  Seen(pc[r], snap[r])'
      <3>1. s \in SnapshotType /\ s.challenger \in Submissions
        BY <2>2 DEF TypedTick, TypeOK, TickType, TickInv, SnapshotInv
      <3>2. /\ t \in TallyType /\ u \in TallyType
            /\ t.wins <= u.wins /\ t.losses <= u.losses /\ t.ties <= u.ties
            /\ u = t \/ Judged(t) < Target[s.pool]
        <4>1. CASE s.challenger = c /\ s.pool = p
          BY <1>2, <4>1, JudgementGrows
        <4>2. CASE s.challenger # c \/ s.pool # p
          <5>1. u = t
            BY <1>2, <2>2, <3>1, <4>2, JudgementGrows
          <5>2. t \in TallyType
            BY <2>2, <3>1 DEF TypedTick, TypeOK, InputsType
          <5>3. QED
            BY <5>1, <5>2 DEF TallyType
        <4>3. QED
          BY <4>1, <4>2
      <3>3. /\ s.wins \in Nat /\ s.losses \in Nat /\ s.ties \in Nat
            /\ t.wins \in Nat /\ t.losses \in Nat /\ t.ties \in Nat
            /\ u.wins \in Nat /\ u.losses \in Nat /\ u.ties \in Nat
            /\ s.wins <= t.wins /\ s.losses <= t.losses /\ s.ties <= t.ties
            /\ Target[s.pool] \in Nat
        BY <2>2, <3>1, <3>2, ConfigAssumption DEF SnapshotType, TallyType, SeenInv, Seen
      <3> HIDE DEF s, t, u
      <3>4. s.wins <= u.wins /\ s.losses <= u.losses /\ s.ties <= u.ties
        BY <3>2, <3>3
      <3>5. Judged(s) >= Target[s.pool] => u = t
        <4>1. Judged(s) <= Judged(t) /\ Judged(s) \in Nat /\ Judged(t) \in Nat
          BY <3>3 DEF Judged
        <4>2. QED
          BY <3>2, <3>3, <4>1
      <3>6. QED
        BY <2>1, <2>2, <3>4, <3>5 DEF SeenInv, Seen, s, t, u
    <2>3. QED
      BY <2>1, <2>2 DEF SeenInv, Seen
  <1>3. QED
    BY <1>1, <1>2 DEF Environment, SeedKing, SubmissionEligible, RegistrationChanges,
                      TaskQualified, inputs

LEMMA SnapshotSeen ==
  ASSUME TypedTick, SeenInv, NEW r \in Resolvers, Snapshot(r)
  PROVE  SeenInv'
  <1> DEFINE s == snap[r]
  <1>1. /\ s \in SnapshotType /\ SnapshotInv(pc[r], s) /\ TickType /\ InputsType
        /\ Seen(pc[r], s)
        /\ pc[r] \in {"idle", "read_challenge", "read_counts"} =>
             s.wins = 0 /\ s.losses = 0 /\ s.ties = 0
    BY DEF TypedTick, TypeOK, TickType, TickInv, SeenInv
  <1>2. UNCHANGED tally
    BY DEF Snapshot, ReadKing, ReadChallenge, ReadCounts, ReadRounds,
           ReadRegistration, ReadPools, ReadNext, inputs
  <1>3. CASE ReadKing(r)
    <2> DEFINE t == [s EXCEPT !.king = ReigningKing]
    <2>1. t.pool = "none" /\ t.wins = 0 /\ t.losses = 0 /\ t.ties = 0
      BY <1>1, <1>3 DEF ReadKing, SnapshotType, SnapshotInv
    <2>2. Seen("read_challenge", t)
      BY <2>1 DEF Seen, Pools
    <2>3. snap' = [snap EXCEPT ![r] = t] /\ pc' = [pc EXCEPT ![r] = "read_challenge"]
      BY <1>1, <1>3 DEF ReadKing, TickType
    <2> HIDE DEF t
    <2>4. QED
      BY <1>2, <2>1, <2>2, <2>3, SeenMoves
  <1>4. CASE ReadChallenge(r)
    <2>1. CASE UNCHANGED snap /\ pc' = [pc EXCEPT ![r] = "read_pools"]
      <3>1. snap' = [snap EXCEPT ![r] = s] /\ Seen("read_pools", s)
        BY <1>1, <1>4, <2>1 DEF ReadChallenge, TickType, SnapshotInv, Seen, Pools
      <3>2. QED
        BY <1>2, <2>1, <3>1, SeenMoves
    <2>2. ASSUME NEW c \in ActiveChallengers(s.king),
                 pc' = [pc EXCEPT ![r] = "read_counts"],
                 snap' = [snap EXCEPT ![r].challenger = c, ![r].pool = status[c]]
          PROVE  SeenInv'
      <3> DEFINE t == [s EXCEPT !.challenger = c, !.pool = status[c]]
      <3>1. c \in Submissions /\ status[c] \in Pools
        BY DEF ActiveChallengers
      <3>2. /\ t.challenger = c /\ t.pool = status[c] /\ t.due = "nothing"
            /\ t.wins = 0 /\ t.losses = 0 /\ t.ties = 0
        BY <1>1, <1>4 DEF ReadChallenge, SnapshotType, SnapshotInv
      <3>3. snap' = [snap EXCEPT ![r] = t]
        BY <1>1, <2>2 DEF TickType
      <3> HIDE DEF t
      <3>4. Seen("read_counts", t)
        BY <1>1, <3>1, <3>2 DEF Seen, InputsType, TallyType
      <3>5. QED
        BY <1>2, <2>2, <3>2, <3>3, <3>4, SeenMoves
    <2>3. QED
      BY <1>4, <2>1, <2>2 DEF ReadChallenge
  <1>5. CASE ReadCounts(r)
    <2> DEFINE u == tally[s.challenger][s.pool]
               t == [s EXCEPT !.wins = u.wins, !.losses = u.losses, !.ties = u.ties]
    <2>1. u \in TallyType
      BY <1>1, <1>5 DEF ReadCounts, SnapshotInv, InputsType
    <2>2. /\ t.challenger = s.challenger /\ t.pool = s.pool /\ t.due = "nothing"
          /\ t.wins = u.wins /\ t.losses = u.losses /\ t.ties = u.ties
      BY <1>1, <1>5 DEF ReadCounts, SnapshotType, SnapshotInv
    <2>3. snap' = [snap EXCEPT ![r] = t] /\ pc' = [pc EXCEPT ![r] = "read_rounds"]
      BY <1>1, <1>5 DEF ReadCounts, TickType
    <2> HIDE DEF t
    <2>4. Seen("read_rounds", t)
      BY <2>1, <2>2 DEF Seen, TallyType
    <2>5. QED
      BY <1>2, <2>3, <2>4, SeenMoves
  <1>6. CASE ReadRounds(r)
    <2> DEFINE u == tally[s.challenger][s.pool]
               t == [s EXCEPT !.rounds = Judged(u), !.delta = u.delta]
    <2>1. /\ t.challenger = s.challenger /\ t.pool = s.pool /\ t.due = "nothing"
          /\ t.wins = s.wins /\ t.losses = s.losses /\ t.ties = s.ties
          /\ t.rounds = Judged(u) /\ t.delta = u.delta
      BY <1>1, <1>6 DEF ReadRounds, SnapshotType, SnapshotInv
    <2>2. snap' = [snap EXCEPT ![r] = t] /\ pc' = [pc EXCEPT ![r] = "read_registration"]
      BY <1>1, <1>6 DEF ReadRounds, TickType
    <2> HIDE DEF t
    <2>3. Seen("read_registration", t)
      BY <1>1, <2>1 DEF Seen
    <2>4. QED
      BY <1>2, <2>2, <2>3, SeenMoves
  <1>7. CASE ReadRegistration(r)
    <2> DEFINE t == [s EXCEPT !.registered = Registered(s.challenger)]
    <2>1. /\ t.challenger = s.challenger /\ t.pool = s.pool /\ t.due = "nothing"
          /\ t.wins = s.wins /\ t.losses = s.losses /\ t.ties = s.ties
          /\ t.rounds = s.rounds /\ t.delta = s.delta
      BY <1>1, <1>7 DEF ReadRegistration, SnapshotType, SnapshotInv
    <2>2. snap' = [snap EXCEPT ![r] = t] /\ pc' = [pc EXCEPT ![r] = "decide"]
          /\ pc[r] = "read_registration"
      BY <1>1, <1>7 DEF ReadRegistration, TickType
    <2> HIDE DEF t
    <2>3. Seen("decide", t)
      BY <1>1, <2>1, <2>2 DEF Seen, Judged
    <2>4. QED
      BY <1>2, <2>2, <2>3, SeenMoves
  <1>8. ASSUME ReadPools(r) \/ ReadNext(r)
        PROVE  SeenInv'
    <2>1. /\ pc'[r] \in {"read_next", "decide"} /\ snap'[r].pool \notin Pools
          /\ \A q \in Resolvers \ {r} : pc'[q] = pc[q] /\ snap'[q] = snap[q]
      <3>1. s.pool = "none"
        BY <1>1, <1>8 DEF ReadPools, ReadNext, SnapshotInv
      <3>2. pc'[r] \in {"read_next", "decide"}
            /\ \A q \in Resolvers \ {r} : pc'[q] = pc[q] /\ snap'[q] = snap[q]
        BY <1>1, <1>8 DEF ReadPools, ReadNext, TickType
      <3>3. snap'[r].pool = s.pool
        BY <1>1, <1>8 DEF ReadPools, ReadNext, TickType, SnapshotType
      <3>4. QED
        BY <3>1, <3>2, <3>3 DEF Pools
    <2>2. QED
      BY <1>2, <2>1 DEF SeenInv, Seen
  <1>9. QED
    BY <1>3, <1>4, <1>5, <1>6, <1>7, <1>8 DEF Snapshot

LEMMA DecideSeen ==
  ASSUME TypedTick, SeenInv, NEW r \in Resolvers, Decide(r)
  PROVE  SeenInv'
  <1> DEFINE s == snap[r]
             due == DueAction(s, paused[r])
  <1>1. /\ s \in SnapshotType /\ SnapshotInv("decide", s) /\ pc[r] = "decide"
        /\ TickType /\ Seen("decide", s) /\ paused[r] \in BOOLEAN
    BY DEF Decide, TypedTick, TypeOK, TickType, TickInv, SignalsType, SeenInv
  <1>2. UNCHANGED tally
    BY DEF Decide, inputs
  <1>3. CASE due = "nothing"
    BY <1>2, <1>3, SeenEnds DEF Decide
  <1>4. CASE due # "nothing"
    <2> DEFINE step == IF due = "promote" /\ PublishMode # "off"
                       THEN "publish" ELSE "apply"
               t == [s EXCEPT !.due = due]
    <2>1. pc' = [pc EXCEPT ![r] = step] /\ snap' = [snap EXCEPT ![r] = t]
      BY <1>1, <1>4 DEF Decide, TickType
    <2>2. /\ t.challenger = s.challenger /\ t.pool = s.pool /\ t.due = due
          /\ t.wins = s.wins /\ t.losses = s.losses /\ t.ties = s.ties
          /\ t.rounds = s.rounds /\ t.delta = s.delta
      <3> HIDE DEF due
      <3>1. QED
        BY <1>1 DEF SnapshotType
    <2>3. Verdict(t) = Verdict(s)
      BY <2>2 DEF Verdict, RoundWinsVerdict, MeanVerdict, Remaining, Judged
    <2>4. s.pool \in Pools =>
            /\ due \in {"advance", "promote"} => Verdict(s) = "challenger_won"
            /\ due = "defend" => Verdict(s) = "king_won"
      <3>1. Verdict(s) \in {"challenger_won", "king_won", "undecided"}
        BY DEF Verdict, RoundWinsVerdict, MeanVerdict
      <3>2. QED
        BY <1>1, <3>1 DEF DueAction, DuelAction, SnapshotType, Pools
    <2>5. Seen(step, t)
      <3> HIDE DEF due, t
      <3>1. QED
        BY <1>1, <2>2, <2>3, <2>4 DEF Seen, Judged
    <2>6. step \notin {"idle", "read_challenge", "read_counts"}
      OBVIOUS
    <2> HIDE DEF t, step
    <2>7. QED
      BY <1>2, <2>1, <2>5, <2>6, SeenMoves
  <1>5. QED
    BY <1>3, <1>4

LEMMA ApplySeen ==
  ASSUME TypedTick, SeenInv, NEW r \in Resolvers,
         \/ Apply(r) \/ TickFails(r) \/ Crash(r) \/ Pause(r) \/ Resume(r)
  PROVE  SeenInv'
  <1>1. UNCHANGED tally
    BY DEF Apply, Publish, OpenChallenge, AdvancePool, CloseChallenge, Promote,
           StaleWrite, TickFails, Crash, Pause, Resume, inputs
  <1>2. CASE EndTick(r)
    BY <1>1, <1>2, SeenEnds
  <1>3. CASE pc[r] = "publish" /\ pc' = [pc EXCEPT ![r] = "apply"] /\ UNCHANGED snap
    <2>1. Seen("apply", snap[r]) /\ snap' = [snap EXCEPT ![r] = snap[r]]
      BY <1>3 DEF SeenInv, Seen, TypedTick, TypeOK, TickType
    <2>2. QED
      BY <1>1, <1>3, <2>1, SeenMoves
  <1>4. CASE UNCHANGED tick
    BY <1>1, <1>4 DEF tick, SeenInv, Seen
  <1>5. QED
    BY <1>2, <1>3, <1>4
    DEF Apply, Publish, OpenChallenge, AdvancePool, CloseChallenge, Promote,
        StaleWrite, TickFails, Crash, Pause, Resume

LEMMA NextSeen ==
  ASSUME TypedTick, VerdictLedger, BoundInv, SeenInv, [Next]_vars
  PROVE  SeenInv'
  <1>1. CASE UNCHANGED vars
    BY <1>1 DEF vars, inputs, tick, SeenInv, Seen
  <1>2. QED
    BY <1>1, EnvironmentSeen, SnapshotSeen, DecideSeen, ApplySeen DEF Next, Tick

-----------------------------------------------------------------------------
\* A verdict is stored only when it is the stored judgements' verdict.
LEMMA NextOutcome ==
  ASSUME TypedTick, VerdictLedger, VerdictInv, [Next]_vars
  PROVE  OutcomeInv'
  <1> USE DEF VerdictInv
  <1>1. CASE UNCHANGED <<outcome, tally>>
    BY <1>1 DEF OutcomeInv, StoredVerdict
  <1>2. ASSUME NEW c \in Submissions, NEW p \in Pools, JudgementSaved(c, p)
        PROVE  OutcomeInv'
    <2>1. UNCHANGED outcome
      BY <1>2 DEF JudgementSaved, arena
    <2> SUFFICES ASSUME NEW d \in Submissions, NEW q \in Pools,
                        outcome[d][q] \in {"king_won", "challenger_won"}
                 PROVE  StoredVerdict(d, q)' = outcome[d][q]
      BY <2>1 DEF OutcomeInv
    <2>2. StoredVerdict(d, q) = outcome[d][q]
      BY DEF OutcomeInv
    <2>3. QED
      BY <1>2, <2>2, JudgementKeepsVerdict
  <1>3. ASSUME NEW r \in Resolvers, Apply(r), outcome' # outcome
        PROVE  OutcomeInv'
    <2> DEFINE s == snap[r]
    <2>1. PICK verdict \in Outcomes :
            /\ RecordResolution(s, verdict) /\ pc[r] = "apply"
            /\ \/ s.due \in {"advance", "promote"} /\ verdict = "challenger_won"
               \/ s.due = "defend" /\ verdict = "king_won"
               \/ s.due = "forfeit" /\ verdict = "challenger_deregistered"
      BY <1>3 DEF Apply, Publish, OpenChallenge, AdvancePool, CloseChallenge, Promote,
                  StaleWrite, Outcomes, arena
    <2>2. s.pool \in Pools /\ s.challenger \in Submissions /\ Seen("apply", s)
      BY <2>1 DEF TypedTick, TickInv, SnapshotInv, SeenInv, Pools
    <2>3. outcome' = [outcome EXCEPT ![s.challenger][s.pool] = verdict]
      BY <1>3, <2>1 DEF RecordResolution
    <2>4. verdict \in {"king_won", "challenger_won"} =>
            StoredVerdict(s.challenger, s.pool) = verdict
      <3>1. verdict \in {"king_won", "challenger_won"} => Verdict(s) = verdict
        BY <2>1, <2>2 DEF Seen
      <3>2. QED
        BY <2>1, <2>2, <3>1, SeenVerdict
    <2>5. UNCHANGED tally
      BY <1>3 DEF Apply, Publish, OpenChallenge, AdvancePool, CloseChallenge, Promote,
                  StaleWrite, inputs
    <2>6. outcome'[s.challenger][s.pool] = verdict
          /\ \A d \in Submissions, q \in Pools :
               d # s.challenger \/ q # s.pool => outcome'[d][q] = outcome[d][q]
      BY <2>2, <2>3 DEF TypedTick, TypeOK, ArenaType
    <2>7. \A d \in Submissions, q \in Pools : StoredVerdict(d, q)' = StoredVerdict(d, q)
      BY <2>5 DEF StoredVerdict
    <2> HIDE DEF s
    <2>8. QED
      BY <2>4, <2>6, <2>7 DEF OutcomeInv
  <1>4. UNCHANGED outcome \/ UNCHANGED tally
    BY WhoWrites DEF JudgementSaved, arena
  <1>5. QED
    BY <1>1, <1>2, <1>3, <1>4, WhoWrites

LEMMA SpecVerdictInv == Spec => [](TypedTick /\ VerdictLedger /\ VerdictInv)
  <1>1. TypedTick /\ VerdictLedger /\ VerdictInv /\ [Next]_vars => VerdictInv'
    BY NextBound, NextSeen, NextOutcome DEF VerdictInv
  <1>2. QED
    BY <1>1, InitVerdict, SpecTypedTick, SpecLedger, PTL DEF Spec

\* Once every round is judged the stored verdict is who won the pool.
LEMMA StoredIsFinal ==
  ASSUME TypedTick, NEW c \in Submissions, NEW p \in Pools,
         Judged(tally[c][p]) = Target[p]
  PROVE  StoredVerdict(c, p) = FinalOutcome(c, p)
  <1> DEFINE t == tally[c][p]
  <1>1. t.wins \in Nat /\ t.losses \in Nat /\ t.ties \in Nat /\ Target[p] \in Nat
    BY ConfigAssumption DEF TypedTick, TypeOK, InputsType, TallyType
  <1>2. CASE ScoringMethod = "round_wins"
    <2> HIDE DEF t
    <2>1. RoundWinsVerdict(t, Target[p], RoundWinMargin) =
            IF ChallengerWins(t.wins, t.losses, RoundWinMargin) THEN "challenger_won"
            ELSE "king_won"
      BY <1>1, RoundWinsAtTarget, ConfigAssumption DEF t
    <2>2. QED
      BY <1>2, <2>1 DEF StoredVerdict, FinalOutcome, t
  <1>3. CASE ScoringMethod # "round_wins"
    <2>1. Remaining(t, Target[p]) = 0
      BY <1>1 DEF Remaining
    <2>2. QED
      BY <1>3, <2>1 DEF StoredVerdict, FinalOutcome, MeanVerdict
  <1>4. QED
    BY <1>2, <1>3

\* Whatever judgements arrive after a verdict, from judges that had requested
\* them before it, the verdict is what the full pool gives, under both scoring
\* methods and with any number of resolvers.
THEOREM EarlyVerdictIsFinal == Spec => []VerdictIsFinal
  <1>1. TypedTick /\ VerdictInv => VerdictIsFinal
    <2> SUFFICES ASSUME TypedTick, VerdictInv, NEW c \in Submissions, NEW p \in Pools,
                        outcome[c][p] \in {"king_won", "challenger_won"},
                        Judged(tally[c][p]) = Target[p]
                 PROVE  outcome[c][p] = FinalOutcome(c, p)
      BY DEF VerdictIsFinal
    <2>1. StoredVerdict(c, p) = outcome[c][p]
      BY DEF VerdictInv, OutcomeInv
    <2>2. QED
      BY <2>1, StoredIsFinal
  <1>2. QED
    BY <1>1, SpecVerdictInv, PTL

-----------------------------------------------------------------------------
\* A tick in pool two follows a recorded win of pool one; what is published has
\* won both; and with required publishing the crown waits for the publication.
PublicationInv ==
  /\ \A r \in Resolvers : snap[r].pool = "pool_two" =>
       outcome[snap[r].challenger]["pool_one"] = "challenger_won"
  /\ \A c \in published :
       /\ outcome[c]["pool_one"] = "challenger_won"
       /\ StoredVerdict(c, "pool_two") = "challenger_won"
  /\ PublishMode = "required" =>
       /\ \A r \in Resolvers :
            pc[r] = "apply" /\ snap[r].due = "promote" => snap[r].challenger \in published
       /\ \A i \in DOMAIN kings : i > 1 => kings[i] \in published

LEMMA InitPublication == Init => PublicationInv
  <1> SUFFICES ASSUME Init PROVE PublicationInv
    OBVIOUS
  <1>1. \A r \in Resolvers : snap[r].pool = "none" /\ pc[r] = "idle"
    BY DEF Init, NoSnapshot
  <1>2. published = {} /\ kings = <<>>
    BY DEF Init
  <1>3. QED
    BY <1>1, <1>2 DEF PublicationInv

LEMMA OutcomesKept ==
  ASSUME TypedTick, [Next]_vars
  PROVE  \A c \in Submissions, p \in Pools :
           outcome[c][p] # "none" => outcome'[c][p] = outcome[c][p]
  <1>1. ArenaType
    BY DEF TypedTick, TypeOK
  <1>2. ASSUME NEW c \in Submissions, Clears(c) \/ Closes(c) \/ Crowns(c)
        PROVE  \A d \in Submissions, p \in Pools :
                 outcome[d][p] # "none" => outcome'[d][p] = outcome[d][p]
    BY <1>1, <1>2 DEF Clears, Closes, Crowns, Resolves, ArenaType, Pools
  <1>3. QED
    BY <1>2, NextArena DEF arena, Opens

LEMMA WinsKept ==
  ASSUME TypedTick, VerdictLedger, VerdictInv, [Next]_vars,
         NEW c \in Submissions, NEW p \in Pools, StoredVerdict(c, p) = "challenger_won"
  PROVE  StoredVerdict(c, p)' = "challenger_won"
  <1>1. CASE UNCHANGED tally
    BY <1>1 DEF StoredVerdict
  <1>2. ASSUME NEW d \in Submissions, NEW q \in Pools, JudgementSaved(d, q)
        PROVE  StoredVerdict(c, p)' = "challenger_won"
    BY <1>2, JudgementKeepsVerdict DEF VerdictInv
  <1>3. QED
    BY <1>1, <1>2, WhoWrites

\* A tick reaches pool two only by reading a challenge that is there.
LEMMA PoolTwoRead ==
  ASSUME TypedTick, [Next]_vars, NEW q \in Resolvers, snap'[q].pool = "pool_two"
  PROVE  \/ snap[q].pool = "pool_two" /\ snap'[q].challenger = snap[q].challenger
         \/ /\ snap'[q].challenger \in Submissions
            /\ status[snap'[q].challenger] = "pool_two"
  <1> DEFINE Goal ==
        \/ snap[q].pool = "pool_two" /\ snap'[q].challenger = snap[q].challenger
        \/ /\ snap'[q].challenger \in Submissions
           /\ status[snap'[q].challenger] = "pool_two"
  <1>1. TickType /\ \A r \in Resolvers : snap[r] \in SnapshotType
    BY DEF TypedTick, TypeOK, TickType
  <1>2. CASE UNCHANGED snap
    BY <1>2
  <1>3. ASSUME NEW r \in Resolvers, EndTick(r)
        PROVE  Goal
    BY <1>1, <1>3 DEF EndTick, TickType, NoSnapshot
  <1>4. ASSUME NEW r \in Resolvers, ReadChallenge(r), ~UNCHANGED snap
        PROVE  Goal
    <2>1. PICK c \in ActiveChallengers(snap[r].king) :
            snap' = [snap EXCEPT ![r].challenger = c, ![r].pool = status[c]]
      BY <1>4 DEF ReadChallenge
    <2>2. c \in Submissions
      BY DEF ActiveChallengers
    <2>3. CASE q = r
      <3>1. snap'[q] = [snap[q] EXCEPT !.challenger = c, !.pool = status[c]]
        BY <1>1, <2>1, <2>3 DEF TickType
      <3>2. snap'[q].challenger = c /\ snap'[q].pool = status[c]
        BY <1>1, <3>1 DEF SnapshotType
      <3>3. QED
        BY <2>2, <3>2
    <2>4. CASE q # r
      BY <1>1, <2>1, <2>4 DEF TickType
    <2>5. QED
      BY <2>3, <2>4
  <1>5. ASSUME NEW r \in Resolvers,
               \/ ReadKing(r) \/ ReadCounts(r) \/ ReadRounds(r)
               \/ ReadRegistration(r) \/ ReadPools(r)
               \/ ReadNext(r) /\ ~UNCHANGED snap
               \/ Decide(r) /\ ~EndTick(r)
        PROVE  Goal
    <2>1. CASE q # r
      BY <1>1, <1>5, <2>1 DEF ReadKing, ReadCounts, ReadRounds, ReadRegistration,
                              ReadPools, ReadNext, Decide, TickType
    <2>2. CASE q = r
      <3>1. snap'[q].pool = snap[q].pool /\ snap'[q].challenger = snap[q].challenger
        <4>0. CASE ReadKing(r)
          BY <1>1, <2>2, <4>0 DEF ReadKing, TickType, SnapshotType
        <4>1. CASE ReadCounts(r)
          <5>1. PICK w, l, d :
                  snap' = [snap EXCEPT ![r].wins = w, ![r].losses = l, ![r].ties = d]
            BY <4>1 DEF ReadCounts
          <5>2. snap'[q] = [snap[q] EXCEPT !.wins = w, !.losses = l, !.ties = d]
            BY <1>1, <2>2, <5>1 DEF TickType
          <5>3. QED
            BY <1>1, <5>2 DEF SnapshotType
        <4>2. CASE ReadRounds(r) \/ ReadRegistration(r)
          BY <1>1, <2>2, <4>2 DEF ReadRounds, ReadRegistration, TickType, SnapshotType
        <4>3. CASE ReadPools(r) \/ (ReadNext(r) /\ ~UNCHANGED snap)
          BY <1>1, <2>2, <4>3 DEF ReadPools, ReadNext, TickType, SnapshotType
        <4>4. CASE Decide(r) /\ ~EndTick(r)
          BY <1>1, <2>2, <4>4 DEF Decide, TickType, SnapshotType
        <4>5. QED
          BY <1>5, <4>0, <4>1, <4>2, <4>3, <4>4
      <3>2. QED
        BY <3>1
    <2>3. QED
      BY <2>1, <2>2
  <1>6. QED
    BY <1>2, <1>3, <1>4, <1>5
    DEF Next, Environment, SeedKing, SubmissionEligible, RegistrationChanges,
        TaskQualified, JudgementSaved, Tick, Snapshot, Apply, Publish, OpenChallenge,
        AdvancePool, CloseChallenge, Promote, StaleWrite, TickFails, Crash, Pause,
        Resume, vars, tick

\* What a publication finds: a challenger that has cleared both pools.
LEMMA PublishedWon ==
  ASSUME TypedTick, VerdictInv, PublicationInv, NEW r \in Resolvers, Publish(r)
  PROVE  /\ snap[r].challenger \in Submissions
         /\ outcome[snap[r].challenger]["pool_one"] = "challenger_won"
         /\ StoredVerdict(snap[r].challenger, "pool_two") = "challenger_won"
  <1> DEFINE s == snap[r]
  <1>1. s.due = "promote" /\ s.pool = "pool_two" /\ s.pool \in Pools
        /\ s.challenger \in Submissions /\ pc[r] = "publish"
    BY DEF Publish, TypedTick, TickInv, SnapshotInv, Pools
  <1>2. Verdict(s) = "challenger_won"
    BY <1>1 DEF VerdictInv, SeenInv, Seen
  <1>3. StoredVerdict(s.challenger, s.pool) = "challenger_won"
    BY <1>1, <1>2, SeenVerdict DEF VerdictInv
  <1>4. QED
    BY <1>1, <1>3 DEF PublicationInv

\* With required publishing a tick that is to crown has published.
LEMMA PromotesPublished ==
  ASSUME TypedTick, PublicationInv, [Next]_vars, PublishMode = "required",
         NEW q \in Resolvers, pc'[q] = "apply", snap'[q].due = "promote"
  PROVE  snap'[q].challenger \in published'
  <1>1. TickType /\ \A r \in Resolvers : snap[r] \in SnapshotType
    BY DEF TypedTick, TypeOK, TickType
  <1>2. published \subseteq published'
    BY WhoWrites DEF Publish
  <1>3. CASE pc'[q] = pc[q] /\ snap'[q] = snap[q]
    BY <1>2, <1>3 DEF PublicationInv
  <1>4. ASSUME NEW r \in Resolvers, EndTick(r) \/ Snapshot(r)
        PROVE  pc'[q] = pc[q] /\ snap'[q] = snap[q]
    <2>1. pc'[r] # "apply"
      BY <1>1, <1>4 DEF EndTick, Snapshot, ReadKing, ReadChallenge, ReadCounts,
                        ReadRounds, ReadRegistration, ReadPools, ReadNext, TickType
    <2>2. \A p \in Resolvers \ {r} : pc'[p] = pc[p] /\ snap'[p] = snap[p]
      BY <1>1, <1>4 DEF EndTick, Snapshot, ReadKing, ReadChallenge, ReadCounts,
                        ReadRounds, ReadRegistration, ReadPools, ReadNext, TickType
    <2>3. QED
      BY <2>1, <2>2
  <1>5. ASSUME NEW r \in Resolvers, Decide(r), ~EndTick(r)
        PROVE  pc'[q] = pc[q] /\ snap'[q] = snap[q]
    <2> DEFINE due == DueAction(snap[r], paused[r])
    <2>1. /\ snap' = [snap EXCEPT ![r].due = due]
          /\ pc' = [pc EXCEPT ![r] = IF due = "promote" THEN "publish" ELSE "apply"]
      BY <1>5 DEF Decide
    <2> HIDE DEF due
    <2>2. snap'[r].due = due /\ pc'[r] = IF due = "promote" THEN "publish" ELSE "apply"
      BY <1>1, <2>1 DEF TickType, SnapshotType
    <2>3. q # r
      BY <2>2
    <2>4. QED
      BY <1>1, <2>1, <2>3 DEF TickType
  <1>6. ASSUME NEW r \in Resolvers, Publish(r), ~EndTick(r)
        PROVE  \/ snap'[q].challenger \in published'
               \/ pc'[q] = pc[q] /\ snap'[q] = snap[q]
    BY <1>1, <1>6 DEF Publish, TickType
  <1>7. QED
    BY <1>3, <1>4, <1>5, <1>6
    DEF Next, Environment, SeedKing, SubmissionEligible, RegistrationChanges,
        TaskQualified, JudgementSaved, Tick, Apply, OpenChallenge, AdvancePool,
        CloseChallenge, Promote, StaleWrite, TickFails, Crash, Pause, Resume, vars, tick

LEMMA NextPublication ==
  ASSUME TypedTick, VerdictLedger, VerdictInv, PublicationInv, [Next]_vars
  PROVE  PublicationInv'
  <1>1. ASSUME NEW r \in Resolvers, snap'[r].pool = "pool_two"
        PROVE  outcome'[snap'[r].challenger]["pool_one"] = "challenger_won"
    <2> DEFINE c == snap'[r].challenger
    <2>1. c \in Submissions /\ outcome[c]["pool_one"] = "challenger_won"
      <3>1. CASE snap[r].pool = "pool_two" /\ c = snap[r].challenger
        BY <3>1 DEF PublicationInv, TypedTick, TickInv, SnapshotInv, Pools
      <3>2. CASE c \in Submissions /\ status[c] = "pool_two"
        BY <3>2 DEF VerdictLedger
      <3>3. QED
        BY <1>1, <3>1, <3>2, PoolTwoRead
    <2>2. QED
      BY <2>1, OutcomesKept DEF Pools
  <1>2. ASSUME NEW c \in published'
        PROVE  /\ outcome'[c]["pool_one"] = "challenger_won"
               /\ StoredVerdict(c, "pool_two")' = "challenger_won"
    <2>1. c \in published \/ \E r \in Resolvers : Publish(r) /\ c = snap[r].challenger
      BY <1>2, WhoWrites DEF Publish
    <2>2. /\ c \in Submissions /\ outcome[c]["pool_one"] = "challenger_won"
          /\ StoredVerdict(c, "pool_two") = "challenger_won"
      BY <2>1, PublishedWon DEF PublicationInv, TypedTick, TypeOK
    <2>3. QED
      BY <2>2, OutcomesKept, WinsKept DEF Pools
  <1>3. ASSUME PublishMode = "required", NEW i \in DOMAIN kings', i > 1
        PROVE  kings'[i] \in published'
    <2>1. published \subseteq published'
      BY WhoWrites DEF Publish
    <2>2. CASE UNCHANGED kings
      BY <1>3, <2>1, <2>2 DEF PublicationInv
    <2>3. CASE \E s \in Submissions : kings' = <<s>>
      BY <1>3, <2>3
    <2>4. ASSUME NEW r \in Resolvers, Promote(r)
          PROVE  kings'[i] \in published'
      <3>1. snap[r].challenger \in published
        BY <1>3, <2>4 DEF Promote, PublicationInv
      <3>2. kings \in Seq(Submissions) /\ snap[r].challenger \in Submissions
        BY <3>1 DEF TypedTick, TypeOK, ArenaType
      <3>3. \/ kings' = kings
            \/ /\ DOMAIN kings' = 1 .. Len(kings) + 1 /\ Len(kings) \in Nat
               /\ \A j \in 1 .. Len(kings) : kings'[j] = kings[j]
               /\ kings'[Len(kings) + 1] = snap[r].challenger
        BY <2>4, <3>2, AppendProperties DEF Promote
      <3>4. QED
        BY <1>3, <2>1, <3>1, <3>2, <3>3 DEF PublicationInv
    <2>5. QED
      BY <2>2, <2>3, <2>4, WhoWrites DEF SeedKing
  <1>4. QED
    BY <1>1, <1>2, <1>3, PromotesPublished DEF PublicationInv

LEMMA SpecPublication ==
  Spec => [](TypedTick /\ VerdictInv /\ PublicationInv)
  <1>1. TypedTick /\ VerdictLedger /\ VerdictInv /\ PublicationInv /\ [Next]_vars =>
          PublicationInv'
    BY NextPublication
  <1>2. QED
    BY <1>1, InitPublication, SpecVerdictInv, PTL DEF Spec

\* Whatever becomes of its challenge, a published submission has cleared both
\* pools.
THEOREM OnlyWinnersArePublished == Spec => []PublishedHasWon
  <1>1. TypedTick /\ VerdictInv /\ PublicationInv => PublishedHasWon
    <2> SUFFICES ASSUME TypedTick, PublicationInv, NEW c \in published
                 PROVE  /\ outcome[c]["pool_one"] = "challenger_won"
                        /\ Judged(tally[c]["pool_two"]) = Target["pool_two"] =>
                             FinalOutcome(c, "pool_two") = "challenger_won"
      BY DEF PublishedHasWon
    <2>1. c \in Submissions /\ "pool_two" \in Pools
      BY DEF TypedTick, TypeOK, Pools
    <2>2. QED
      BY <2>1, StoredIsFinal DEF PublicationInv
  <1>2. QED
    BY <1>1, SpecPublication, PTL

\* With required publishing no submission is crowned before its bundle is out.
THEOREM CrownWaitsForPublication == Spec => []CrownedIsPublished
  <1>1. PublicationInv => CrownedIsPublished
    BY DEF PublicationInv, CrownedIsPublished
  <1>2. QED
    BY <1>1, SpecPublication, PTL
=============================================================================
