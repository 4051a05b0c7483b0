---------------------------- MODULE DuelArenaProofs ----------------------------
(***************************************************************************)
(* What the deployment's one resolver process guarantees: with a single    *)
(* resolver nothing in the arena moves between a tick's snapshot and its   *)
(* write, so one challenge is active at a time, crowns pass along won      *)
(* duels, drains hold, and the worker implements KingOfTheHill.            *)
(***************************************************************************)
EXTENDS DuelResolverProofs, SequenceTheorems

SoleResolver == \E r : Resolvers = {r}

Active(c) == status[c] \in Pools

Idle == \A c \in Submissions : ~Active(c)

\* The tables by themselves.
ArenaInv ==
  /\ kings = <<>> => \A c \in Submissions : status[c] = "none"
  /\ OneDuel
  /\ \A c \in Submissions : Active(c) => c \notin KingSet
  /\ CrownedByDuel

\* What a tick has read of the arena still holds when it writes.
FreshInv ==
  \A r \in Resolvers :
    LET s == snap[r] IN
    /\ pc[r] = "idle" => s = NoSnapshot
    /\ pc[r] # "idle" => kings # <<>> /\ s.king = ReigningKing
    /\ \/ pc[r] \in {"read_pools", "read_next"}
       \/ pc[r] \in {"decide", "publish", "apply"} /\ s.pool = "none"
       => Idle
    /\ s.pool \in Pools => status[s.challenger] = s.pool
    /\ s.next \in Submissions => status[s.next] = "none" /\ s.next \notin KingSet

\* A resolver that reported idle is still paused and has no challenge to open.
DrainInv ==
  \A r \in Resolvers : drained[r] => paused[r] /\ Idle /\ snap[r].due # "open"

SoleInv == ArenaInv /\ FreshInv /\ DrainInv

\* The steps of the arena a single resolver takes.
Seeds(s) ==
  /\ kings = <<>>
  /\ kings' = <<s>>
  /\ UNCHANGED <<status, against, outcome, recorded>>

OpensAlone(c) ==
  kings # <<>> /\ Idle /\ c \notin KingSet /\ Opens(c, ReigningKing)

SoleStep ==
  \/ UNCHANGED arena
  \/ \E s \in Submissions : Seeds(s)
  \/ \E c \in Submissions : OpensAlone(c)
  \/ \E c \in Submissions : Clears(c) \/ Closes(c) \/ Crowns(c)

-----------------------------------------------------------------------------
LEMMA InitSole == Init => SoleInv
  BY DEF Init, SoleInv, ArenaInv, FreshInv, DrainInv, OneDuel, CrownedByDuel,
         Active, Idle, Pools, KingSet, NoSnapshot, SubmissionsAssumption

LEMMA NextSoleStep ==
  ASSUME TypedTick, SoleInv, [Next]_vars
  PROVE  SoleStep
  <1>1. CASE Environment
    BY <1>1 DEF Environment, SeedKing, SubmissionEligible, RegistrationChanges,
                TaskQualified, JudgementSaved, arena, SoleStep, Seeds
  <1>2. ASSUME NEW r \in Resolvers, Apply(r)
        PROVE  SoleStep
    <2>1. CASE UNCHANGED arena
      BY <2>1 DEF SoleStep
    <2>2. CASE pc[r] = "apply" /\ ArenaStep(r)
      <3>1. CASE snap[r].due = "open" /\ Opens(snap[r].next, snap[r].king)
        <4>1. SnapshotInv(pc[r], snap[r])
          BY DEF TypedTick, TickInv
        <4>2. OpensAlone(snap[r].next) /\ snap[r].next \in Submissions
          BY <2>2, <3>1, <4>1 DEF SnapshotInv, SoleInv, FreshInv, OpensAlone
        <4>3. QED
          BY <4>2 DEF SoleStep
      <3>2. CASE snap[r].due # "open"
        BY <1>2, <2>2, <3>2, ApplyArena DEF ArenaStep, SoleStep
      <3>3. QED
        BY <2>2, <3>1, <3>2 DEF ArenaStep
    <2>3. QED
      BY <1>2, <2>1, <2>2, ApplyArena
  <1>3. ASSUME NEW r \in Resolvers,
               \/ Snapshot(r) \/ Decide(r)
               \/ TickFails(r) \/ Crash(r) \/ Pause(r) \/ Resume(r)
        PROVE  UNCHANGED arena
    BY <1>3 DEF Snapshot, ReadKing, ReadChallenge, ReadCounts, ReadRounds,
                ReadRegistration, ReadPools, ReadNext, Decide, TickFails, Crash,
                Pause, Resume
  <1>4. CASE UNCHANGED vars
    BY <1>4 DEF vars, SoleStep
  <1>5. QED
    BY <1>1, <1>2, <1>3, <1>4 DEF Next, Tick, SoleStep

\* The ledger fixes both verdicts of a challenger that takes the crown.
LEMMA CrownsVerdicts ==
  ASSUME TypedTick, VerdictLedger, NEW c \in Submissions, Crowns(c)
  PROVE  /\ status[c] = "pool_two"
         /\ status' = [status EXCEPT ![c] = "closed"]
         /\ UNCHANGED against
         /\ \A p \in Pools : outcome'[c][p] = "challenger_won"
         /\ \A d \in Submissions \ {c} : outcome'[d] = outcome[d]
  <1>1. Resolves(c, "pool_two", "closed", "challenger_won")
    BY DEF Crowns
  <1>2. outcome[c]["pool_one"] = "challenger_won" /\ outcome[c]["pool_two"] = "none"
    BY <1>1 DEF VerdictLedger, Resolves
  <1>3. QED
    BY <1>1, <1>2 DEF Resolves, TypedTick, TypeOK, ArenaType, Pools

LEMMA NextArenaInv ==
  ASSUME TypedTick, VerdictLedger, ArenaInv, SoleStep
  PROVE  ArenaInv'
  <1>1. ArenaType
    BY DEF TypedTick, TypeOK
  <1>2. CASE UNCHANGED arena
    BY <1>2 DEF ArenaInv, arena, OneDuel, CrownedByDuel, Active, KingSet, ReigningKing
  <1>3. ASSUME NEW s \in Submissions, Seeds(s)
        PROVE  ArenaInv'
    <2>1. kings' = <<s>> /\ UNCHANGED <<status, against, outcome>>
          /\ \A c \in Submissions : status[c] = "none"
      BY <1>3 DEF Seeds, ArenaInv
    <2>2. QED
      BY <2>1 DEF ArenaInv, OneDuel, CrownedByDuel, Active, KingSet, Pools
  <1>4. ASSUME NEW c \in Submissions, OpensAlone(c)
        PROVE  ArenaInv'
    <2>1. /\ kings # <<>> /\ UNCHANGED <<kings, outcome>>
          /\ status' = [status EXCEPT ![c] = "pool_one"]
          /\ against' = [against EXCEPT ![c] = ReigningKing]
          /\ c \notin KingSet
          /\ \A d \in Submissions : status[d] \notin Pools
      BY <1>4 DEF OpensAlone, Opens, Idle, Active
    <2>2. OneDuel'
      BY <1>1, <2>1 DEF ArenaType, OneDuel, ReigningKing
    <2>3. \A d \in Submissions : status'[d] \in Pools => d \notin KingSet'
      BY <1>1, <2>1 DEF ArenaType, KingSet
    <2>4. CrownedByDuel'
      <3>1. \A i \in DOMAIN kings : kings[i] # c /\ kings[i] \in Submissions
        BY <1>1, <2>1 DEF ArenaType, KingSet
      <3>2. QED
        BY <1>1, <2>1, <3>1 DEF ArenaInv, ArenaType, CrownedByDuel
    <2>5. QED
      BY <2>1, <2>2, <2>3, <2>4 DEF ArenaInv, Active
  <1>5. ASSUME NEW c \in Submissions, Clears(c) \/ Closes(c)
        PROVE  ArenaInv'
    <2>1. PICK p \in Pools, new \in {"pool_two", "closed"}, v \in Outcomes :
            Resolves(c, p, new, v)
      BY <1>5 DEF Clears, Closes, Pools, Outcomes
    <2>2. UNCHANGED <<kings, against>> /\ c \notin KingSet
          /\ status[c] = p /\ status' = [status EXCEPT ![c] = new]
      BY <1>5, <2>1 DEF Clears, Closes, Resolves, ArenaInv, Active
    <2>3. kings # <<>>
      BY <2>2 DEF ArenaInv, Pools
    <2>4. OneDuel'
      BY <1>1, <2>2 DEF ArenaInv, OneDuel, ArenaType, Pools, ReigningKing
    <2>5. \A d \in Submissions : status'[d] \in Pools => d \notin KingSet'
      BY <1>1, <2>2 DEF ArenaInv, Active, ArenaType, KingSet
    <2>6. \A d \in Submissions \ {c} :
            outcome'[d] = outcome[d] /\ status'[d] = status[d]
      BY <1>1, <2>1 DEF Resolves, ArenaType
    <2>7. CrownedByDuel'
      <3>1. \A i \in DOMAIN kings : kings[i] \in Submissions \ {c}
        BY <1>1, <2>2 DEF ArenaType, KingSet
      <3>2. QED
        BY <2>2, <2>6, <3>1 DEF ArenaInv, CrownedByDuel
    <2>8. QED
      BY <2>2, <2>3, <2>4, <2>5, <2>7 DEF ArenaInv, Active
  <1>6. ASSUME NEW c \in Submissions, Crowns(c)
        PROVE  ArenaInv'
    <2>1. /\ status[c] = "pool_two"
          /\ status' = [status EXCEPT ![c] = "closed"]
          /\ UNCHANGED against
          /\ \A p \in Pools : outcome'[c][p] = "challenger_won"
          /\ \A d \in Submissions \ {c} : outcome'[d] = outcome[d]
      BY <1>6, CrownsVerdicts
    <2>2. kings' = Append(kings, c) /\ c \notin KingSet
      BY <1>6, <2>1 DEF Crowns, ArenaInv, Active, Pools
    <2>3. /\ kings # <<>> /\ against[c] = kings[Len(kings)]
          /\ \A d \in Submissions : status[d] \in Pools => d = c
      BY <2>1 DEF ArenaInv, OneDuel, ReigningKing, Pools
    <2>4. /\ Len(kings') = Len(kings) + 1 /\ kings' # <<>>
          /\ \A i \in 1 .. Len(kings) : kings'[i] = kings[i]
          /\ kings'[Len(kings) + 1] = c
          /\ DOMAIN kings = 1 .. Len(kings) /\ DOMAIN kings' = 1 .. Len(kings) + 1
          /\ Len(kings) \in Nat /\ Len(kings) > 0
      BY <1>1, <2>2, <2>3 DEF ArenaType
    <2>5. \A d \in Submissions : status'[d] \notin Pools
      BY <1>1, <2>1, <2>3 DEF ArenaType, Pools
    <2>6. CrownedByDuel'
      <3> SUFFICES ASSUME NEW i \in 1 .. Len(kings) + 1, i > 1
                   PROVE  /\ status'[kings'[i]] = "closed"
                          /\ against'[kings'[i]] = kings'[i - 1]
                          /\ \A p \in Pools : outcome'[kings'[i]][p] = "challenger_won"
        BY <2>4 DEF CrownedByDuel
      <3>1. CASE i = Len(kings) + 1
        BY <1>1, <2>1, <2>3, <2>4, <3>1 DEF ArenaType
      <3>2. CASE i <= Len(kings)
        <4>0. i \in DOMAIN kings /\ i - 1 \in 1 .. Len(kings)
          BY <2>4, <3>2
        <4>1. kings[i] \in Submissions \ {c} /\ kings'[i] = kings[i]
              /\ kings'[i - 1] = kings[i - 1]
          <5>1. kings[i] \in Submissions
            BY <1>1, <4>0 DEF ArenaType
          <5>2. kings[i] # c
            BY <2>2, <4>0 DEF KingSet
          <5>3. QED
            BY <2>4, <4>0, <5>1, <5>2
        <4>2. QED
          BY <1>1, <2>1, <4>0, <4>1 DEF ArenaInv, CrownedByDuel, ArenaType
      <3>3. QED
        BY <2>4, <3>1, <3>2
    <2>7. QED
      BY <2>4, <2>5, <2>6 DEF ArenaInv, Active, OneDuel
  <1>7. QED
    BY <1>2, <1>3, <1>4, <1>5, <1>6 DEF SoleStep

-----------------------------------------------------------------------------
\* The tick of the only resolver, and whether the arena moves under it.
LEMMA TickEndsFresh ==
  ASSUME TypedTick, NEW r, Resolvers = {r}, EndTick(r)
  PROVE  FreshInv' /\ snap'[r].due # "open"
  <1>1. pc'[r] = "idle" /\ snap'[r] = NoSnapshot
    BY DEF EndTick, TypedTick, TypeOK, TickType
  <1>2. NoSnapshot.pool \notin Pools /\ NoSnapshot.next \notin Submissions
        /\ NoSnapshot.due # "open"
    BY SubmissionsAssumption DEF NoSnapshot, Pools
  <1>3. QED
    BY <1>1, <1>2 DEF FreshInv

LEMMA EnvironmentSole ==
  ASSUME TypedTick, SoleInv, Environment
  PROVE  FreshInv' /\ DrainInv'
  <1>1. CASE UNCHANGED <<arena, tick, signals>>
    BY <1>1 DEF SoleInv, FreshInv, DrainInv, arena, tick, signals, Idle, Active,
                KingSet, ReigningKing
  <1>2. ASSUME NEW s \in Submissions, SeedKing(s)
        PROVE  FreshInv' /\ DrainInv'
    <2>1. UNCHANGED <<status, tick, signals>> /\ kings = <<>>
      BY <1>2 DEF SeedKing
    <2>2. \A r \in Resolvers : pc[r] = "idle" /\ snap[r] = NoSnapshot
      BY <2>1 DEF SoleInv, FreshInv
    <2>3. NoSnapshot.pool \notin Pools /\ NoSnapshot.next \notin Submissions
      BY SubmissionsAssumption DEF NoSnapshot, Pools
    <2>4. FreshInv'
      BY <2>1, <2>2, <2>3 DEF FreshInv, tick
    <2>5. QED
      BY <2>1, <2>4 DEF SoleInv, DrainInv, tick, signals, Idle, Active
  <1>3. QED
    BY <1>1, <1>2 DEF Environment, SubmissionEligible, RegistrationChanges,
                      TaskQualified, JudgementSaved

LEMMA SnapshotSole ==
  ASSUME TypedTick, SoleInv, NEW r, Resolvers = {r}, Snapshot(r)
  PROVE  FreshInv' /\ DrainInv'
  <1> DEFINE s == snap[r]
  <1>1. UNCHANGED <<arena, signals>>
    BY DEF Snapshot, ReadKing, ReadChallenge, ReadCounts, ReadRounds,
           ReadRegistration, ReadPools, ReadNext
  <1>2. s \in SnapshotType /\ SnapshotInv(pc[r], s) /\ TickType /\ ArenaType
    BY DEF TypedTick, TypeOK, TickType, TickInv
  <1>3. /\ pc[r] = "idle" => s = NoSnapshot
        /\ pc[r] # "idle" => kings # <<>> /\ s.king = ReigningKing
        /\ \/ pc[r] \in {"read_pools", "read_next"}
           \/ pc[r] \in {"decide", "publish", "apply"} /\ s.pool = "none"
           => Idle
        /\ s.pool \in Pools => status[s.challenger] = s.pool
        /\ s.next \in Submissions => status[s.next] = "none" /\ s.next \notin KingSet
    BY DEF SoleInv, FreshInv
  <1> DEFINE t == snap'[r]
             step == pc'[r]
  <1> DEFINE Goal ==
        /\ step \notin {"idle", "publish", "apply"}
        /\ kings # <<>> /\ t.king = ReigningKing
        /\ \/ step \in {"read_pools", "read_next"}
           \/ step = "decide" /\ t.pool = "none"
           => Idle
        /\ t.pool \in Pools => status[t.challenger] = t.pool
        /\ t.next \in Submissions => status[t.next] = "none" /\ t.next \notin KingSet
        /\ t.due = s.due
  <1>4. Goal
    <2>1. CASE ReadKing(r)
      BY <1>2, <1>3, <2>1, SubmissionsAssumption
      DEF ReadKing, TickType, SnapshotType, NoSnapshot, Pools
    <2>2. CASE ReadChallenge(r)
      <3>1. CASE ActiveChallengers(s.king) = {} /\ UNCHANGED snap
                 /\ pc' = [pc EXCEPT ![r] = "read_pools"]
        <4>1. Idle
          BY <1>3, <2>2, <3>1 DEF ReadChallenge, ActiveChallengers, SoleInv,
                                  ArenaInv, OneDuel, Idle, Active
        <4>2. QED
          BY <1>2, <1>3, <2>2, <3>1, <4>1 DEF ReadChallenge, TickType
      <3>2. ASSUME NEW c \in ActiveChallengers(s.king),
                   pc' = [pc EXCEPT ![r] = "read_counts"],
                   snap' = [snap EXCEPT ![r].challenger = c, ![r].pool = status[c]]
            PROVE  Goal
        <4>1. t = [s EXCEPT !.challenger = c, !.pool = status[c]] /\ step = "read_counts"
          BY <1>2, <3>2 DEF TickType
        <4>2. t.king = s.king /\ t.challenger = c /\ t.pool = status[c]
              /\ t.next = s.next /\ t.due = s.due
          BY <1>2, <4>1 DEF SnapshotType
        <4>3. QED
          BY <1>3, <2>2, <4>1, <4>2 DEF ReadChallenge
      <3>3. QED
        BY <2>2, <3>1, <3>2 DEF ReadChallenge
    <2>3. CASE ReadCounts(r)
      <3>1. t = [s EXCEPT !.wins = tally[s.challenger][s.pool].wins,
                          !.losses = tally[s.challenger][s.pool].losses,
                          !.ties = tally[s.challenger][s.pool].ties]
            /\ pc[r] = "read_counts" /\ step = "read_rounds"
        BY <1>2, <2>3 DEF ReadCounts, TickType
      <3>2. t.king = s.king /\ t.challenger = s.challenger /\ t.pool = s.pool
            /\ t.next = s.next /\ t.due = s.due
        BY <1>2, <3>1 DEF SnapshotType
      <3>3. QED
        BY <1>3, <3>1, <3>2
    <2>4. CASE ReadRounds(r)
      <3>1. t = [s EXCEPT !.rounds = Judged(tally[s.challenger][s.pool]),
                          !.delta = tally[s.challenger][s.pool].delta]
            /\ pc[r] = "read_rounds" /\ step = "read_registration"
        BY <1>2, <2>4 DEF ReadRounds, TickType
      <3>2. t.king = s.king /\ t.challenger = s.challenger /\ t.pool = s.pool
            /\ t.next = s.next /\ t.due = s.due
        BY <1>2, <3>1 DEF SnapshotType
      <3>3. QED
        BY <1>3, <3>1, <3>2
    <2>5. CASE ReadRegistration(r)
      <3>1. t = [s EXCEPT !.registered = Registered(s.challenger)]
            /\ pc[r] = "read_registration" /\ step = "decide"
        BY <1>2, <2>5 DEF ReadRegistration, TickType
      <3>2. t.king = s.king /\ t.challenger = s.challenger /\ t.pool = s.pool
            /\ t.next = s.next /\ t.due = s.due
        BY <1>2, <3>1 DEF SnapshotType
      <3>3. t.pool \in Pools /\ t.pool # "none"
        BY <1>2, <3>1, <3>2 DEF SnapshotInv, Pools
      <3>4. QED
        BY <1>3, <3>1, <3>2, <3>3
    <2>6. CASE ReadPools(r)
      <3> DEFINE ready == \A p \in Pools : qualified[s.king][p] >= Target[p]
      <3>1. t = [s EXCEPT !.ready = ready]
            /\ pc[r] = "read_pools" /\ step \in {"read_next", "decide"}
        BY <1>2, <2>6 DEF ReadPools, TickType
      <3> HIDE DEF ready
      <3>2. t.king = s.king /\ t.challenger = s.challenger /\ t.pool = s.pool
            /\ t.next = s.next /\ t.due = s.due
        BY <1>2, <3>1 DEF SnapshotType
      <3>3. QED
        BY <1>3, <3>1, <3>2
    <2>7. CASE ReadNext(r)
      <3>1. pc[r] = "read_next" /\ step = "decide" /\ Idle
        BY <1>2, <1>3, <2>7 DEF ReadNext, TickType
      <3>2. CASE UNCHANGED snap
        BY <1>3, <3>1, <3>2
      <3>3. ASSUME NEW c \in Waiting, snap' = [snap EXCEPT ![r].next = c]
            PROVE  Goal
        <4>1. t = [s EXCEPT !.next = c]
          BY <1>2, <3>3 DEF TickType
        <4>2. t.king = s.king /\ t.challenger = s.challenger /\ t.pool = s.pool
              /\ t.next = c /\ t.due = s.due
          BY <1>2, <4>1 DEF SnapshotType
        <4>3. status[c] = "none" /\ c \notin KingSet
          BY DEF Waiting
        <4>4. QED
          BY <1>3, <3>1, <4>2, <4>3
      <3>4. QED
        BY <2>7, <3>2, <3>3 DEF ReadNext
    <2>8. QED
      BY <2>1, <2>2, <2>3, <2>4, <2>5, <2>6, <2>7 DEF Snapshot
  <1>5. QED
    BY <1>1, <1>4 DEF SoleInv, FreshInv, DrainInv, arena, signals, Idle, Active,
                      KingSet, ReigningKing

LEMMA DecideSole ==
  ASSUME TypedTick, SoleInv, NEW r, Resolvers = {r}, Decide(r)
  PROVE  FreshInv' /\ DrainInv'
  <1> DEFINE s == snap[r]
             due == DueAction(s, paused[r])
  <1>1. /\ s \in SnapshotType /\ SnapshotInv("decide", s) /\ paused[r] \in BOOLEAN
        /\ TickType /\ SignalsType /\ pc[r] = "decide"
    BY DEF Decide, TypedTick, TypeOK, TickType, TickInv, SignalsType
  <1>2. UNCHANGED <<arena, paused>>
    BY DEF Decide
  <1>3. CASE due = "nothing"
    <2>1. EndTick(r) /\ drained' = [drained EXCEPT ![r] =
                                      @ \/ (paused[r] /\ s.pool = "none")]
      BY <1>3 DEF Decide
    <2>2. FreshInv' /\ snap'[r].due # "open"
      BY <2>1, TickEndsFresh
    <2>3. drained'[r] => paused[r] /\ Idle
      <3>1. drained[r] => paused[r] /\ Idle
        BY DEF SoleInv, DrainInv
      <3>2. s.pool = "none" => Idle
        BY <1>1 DEF SoleInv, FreshInv
      <3>3. drained'[r] => drained[r] \/ (paused[r] /\ s.pool = "none")
        BY <1>1, <2>1 DEF SignalsType
      <3>4. QED
        BY <3>1, <3>2, <3>3
    <2>4. QED
      BY <1>2, <2>2, <2>3 DEF DrainInv, arena, Idle, Active
  <1>4. CASE due # "nothing"
    <2>1. /\ pc'[r] \in {"publish", "apply"} /\ UNCHANGED drained
          /\ snap'[r] = [s EXCEPT !.due = due]
      BY <1>1, <1>4 DEF Decide, TickType
    <2>2. /\ snap'[r].king = s.king /\ snap'[r].challenger = s.challenger
          /\ snap'[r].pool = s.pool /\ snap'[r].next = s.next /\ snap'[r].due = due
      <3> HIDE DEF due
      <3>1. QED
        BY <1>1, <2>1 DEF SnapshotType
    <2>3. FreshInv'
      <3>1. /\ pc[r] # "idle" => kings # <<>> /\ s.king = ReigningKing
            /\ s.pool = "none" => Idle
            /\ s.pool \in Pools => status[s.challenger] = s.pool
            /\ s.next \in Submissions => status[s.next] = "none" /\ s.next \notin KingSet
        BY <1>1 DEF SoleInv, FreshInv
      <3>2. UNCHANGED <<kings, status>>
        BY <1>2 DEF arena
      <3>3. pc'[r] \in {"publish", "apply"}
        BY <2>1
      <3> DEFINE t == snap'[r]
      <3>4. /\ t.king = s.king /\ t.challenger = s.challenger
            /\ t.pool = s.pool /\ t.next = s.next
        BY <2>2
      <3> HIDE DEF t, s
      <3>5. /\ kings # <<>> /\ t.king = ReigningKing
            /\ t.pool = "none" => Idle
            /\ t.pool \in Pools => status[t.challenger] = t.pool
            /\ t.next \in Submissions => status[t.next] = "none" /\ t.next \notin KingSet
        BY <1>1, <3>1, <3>4
      <3>6. QED
        BY <3>2, <3>3, <3>5 DEF FreshInv, Idle, Active, KingSet, ReigningKing, t
    <2>4. paused[r] => due # "open"
      BY <1>1, DueActionFits DEF DueAction, IdleAction, Pools
    <2>5. QED
      BY <1>2, <2>1, <2>2, <2>3, <2>4 DEF SoleInv, DrainInv, arena, Idle, Active
  <1>5. QED
    BY <1>3, <1>4

LEMMA ApplySole ==
  ASSUME TypedTick, SoleInv, NEW r, Resolvers = {r}, Apply(r)
  PROVE  FreshInv' /\ DrainInv'
  <1>1. UNCHANGED signals
    BY DEF Apply, Publish, OpenChallenge, AdvancePool, CloseChallenge, Promote,
           StaleWrite
  <1>2. drained[r] => paused[r] /\ Idle /\ snap[r].due # "open"
    BY DEF SoleInv, DrainInv
  <1>3. CASE UNCHANGED arena
    <2>1. CASE EndTick(r)
      BY <1>1, <1>2, <1>3, <2>1, TickEndsFresh
      DEF DrainInv, arena, signals, Idle, Active
    <2>2. CASE pc[r] = "publish" /\ pc' = [pc EXCEPT ![r] = "apply"] /\ UNCHANGED snap
      <3>1. pc'[r] = "apply"
        BY <2>2 DEF TypedTick, TypeOK, TickType
      <3>2. FreshInv'
        BY <1>3, <2>2, <3>1 DEF SoleInv, FreshInv, arena, Idle, Active, KingSet,
                                ReigningKing
      <3>3. QED
        BY <1>1, <1>2, <1>3, <2>2, <3>2 DEF DrainInv, arena, signals, Idle, Active
    <2>3. QED
      BY <2>1, <2>2 DEF Apply, Publish, OpenChallenge, AdvancePool,
                        CloseChallenge, Promote, StaleWrite
  <1>4. CASE /\ ArenaStep(r) /\ EndTick(r)
             /\ snap[r].due # "open" => snap[r].challenger \in Submissions
    <2>1. ~drained[r]
      <3>1. \A c \in Submissions : Clears(c) \/ Closes(c) \/ Crowns(c) => ~Idle
        BY DEF Clears, Closes, Crowns, Resolves, Idle, Active, Pools
      <3>2. QED
        BY <1>2, <1>4, <3>1 DEF ArenaStep
    <2>2. QED
      BY <1>1, <1>4, <2>1, TickEndsFresh DEF DrainInv, signals
  <1>5. QED
    BY <1>3, <1>4, ApplyArena

LEMMA FaultsSole ==
  ASSUME TypedTick, SoleInv, NEW r, Resolvers = {r},
         TickFails(r) \/ Crash(r) \/ Pause(r) \/ Resume(r)
  PROVE  FreshInv' /\ DrainInv'
  <1>1. UNCHANGED arena
    BY DEF TickFails, Crash, Pause, Resume
  <1>2. FreshInv' /\ (snap'[r].due # "open" \/ snap'[r] = snap[r])
    <2>1. CASE EndTick(r)
      BY <2>1, TickEndsFresh
    <2>2. CASE UNCHANGED tick
      BY <1>1, <2>2 DEF SoleInv, FreshInv, tick, arena, Idle, Active, KingSet,
                        ReigningKing
    <2>3. QED
      BY <2>1, <2>2 DEF TickFails, Crash, Pause, Resume
  <1>3. drained'[r] => drained[r] /\ paused'[r]
    <2>1. SignalsType /\ (drained[r] => paused[r])
      BY DEF TypedTick, TypeOK, SoleInv, DrainInv
    <2>2. QED
      BY <2>1 DEF TickFails, Crash, Pause, Resume, signals, SignalsType
  <1>4. QED
    BY <1>1, <1>2, <1>3 DEF SoleInv, DrainInv, arena, Idle, Active

LEMMA NextSole ==
  ASSUME SoleResolver, TypedTick, VerdictLedger, SoleInv, [Next]_vars
  PROVE  SoleInv'
  <1>1. PICK r : Resolvers = {r}
    BY DEF SoleResolver
  <1>2. ArenaInv'
    BY NextSoleStep, NextArenaInv DEF SoleInv
  <1>3. CASE Next
    <2>1. FreshInv' /\ DrainInv'
      BY <1>1, <1>3, EnvironmentSole, SnapshotSole, DecideSole, ApplySole, FaultsSole
      DEF Next, Tick
    <2>2. QED
      BY <1>2, <2>1 DEF SoleInv
  <1>4. CASE UNCHANGED vars
    BY <1>2, <1>4 DEF vars, arena, tick, signals, SoleInv, FreshInv, DrainInv, Idle,
                      Active, KingSet, ReigningKing
  <1>5. QED
    BY <1>3, <1>4

LEMMA SpecSole == ASSUME SoleResolver PROVE Spec => [](TypedTick /\ SoleInv)
  <1>1. TypedTick /\ VerdictLedger /\ SoleInv /\ [Next]_vars => SoleInv'
    BY NextSole
  <1>2. QED
    BY <1>1, InitSole, SpecTypedTick, SpecLedger, PTL DEF Spec

-----------------------------------------------------------------------------
\* With one resolver at most one challenge is active and it is against the
\* reigning king.
THEOREM OneDuelAtATime == ASSUME SoleResolver PROVE Spec => []OneDuel
  <1>1. SoleInv => OneDuel
    BY DEF SoleInv, ArenaInv
  <1>2. QED
    BY <1>1, SpecSole, PTL

\* With one resolver every king but the first won both pools against the king
\* it follows.
THEOREM CrownsAreWon == ASSUME SoleResolver PROVE Spec => []CrownedByDuel
  <1>1. SoleInv => CrownedByDuel
    BY DEF SoleInv, ArenaInv
  <1>2. QED
    BY <1>1, SpecSole, PTL

\* With one resolver no challenge is active from the moment a drain is reported
\* until the resolver is resumed or restarted.
THEOREM DrainIsHonoured == ASSUME SoleResolver PROVE Spec => []DrainHolds
  <1>1. SoleInv => DrainHolds
    BY DEF SoleInv, DrainInv, DrainHolds, Idle, Active
  <1>2. QED
    BY <1>1, SpecSole, PTL

-----------------------------------------------------------------------------
\* The duel the tables show.
LEMMA DuelShown ==
  ASSUME OneDuel
  PROVE  /\ Idle => Duel = [challenger |-> NoOne, pool |-> "none"]
         /\ \A c \in Submissions : Active(c) =>
              Duel = [challenger |-> c, pool |-> status[c]]
  <1>1. Idle => Duel = [challenger |-> NoOne, pool |-> "none"]
    BY DEF Idle, Active, Duel
  <1>2. ASSUME NEW c \in Submissions, Active(c)
        PROVE  Duel = [challenger |-> c, pool |-> status[c]]
    <2>1. \A d \in Submissions : status[d] \in Pools <=> d = c
      BY <1>2 DEF Active, OneDuel
    <2>2. (CHOOSE d \in Submissions : status[d] \in Pools) = c
      BY <2>1
    <2>3. QED
      BY <2>1, <2>2 DEF Duel
  <1>3. QED
    BY <1>1, <1>2

LEMMA DuelShownNext ==
  ASSUME OneDuel'
  PROVE  /\ Idle' => Duel' = [challenger |-> NoOne, pool |-> "none"]
         /\ \A c \in Submissions : status'[c] \in Pools =>
              Duel' = [challenger |-> c, pool |-> status'[c]]
  <1>1. Idle' => Duel' = [challenger |-> NoOne, pool |-> "none"]
    BY DEF Idle, Active, Duel
  <1>2. ASSUME NEW c \in Submissions, status'[c] \in Pools
        PROVE  Duel' = [challenger |-> c, pool |-> status'[c]]
    <2>1. \A d \in Submissions : status'[d] \in Pools <=> d = c
      BY <1>2 DEF OneDuel
    <2>2. (CHOOSE d \in Submissions : status'[d] \in Pools) = c
      BY <2>1
    <2>3. QED
      BY <2>1, <2>2 DEF Duel
  <1>3. QED
    BY <1>1, <1>2

Spent == KingSet \cup {c \in Submissions : status[c] # "none"}

LEMMA InitArena == Init => Arena!Init
  BY SubmissionsAssumption
  DEF Init, Arena!Init, Arena!NoDuel, ReigningKing, Duel, KingSet, Pools

\* Every step of the resolver and its environment is a step of the abstract
\* arena or leaves it alone.
LEMMA StepRefines ==
  ASSUME TypedTick, ArenaInv, ArenaInv', SoleStep
  PROVE  Arena!Next \/ UNCHANGED <<ReigningKing, Duel, Spent>>
  <1> DEFINE king == ReigningKing
  <1>1. ArenaType /\ OneDuel /\ OneDuel'
    BY DEF TypedTick, TypeOK, ArenaInv
  <1>2. CASE UNCHANGED arena
    BY <1>2 DEF arena, ReigningKing, Duel, Spent, KingSet
  <1>3. ASSUME NEW s \in Submissions, Seeds(s)
        PROVE  Arena!Found(s)
    <2>1. kings = <<>> /\ kings' = <<s>> /\ UNCHANGED status
      BY <1>3 DEF Seeds
    <2>2. ReigningKing = NoOne /\ ReigningKing' = s /\ UNCHANGED Duel
      BY <2>1 DEF ReigningKing, Duel
    <2>3. KingSet = {} /\ KingSet' = {s}
      BY <2>1 DEF KingSet
    <2>4. QED
      BY <2>1, <2>2, <2>3 DEF Arena!Found
  <1>4. ASSUME NEW c \in Submissions, OpensAlone(c)
        PROVE  Arena!Challenge(c)
    <2>1. /\ kings # <<>> /\ Idle /\ c \notin KingSet
          /\ status[c] = "none" /\ status' = [status EXCEPT ![c] = "pool_one"]
          /\ UNCHANGED kings
      BY <1>4 DEF OpensAlone, Opens
    <2>2. ReigningKing # NoOne /\ UNCHANGED ReigningKing
      BY <1>1, <2>1, SubmissionsAssumption DEF ReigningKing, ArenaType
    <2>3. Duel = Arena!NoDuel
      BY <1>1, <2>1, DuelShown DEF Arena!NoDuel
    <2>4. Duel' = [challenger |-> c, pool |-> "pool_one"]
      BY <1>1, <2>1, DuelShownNext DEF ArenaType, Pools
    <2>5. /\ KingSet' = KingSet
          /\ {d \in Submissions : status'[d] # "none"} =
               {d \in Submissions : status[d] # "none"} \cup {c}
      BY <1>1, <2>1 DEF KingSet, ArenaType
    <2>6. QED
      BY <2>1, <2>2, <2>3, <2>4, <2>5 DEF Arena!Challenge
  <1>5. ASSUME NEW c \in Submissions, Clears(c)
        PROVE  Arena!ClearPoolOne
    <2>1. /\ UNCHANGED kings /\ status[c] = "pool_one"
          /\ status' = [status EXCEPT ![c] = "pool_two"]
      BY <1>5 DEF Clears, Resolves
    <2>2. Duel = [challenger |-> c, pool |-> "pool_one"]
      BY <1>1, <2>1, DuelShown DEF Active, Pools
    <2>3. Duel' = [challenger |-> c, pool |-> "pool_two"]
      BY <1>1, <2>1, DuelShownNext DEF ArenaType, Pools
    <2>4. UNCHANGED <<ReigningKing, Spent>>
      BY <1>1, <2>1 DEF ReigningKing, KingSet, Spent, ArenaType
    <2>5. QED
      BY <2>2, <2>3, <2>4 DEF Arena!ClearPoolOne, Spent
  <1>6. ASSUME NEW c \in Submissions, Closes(c)
        PROVE  Arena!Fall
    <2>1. /\ UNCHANGED kings /\ status[c] \in Pools
          /\ status' = [status EXCEPT ![c] = "closed"]
      BY <1>6 DEF Closes, Resolves
    <2>2. Duel # Arena!NoDuel
      BY <1>1, <2>1, DuelShown DEF Active, Arena!NoDuel, Pools
    <2>3. Duel' = Arena!NoDuel
      <3>1. Idle'
        BY <1>1, <2>1 DEF ArenaType, OneDuel, Idle, Active, Pools
      <3>2. QED
        BY <1>1, <3>1, DuelShownNext DEF Arena!NoDuel
    <2>4. UNCHANGED <<ReigningKing, Spent>>
      BY <1>1, <2>1 DEF ReigningKing, KingSet, Spent, ArenaType, Pools
    <2>5. QED
      BY <2>2, <2>3, <2>4 DEF Arena!Fall, Spent
  <1>7. ASSUME NEW c \in Submissions, Crowns(c)
        PROVE  Arena!TakeCrown
    <2>1. /\ status[c] = "pool_two"
          /\ status' = [status EXCEPT ![c] = "closed"]
          /\ kings' = Append(kings, c)
      BY <1>7 DEF Crowns, Resolves, ArenaInv, Active, Pools
    <2>2. Duel = [challenger |-> c, pool |-> "pool_two"]
      BY <1>1, <2>1, DuelShown DEF Active, Pools
    <2>3. Duel' = Arena!NoDuel
      <3>1. Idle'
        BY <1>1, <2>1 DEF ArenaType, OneDuel, Idle, Active, Pools
      <3>2. QED
        BY <1>1, <3>1, DuelShownNext DEF Arena!NoDuel
    <2>4. /\ DOMAIN kings = 1 .. Len(kings)
          /\ DOMAIN kings' = 1 .. Len(kings) + 1
          /\ \A i \in 1 .. Len(kings) : kings'[i] = kings[i]
          /\ kings'[Len(kings) + 1] = c
          /\ Len(kings) \in Nat /\ Len(kings') = Len(kings) + 1 /\ kings' # <<>>
      BY <1>1, <2>1, AppendProperties DEF ArenaType
    <2>5. ReigningKing' = c /\ KingSet' = KingSet \cup {c}
      <3>1. ReigningKing' = c
        BY <2>4 DEF ReigningKing
      <3>2. KingSet' = KingSet \cup {c}
        BY <2>4 DEF KingSet
      <3>3. QED
        BY <3>1, <3>2
    <2>6. /\ c \in {d \in Submissions : status[d] # "none"}
          /\ {d \in Submissions : status'[d] # "none"} =
               {d \in Submissions : status[d] # "none"}
      BY <1>1, <2>1 DEF ArenaType
    <2>7. UNCHANGED Spent
      BY <2>5, <2>6 DEF Spent
    <2>8. QED
      BY <2>2, <2>3, <2>5, <2>7 DEF Arena!TakeCrown, Spent
  <1>8. QED
    BY <1>2, <1>3, <1>4, <1>5, <1>6, <1>7 DEF SoleStep, Arena!Next

\* With one resolver the worker, its stale reads, failures and restarts included,
\* implements the abstract arena.
THEOREM ResolverImplementsArena == ASSUME SoleResolver PROVE Spec => ArenaSpec
  <1>1. TypedTick /\ SoleInv /\ SoleInv' /\ [Next]_vars =>
          [Arena!Next]_<<ReigningKing, Duel, Spent>>
    BY NextSoleStep, StepRefines DEF SoleInv
  <1>2. QED
    BY <1>1, SpecSole, InitArena, PTL DEF Spec, ArenaSpec, Arena!Spec, Spent
=============================================================================
