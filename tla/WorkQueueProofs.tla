--------------------------- MODULE WorkQueueProofs ---------------------------
(***************************************************************************)
(* Proofs about the work queue, for any kings, pools, targets, commits and *)
(* number of describers, and for any number of faults.                     *)
(***************************************************************************)
EXTENDS WorkQueue, CountingLemmas

-----------------------------------------------------------------------------
(* Types *)

\* What each holder of units can hold: the fetcher a request, then a request with
\* its commit; the queue of pool p such units of p; a describer one of any pool.
FetchUnit ==
  {Waiting}
  \cup [step : {"sample"}, king : Kings, pool : Pools, commit : {None}]
  \cup [step : {"look_up", "skip", "reserve", "submit"}, king : Kings, pool : Pools, commit : Commits]

QueuedUnit(p) == [step : {"submit"}, king : Kings, pool : {p}, commit : Commits]

DescribeUnit ==
  {Waiting}
  \cup [step : {"describe", "inserted", "failed"}, king : Kings, pool : Pools, commit : Commits]

TablesOK == king \in Kings /\ row \in [Commits -> Row \cup {None}]

PollOK ==
  /\ poll \in [step : {"read_king", "count", "sync"}, king : Kings \cup {None},
               needed : [Pools -> 0 .. InflightTarget]]
  /\ poll.step # "read_king" => poll.king \in Kings

AccountsOK ==
  /\ currentKing \in Kings \cup {None}
  /\ inFlight \in [Kings -> [Pools -> Nat]]
  /\ cancel \in [Kings -> [Pools -> Nat]]

QueuesOK ==
  /\ toFetch \in [Pools -> Seq(Kings)]
  /\ toDescribe \in [Pools -> Seq(Unit)]
  /\ \A p \in Pools : toDescribe[p] \in Seq(QueuedUnit(p))

WorkersOK ==
  /\ reserved \subseteq Commits
  /\ fetcher \in FetchUnit
  /\ describer \in [Describers -> DescribeUnit]

CountersOK == breaks \in Nat /\ restarts \in Nat /\ lost \in Nat

Typed == TablesOK /\ PollOK /\ AccountsOK /\ QueuesOK /\ WorkersOK /\ CountersOK

-----------------------------------------------------------------------------
(* The inductive invariant *)

UnitsOf(k, p) == {u \in Unit : Of(u, k, p)}
InsertedOf(k, p) == {u \in Unit : u.step = "inserted" /\ Of(u, k, p)}
With(X) == {u \in Unit : u.commit \in X}

One(P) == IF P THEN 1 ELSE 0

\* The units of king k for pool p: requested, sampled, queued and leased.
Requested(k, p) == Count(toFetch[p], {k})
Sampled(k, p) == One(fetcher \in UnitsOf(k, p))
Queued(k, p) == Count(toDescribe[p], UnitsOf(k, p))
Leased(k, p) == Cardinality(Members(describer, Describers, UnitsOf(k, p)))

Tally(k, p) == Requested(k, p) + Sampled(k, p) + Queued(k, p) + Leased(k, p)

\* Every unit has a slot, and the slots without a unit are at most the exceptions
\* in the fetcher.
SlotInv ==
  \A k \in Kings, p \in Pools : /\ Tally(k, p) <= inFlight[k][p]
                                /\ inFlight[k][p] <= Tally(k, p) + breaks

\* The units that hold a commit of X: about to be queued, queued and leased.
Submitting(X) == One(fetcher.step = "submit" /\ fetcher.commit \in X)
QueuedWith(X) == SumFunction([p \in Pools |-> Count(toDescribe[p], With(X))])
LeasedWith(X) == Cardinality(Members(describer, Describers, With(X)))

HeldOf(X) == Submitting(X) + QueuedWith(X) + LeasedWith(X)

\* A commit is held once while it is reserved, and not at all otherwise.
HeldInv ==
  /\ \A c \in Commits : HeldOf({c}) = One(c \in reserved)
  /\ Cardinality(reserved) = HeldOf(Commits)

\* King k's load of pool p, and what a poll may add to it.
QueuedTasks(k, p) ==
  Cardinality(Members(row, Commits, {[king |-> k, pool |-> p, status |-> "queued"]}))
Inserting(k, p) == Cardinality(Members(describer, Describers, InsertedOf(k, p)))

LoadOf(k, p) == QueuedTasks(k, p) + inFlight[k][p] - Inserting(k, p)

LoadInv ==
  \A k \in Kings, p \in Pools :
    /\ inFlight[k][p] <= InflightTarget
    /\ LoadOf(k, p) <= 2 * InflightTarget + lost
    /\ (poll.step = "sync" /\ poll.king = k /\ poll.needed[p] > 0) =>
         LoadOf(k, p) + poll.needed[p] <= 2 * InflightTarget + lost

IInv == Typed /\ SlotInv /\ HeldInv /\ LoadInv

-----------------------------------------------------------------------------
(* Facts about the operators *)

\* The surplus of a negative number is nothing.
LEMMA MaxWithZero == \A x \in Int : Max({0, x}) = IF x > 0 THEN x ELSE 0
<1> SUFFICES ASSUME NEW x \in Int PROVE Max({0, x}) = IF x > 0 THEN x ELSE 0
  OBVIOUS
<1>1. PICK m : m \in {0, x} /\ \A y \in {0, x} : m >= y
  <2>1. CASE x > 0
    BY <2>1
  <2>2. CASE ~(x > 0)
    BY <2>2
  <2> QED BY <2>1, <2>2
<1>2. Max({0, x}) \in {0, x} /\ \A y \in {0, x} : Max({0, x}) >= y
  BY <1>1 DEF Max
<1> QED BY <1>2

\* A share of the load is at most the load.
LEMMA ShareFits ==
  ASSUME NEW n \in Nat, n # 0, NEW index \in Nat
  PROVE  (InflightTarget \div n) + (IF index < InflightTarget % n THEN 1 ELSE 0) \in 0 .. InflightTarget
<1>1. InflightTarget \in Nat
  BY WorkQueueAssumption
<1> DEFINE q == InflightTarget \div n
           r == InflightTarget % n
<1>2. q \in Nat /\ r \in 0 .. n - 1 /\ InflightTarget = n * q + r
  BY <1>1, SMT
<1> HIDE DEF q, r
<1>3. q + r <= InflightTarget
  <2>1. PICK m \in Nat : n = m + 1
    BY Z3
  <2>2. n * q = m * q + q /\ m * q \in Nat
    BY <1>2, <2>1, Z3
  <2> QED BY <1>2, <2>2
<1>4. CASE index < r
  BY <1>2, <1>3, <1>4, <1>1 DEF q, r
<1>5. CASE ~(index < r)
  BY <1>2, <1>3, <1>5, <1>1 DEF q, r
<1> QED BY <1>4, <1>5 DEF q, r

LEMMA RowsAreMembers ==
  \A k, p, status : Rows(k, p, status) = Members(row, Commits, {[king |-> k, pool |-> p, status |-> status]})
BY DEF Rows, Members

LEMMA RowsCounted ==
  \A k, p, status : Cardinality(Rows(k, p, status)) \in Nat
BY RowsAreMembers, MembersFinite, WorkQueueAssumption

\* What a poll asks for: a share of the load, less the tasks already queued.
LEMMA DeficitIs ==
  ASSUME NEW k, NEW p \in Pools
  PROVE  /\ Deficit(k, p) \in 0 .. InflightTarget
         /\ Deficit(k, p) > 0 =>
              Deficit(k, p) + Cardinality(Rows(k, p, "queued")) <= InflightTarget
<1> DEFINE incomplete == {q \in Pools : ~Full(k, q)}
           n == Cardinality(incomplete)
           index == Cardinality({q \in incomplete : q < p})
           share == (InflightTarget \div n) + (IF index < InflightTarget % n THEN 1 ELSE 0)
           active == Cardinality(Rows(k, p, "queued"))
<1>1. active \in Nat /\ InflightTarget \in Nat
  BY RowsCounted, WorkQueueAssumption
<1>2. Deficit(k, p) = IF p \in incomplete /\ share > active THEN share - active ELSE 0
  BY DEF Deficit
<1>3. CASE p \in incomplete
  <2>1. IsFiniteSet(incomplete)
    BY FS_Subset, WorkQueueAssumption
  <2>2. {q \in incomplete : q < p} \in SUBSET incomplete
    OBVIOUS
  <2>3. n \in Nat /\ index \in Nat
    BY <2>1, <2>2, FS_Subset, FS_CardinalityType
  <2>4. n # 0
    BY <1>3, <2>1, FS_EmptySet
  <2>5. share \in 0 .. InflightTarget
    BY <2>3, <2>4, ShareFits
  <2> HIDE DEF share, active, incomplete, n, index
  <2> QED BY <1>1, <1>2, <2>5 DEF active
<1>4. CASE p \notin incomplete
  <2> HIDE DEF share, active, incomplete, n, index
  <2> QED BY <1>1, <1>2, <1>4
<1> QED BY <1>3, <1>4

-----------------------------------------------------------------------------
(* Every step keeps the types *)

LEMMA WaitingIsAUnit == Waiting \in FetchUnit /\ Waiting \in DescribeUnit /\ Waiting \in Unit
BY DEF FetchUnit, DescribeUnit, Unit, Waiting

LEMMA UnitsAreUnits ==
  /\ FetchUnit \subseteq Unit /\ DescribeUnit \subseteq Unit
  /\ \A p \in Pools : QueuedUnit(p) \subseteq Unit
<1>1. FetchUnit \subseteq Unit
  BY WaitingIsAUnit DEF FetchUnit, Unit
<1>2. DescribeUnit \subseteq Unit
  BY WaitingIsAUnit DEF DescribeUnit, Unit
<1>3. \A p \in Pools : QueuedUnit(p) \subseteq Unit
  BY DEF QueuedUnit, Unit
<1> QED BY <1>1, <1>2, <1>3

LEMMA InitTyped == Init => Typed
<1> SUFFICES ASSUME Init PROVE Typed
  OBVIOUS
<1>1. \A S : <<>> \in Seq(S)
  BY EmptySeq
<1>2. QueuesOK
  BY <1>1 DEF Init, QueuesOK, Empty
<1>3. PollOK
  BY WorkQueueAssumption DEF Init, PollOK, NoPoll
<1>4. AccountsOK
  BY DEF Init, AccountsOK, NoneInFlight
<1>5. WorkersOK
  BY WaitingIsAUnit DEF Init, WorkersOK
<1>6. TablesOK /\ CountersOK
  BY DEF Init, TablesOK, CountersOK
<1> QED BY <1>2, <1>3, <1>4, <1>5, <1>6 DEF Typed

\* A unit's slot is freed, or its cancellation taken.
LEMMA DropKeepsAccounts ==
  ASSUME AccountsOK, NEW k \in Kings, NEW p \in Pools, Drop(k, p), currentKing' = currentKing
  PROVE  AccountsOK'
<1>1. PICK n \in Nat : n = inFlight[k][p]
  BY DEF AccountsOK
<1>2. Max({0, n - 1}) \in Nat
  BY MaxWithZero
<1>3. inFlight' \in [Kings -> [Pools -> Nat]]
  <2>1. inFlight' = [inFlight EXCEPT ![k][p] = Max({0, n - 1})]
    BY <1>1 DEF Drop, AccountsOK
  <2> QED BY <1>2, <2>1 DEF AccountsOK
<1>4. cancel' \in [Kings -> [Pools -> Nat]]
  <2>1. CASE Stale(k)
    BY <2>1 DEF Drop, AccountsOK
  <2>2. CASE ~Stale(k)
    <3>1. PICK m \in Nat : m = cancel[k][p]
      BY DEF AccountsOK
    <3>2. m > 0
      BY <2>2, <3>1 DEF Drop, Unwanted
    <3>3. m - 1 \in Nat
      BY <3>2
    <3>4. cancel' = [cancel EXCEPT ![k][p] = m - 1]
      BY <2>2, <3>1 DEF Drop, AccountsOK
    <3> QED BY <3>3, <3>4 DEF AccountsOK
  <2> QED BY <2>1, <2>2
<1> QED BY <1>3, <1>4 DEF AccountsOK

LEMMA RequeueKeepsQueues ==
  ASSUME QueuesOK, NEW unit, unit.king \in Kings, unit.pool \in Pools, Requeue(unit),
         toDescribe' = toDescribe
  PROVE  QueuesOK'
<1>1. Append(toFetch[unit.pool], unit.king) \in Seq(Kings)
  BY AppendProperties DEF QueuesOK
<1>2. toFetch' \in [Pools -> Seq(Kings)]
  BY <1>1 DEF Requeue, QueuesOK
<1> QED BY <1>2 DEF QueuesOK

\* What is left of a queue and its first unit.
LEMMA FirstRequest ==
  ASSUME QueuesOK, NEW p \in Pools, toFetch[p] # <<>>
  PROVE  Head(toFetch[p]) \in Kings /\ Tail(toFetch[p]) \in Seq(Kings)
<1>1. toFetch[p] \in Seq(Kings)
  BY DEF QueuesOK
<1> QED BY <1>1, HeadTailProperties

LEMMA FirstUnit ==
  ASSUME QueuesOK, NEW p \in Pools, toDescribe[p] # <<>>
  PROVE  /\ Head(toDescribe[p]) \in QueuedUnit(p) /\ Tail(toDescribe[p]) \in Seq(QueuedUnit(p))
         /\ Tail(toDescribe[p]) \in Seq(Unit)
<1>1. toDescribe[p] \in Seq(QueuedUnit(p)) /\ toDescribe[p] \in Seq(Unit)
  BY DEF QueuesOK
<1> QED BY <1>1, HeadTailProperties

LEMMA TypedSync == ASSUME Typed, SyncToDeficits PROVE Typed'
<1>1. PollOK'
  BY WorkQueueAssumption DEF SyncToDeficits, PollOK, NoPoll
<1>2. poll.king \in Kings
  BY DEF Typed, PollOK, SyncToDeficits
<1>3. AccountsOK' /\ QueuesOK'
  <2>1. CASE UNCHANGED <<inFlight, cancel, toFetch>> /\ currentKing' = None
    BY <2>1 DEF Typed, AccountsOK, QueuesOK, SyncToDeficits
  <2>2. CASE /\ currentKing' = poll.king
             /\ inFlight' = [inFlight EXCEPT ![poll.king] = [p \in Pools |-> @[p] + Max({0, Delta(p)})]]
             /\ cancel' = [cancel EXCEPT ![poll.king] = [p \in Pools |-> Surplus(p)]]
             /\ toFetch' = [p \in Pools |-> toFetch[p] \o [i \in 1 .. Max({0, Delta(p)}) |-> poll.king]]
    <3>1. \A p \in Pools : Delta(p) \in Int
      BY <1>2 DEF Typed, PollOK, AccountsOK, Delta
    <3>2. \A p \in Pools : Max({0, Delta(p)}) \in Nat /\ Surplus(p) \in Nat
      BY <3>1, MaxWithZero DEF Surplus
    <3>3. \A p \in Pools : [i \in 1 .. Max({0, Delta(p)}) |-> poll.king] \in Seq(Kings)
      <4>1. \A n \in Nat, k \in Kings : [i \in 1 .. n |-> k] \in Seq(Kings)
        OBVIOUS
      <4> QED BY <1>2, <3>2, <4>1
    <3>4. \A p \in Pools : toFetch[p] \o [i \in 1 .. Max({0, Delta(p)}) |-> poll.king] \in Seq(Kings)
      BY <3>3, ConcatProperties DEF Typed, QueuesOK
    <3>5. QueuesOK'
      BY <2>2, <3>4 DEF Typed, QueuesOK, SyncToDeficits
    <3>6. [p \in Pools |-> inFlight[poll.king][p] + Max({0, Delta(p)})] \in [Pools -> Nat]
      <4>1. \A p \in Pools : inFlight[poll.king][p] \in Nat
        BY <1>2 DEF Typed, AccountsOK
      <4>2. \A p \in Pools : inFlight[poll.king][p] + Max({0, Delta(p)}) \in Nat
        BY <3>2, <4>1
      <4> QED BY <4>2
    <3>7. inFlight' \in [Kings -> [Pools -> Nat]]
      BY <1>2, <2>2, <3>6 DEF Typed, AccountsOK
    <3>8. [p \in Pools |-> Surplus(p)] \in [Pools -> Nat]
      BY <3>2
    <3>9. cancel' \in [Kings -> [Pools -> Nat]]
      BY <1>2, <2>2, <3>8 DEF Typed, AccountsOK
    <3> QED BY <1>2, <2>2, <3>5, <3>7, <3>9 DEF AccountsOK
  <2> QED BY <2>1, <2>2 DEF SyncToDeficits
<1> QED BY <1>1, <1>3 DEF Typed, SyncToDeficits, TablesOK, WorkersOK, CountersOK, db, counters

LEMMA TypedTables == ASSUME Typed, (\E c \in Commits : Settle(c)) \/ (\E k \in Kings : Succeed(k)) PROVE Typed'
<1>1. TablesOK'
  <2>1. ASSUME NEW k \in Kings, Succeed(k) PROVE TablesOK'
    BY <2>1 DEF Succeed, Typed, TablesOK
  <2>2. ASSUME NEW c \in Commits, Settle(c) PROVE TablesOK'
    <3>1. \A e \in Commits, s \in {"queued", "qualified", "dropped"} :
            row[e] # None => [row[e] EXCEPT !.status = s] \in Row
      BY DEF Typed, TablesOK, Row
    <3>2. row[c] # None /\ \A e \in Rows(row[c].king, row[c].pool, "queued") : row[e] # None
      <4>1. row[c] # None /\ row[c] \in Row
        BY <2>2 DEF Settle, Typed, TablesOK
      <4>2. [king |-> row[c].king, pool |-> row[c].pool, status |-> "queued"] \in Row
        BY <4>1 DEF Row
      <4> QED BY <4>1, <4>2, NoneIsNoRow DEF Rows
    <3>3. CASE row' = [row EXCEPT ![c].status = "dropped"]
      <4>1. row' = [row EXCEPT ![c] = [row[c] EXCEPT !.status = "dropped"]]
        BY <3>3 DEF Typed, TablesOK
      <4> QED BY <2>2, <3>1, <3>2, <4>1 DEF Settle, Typed, TablesOK
    <3>4. CASE row' # [row EXCEPT ![c].status = "dropped"]
      <4>1. PICK late \in SUBSET Commits :
              /\ \A e \in late : row[e] # None
              /\ row' = [e \in Commits |->
                           IF e = c THEN [row[c] EXCEPT !.status = "qualified"]
                           ELSE IF e \in late THEN [row[e] EXCEPT !.status = "dropped"] ELSE row[e]]
        <5> DEFINE fills == Cardinality(Rows(row[c].king, row[c].pool, "qualified")) + 1 >= Target[row[c].pool]
                   late == {e \in Commits : fills /\ e \in Rows(row[c].king, row[c].pool, "queued")}
        <5>1. row' = [e \in Commits |->
                        IF e = c THEN [row[c] EXCEPT !.status = "qualified"]
                        ELSE IF e \in late THEN [row[e] EXCEPT !.status = "dropped"] ELSE row[e]]
          BY <2>2, <3>4 DEF Settle
        <5>2. \A e \in late : row[e] # None
          BY <3>2
        <5> QED BY <5>1, <5>2
      <4>2. \A e \in Commits : row'[e] \in Row \cup {None}
        BY <3>1, <3>2, <4>1 DEF Typed, TablesOK
      <4> QED BY <2>2, <4>1, <4>2 DEF Settle, Typed, TablesOK
    <3> QED BY <3>3, <3>4
  <2> QED BY <2>1, <2>2
<1> QED BY <1>1 DEF Typed, Settle, Succeed, PollOK, AccountsOK, QueuesOK, WorkersOK, CountersOK,
                accounts, counters

LEMMA TypedPoll == ASSUME Typed, PollKing \/ PollTasks \/ PollFails PROVE Typed'
<1>1. CASE PollKing
  <2>1. PollOK'
    BY <1>1 DEF PollKing, Typed, PollOK, TablesOK
  <2> QED BY <1>1, <2>1 DEF PollKing, Typed, TablesOK, AccountsOK, QueuesOK, WorkersOK, CountersOK,
                            db, accounts, counters
<1>2. CASE PollTasks
  <2>1. [p \in Pools |-> Deficit(poll.king, p)] \in [Pools -> 0 .. InflightTarget]
    BY DeficitIs
  <2>2. poll' = [poll EXCEPT !.step = "sync", !.needed = [p \in Pools |-> Deficit(poll.king, p)]]
    BY <1>2 DEF PollTasks
  <2>3. poll.king \in Kings
    BY <1>2 DEF PollTasks, Typed, PollOK
  <2>4. PollOK'
    BY <2>1, <2>2, <2>3 DEF Typed, PollOK
  <2> QED BY <1>2, <2>4 DEF PollTasks, Typed, TablesOK, AccountsOK, QueuesOK, WorkersOK, CountersOK,
                            db, accounts, counters
<1>3. CASE PollFails
  <2>1. PollOK'
    BY <1>3, WorkQueueAssumption DEF PollFails, NoPoll, PollOK
  <2> QED BY <1>3, <2>1 DEF PollFails, Typed, TablesOK, AccountsOK, QueuesOK, WorkersOK, CountersOK,
                            db, accounts, counters
<1> QED BY <1>1, <1>2, <1>3

LEMMA TypedNextToFetch == ASSUME Typed, NextToFetch PROVE Typed'
<1>1. PICK p \in Pools :
        /\ First(toFetch, p)
        /\ toFetch' = [toFetch EXCEPT ![p] = Tail(@)]
        /\ LET k == Head(toFetch[p]) IN
           \/ Drop(k, p) /\ UNCHANGED fetcher
           \/ /\ fetcher' = [Waiting EXCEPT !.step = "sample", !.king = k, !.pool = p]
              /\ UNCHANGED <<inFlight, cancel>>
  BY DEF NextToFetch
<1>2. toFetch[p] # <<>>
  BY <1>1 DEF First
<1>3. PICK k \in Kings : k = Head(toFetch[p])
  BY <1>2, FirstRequest DEF Typed
<1>4. QueuesOK'
  <2>1. Tail(toFetch[p]) \in Seq(Kings) /\ toDescribe' = toDescribe
    BY <1>2, FirstRequest DEF Typed, NextToFetch
  <2> QED BY <1>1, <2>1 DEF Typed, QueuesOK
<1>5. AccountsOK'
  <2>1. currentKing' = currentKing
    BY DEF NextToFetch
  <2>2. CASE Drop(k, p)
    BY <2>1, <2>2, DropKeepsAccounts DEF Typed
  <2>3. CASE UNCHANGED <<inFlight, cancel>>
    BY <2>1, <2>3 DEF Typed, AccountsOK
  <2> QED BY <1>1, <1>3, <2>2, <2>3
<1>6. WorkersOK'
  <2>1. fetcher' = fetcher \/ fetcher' = [step |-> "sample", king |-> k, pool |-> p, commit |-> None]
    BY <1>1, <1>3 DEF Waiting
  <2>2. fetcher' \in FetchUnit
    BY <2>1 DEF Typed, WorkersOK, FetchUnit
  <2> QED BY <2>2 DEF Typed, WorkersOK, NextToFetch
<1> QED BY <1>4, <1>5, <1>6 DEF NextToFetch, Typed, TablesOK, PollOK, CountersOK, db, counters

\* The fetcher's unit at its steps.
LEMMA FetcherSteps ==
  ASSUME Typed
  PROVE  /\ fetcher.step # "get" => /\ fetcher.king \in Kings /\ fetcher.pool \in Pools
                                   /\ fetcher = [step |-> fetcher.step, king |-> fetcher.king,
                                                 pool |-> fetcher.pool, commit |-> fetcher.commit]
         /\ fetcher.step \notin {"get", "sample"} => fetcher.commit \in Commits
         /\ fetcher.step = "get" => fetcher = Waiting
         /\ fetcher.step \in {"get", "sample"} => fetcher.commit = None
BY DEF Typed, WorkersOK, FetchUnit, Waiting

LEMMA TypedFetch ==
  ASSUME Typed, NoCommit \/ LookUp \/ Reserve \/ FetchBreaks \/ (\E c \in Commits : SampleCommit(c))
  PROVE  Typed'
<1>1. ASSUME FetchFailed, fetcher.step # "get", toDescribe' = toDescribe
      PROVE  QueuesOK' /\ fetcher' \in FetchUnit
  BY <1>1, RequeueKeepsQueues, FetcherSteps, WaitingIsAUnit DEF FetchFailed, Typed
<1>2. CASE NoCommit
  <2>1. QueuesOK' /\ fetcher' \in FetchUnit
    BY <1>1, <1>2 DEF NoCommit
  <2> QED BY <1>2, <2>1 DEF NoCommit, Typed, TablesOK, PollOK, AccountsOK, WorkersOK, CountersOK,
                            db, accounts, counters
<1>3. CASE LookUp
  <2>1. fetcher' \in FetchUnit
    <3>1. fetcher.king \in Kings /\ fetcher.pool \in Pools /\ fetcher.commit \in Commits
      BY <1>3, FetcherSteps DEF LookUp
    <3>2. \E s \in {"skip", "reserve"} :
            fetcher' = [step |-> s, king |-> fetcher.king, pool |-> fetcher.pool, commit |-> fetcher.commit]
      BY <1>3, FetcherSteps DEF LookUp
    <3> QED BY <3>1, <3>2 DEF FetchUnit
  <2> QED BY <1>3, <2>1 DEF LookUp, Typed, TablesOK, PollOK, AccountsOK, QueuesOK, WorkersOK, CountersOK,
                            db, accounts, counters
<1>4. CASE Reserve
  <2>1. CASE FetchFailed /\ UNCHANGED reserved
    <3>1. QueuesOK' /\ fetcher' \in FetchUnit
      BY <1>1, <1>4, <2>1 DEF Reserve
    <3> QED BY <1>4, <2>1, <3>1 DEF Reserve, Typed, TablesOK, PollOK, AccountsOK, WorkersOK, CountersOK,
                                    db, accounts, counters
  <2>2. CASE /\ reserved' = reserved \cup {fetcher.commit}
             /\ fetcher' = [fetcher EXCEPT !.step = "submit"]
             /\ UNCHANGED toFetch
    <3>1. fetcher.king \in Kings /\ fetcher.pool \in Pools /\ fetcher.commit \in Commits
      BY <1>4, FetcherSteps DEF Reserve
    <3>2. fetcher' = [step |-> "submit", king |-> fetcher.king, pool |-> fetcher.pool, commit |-> fetcher.commit]
      BY <1>4, <2>2, FetcherSteps DEF Reserve
    <3>3. fetcher' \in FetchUnit
      BY <3>1, <3>2 DEF FetchUnit
    <3> QED BY <1>4, <2>2, <3>1, <3>3 DEF Reserve, Typed, TablesOK, PollOK, AccountsOK, QueuesOK, WorkersOK,
                                          CountersOK, db, accounts, counters
  <2> QED BY <1>4, <2>1, <2>2 DEF Reserve
<1>5. CASE FetchBreaks
  BY <1>5, WaitingIsAUnit DEF FetchBreaks, Typed, TablesOK, PollOK, AccountsOK, QueuesOK, WorkersOK, CountersOK,
                              db, accounts
<1>6. ASSUME NEW c \in Commits, SampleCommit(c) PROVE Typed'
  <2>1. fetcher.king \in Kings /\ fetcher.pool \in Pools
    BY <1>6, FetcherSteps DEF SampleCommit
  <2>2. fetcher' = [step |-> "look_up", king |-> fetcher.king, pool |-> fetcher.pool, commit |-> c]
    BY <1>6, FetcherSteps DEF SampleCommit
  <2>3. fetcher' \in FetchUnit
    BY <2>1, <2>2 DEF FetchUnit
  <2> QED BY <1>6, <2>3 DEF SampleCommit, Typed, TablesOK, PollOK, AccountsOK, QueuesOK, WorkersOK, CountersOK,
                            db, accounts, counters
<1> QED BY <1>2, <1>3, <1>4, <1>5, <1>6

LEMMA TypedSubmit == ASSUME Typed, SubmitFetched PROVE Typed'
<1>1. fetcher.step = "submit"
  BY DEF SubmitFetched
<1>2. fetcher.king \in Kings /\ fetcher.pool \in Pools /\ fetcher.commit \in Commits
      /\ fetcher = [step |-> "submit", king |-> fetcher.king, pool |-> fetcher.pool, commit |-> fetcher.commit]
  BY <1>1, FetcherSteps
<1>3. fetcher \in QueuedUnit(fetcher.pool) /\ fetcher \in Unit
  BY <1>2 DEF QueuedUnit, Unit
<1>4. PICK q : q = toDescribe[fetcher.pool]
  OBVIOUS
<1>5. Append(q, fetcher) \in Seq(QueuedUnit(fetcher.pool)) /\ Append(q, fetcher) \in Seq(Unit)
  BY <1>2, <1>3, <1>4, AppendProperties DEF Typed, QueuesOK
<1>6. toDescribe' = [toDescribe EXCEPT ![fetcher.pool] = Append(q, fetcher)]
  BY <1>4 DEF SubmitFetched
<1>7. QueuesOK'
  BY <1>2, <1>5, <1>6 DEF SubmitFetched, Typed, QueuesOK
<1>8. WorkersOK'
  BY WaitingIsAUnit DEF SubmitFetched, Typed, WorkersOK
<1> QED BY <1>7, <1>8 DEF SubmitFetched, Typed, TablesOK, PollOK, AccountsOK, CountersOK, db, accounts, counters

\* A describer's unit at its steps.
LEMMA DescriberSteps ==
  ASSUME Typed, NEW d \in Describers
  PROVE  /\ describer[d].step = "get" => describer[d] = Waiting
         /\ describer[d].step # "get" =>
              /\ describer[d].king \in Kings /\ describer[d].pool \in Pools /\ describer[d].commit \in Commits
              /\ describer[d] = [step |-> describer[d].step, king |-> describer[d].king,
                                 pool |-> describer[d].pool, commit |-> describer[d].commit]
<1>1. describer[d] \in DescribeUnit
  BY DEF Typed, WorkersOK
<1> QED BY <1>1 DEF DescribeUnit, Waiting

LEMMA TypedLease == ASSUME Typed, NEW d \in Describers, LeaseToDescribe(d) PROVE Typed'
<1>1. PICK p \in Pools :
        /\ First(toDescribe, p)
        /\ toDescribe' = [toDescribe EXCEPT ![p] = Tail(@)]
        /\ LET unit == Head(toDescribe[p]) IN
           \/ Drop(unit.king, p) /\ reserved' = reserved \ {unit.commit} /\ UNCHANGED describer
           \/ /\ describer' = [describer EXCEPT ![d] = [unit EXCEPT !.step = "describe"]]
              /\ UNCHANGED <<inFlight, cancel, reserved>>
  BY DEF LeaseToDescribe
<1>2. toDescribe[p] # <<>>
  BY <1>1 DEF First
<1>3. PICK unit \in QueuedUnit(p) : unit = Head(toDescribe[p])
  BY <1>2, FirstUnit DEF Typed
<1>4. QueuesOK'
  <2>1. PICK t : t = Tail(toDescribe[p])
    OBVIOUS
  <2>2. t \in Seq(QueuedUnit(p)) /\ t \in Seq(Unit) /\ toFetch' = toFetch
    BY <1>2, <2>1, FirstUnit DEF Typed, LeaseToDescribe
  <2>3. toDescribe' = [toDescribe EXCEPT ![p] = t]
    BY <1>1, <2>1
  <2> QED BY <2>2, <2>3 DEF Typed, QueuesOK
<1>5. AccountsOK'
  <2>1. currentKing' = currentKing /\ unit.king \in Kings
    BY <1>3 DEF LeaseToDescribe, QueuedUnit
  <2>2. CASE Drop(unit.king, p)
    BY <2>1, <2>2, DropKeepsAccounts DEF Typed
  <2>3. CASE UNCHANGED <<inFlight, cancel>>
    BY <2>1, <2>3 DEF Typed, AccountsOK
  <2> QED BY <1>1, <1>3, <2>2, <2>3
<1>6. WorkersOK'
  <2>1. [unit EXCEPT !.step = "describe"] \in DescribeUnit
    BY <1>3 DEF QueuedUnit, DescribeUnit
  <2>2. describer' \in [Describers -> DescribeUnit] /\ reserved' \subseteq Commits
    BY <1>1, <1>3, <2>1 DEF Typed, WorkersOK
  <2> QED BY <2>2 DEF Typed, WorkersOK, LeaseToDescribe
<1> QED BY <1>4, <1>5, <1>6 DEF LeaseToDescribe, Typed, TablesOK, PollOK, CountersOK, db, counters

\* A describer's unit moves on to step s.
LEMMA DescriberMoves ==
  ASSUME Typed, NEW d \in Describers, describer[d].step # "get", NEW s \in {"describe", "inserted", "failed"},
         describer' = [describer EXCEPT ![d].step = s]
  PROVE  /\ describer' \in [Describers -> DescribeUnit]
         /\ \A e \in Describers \ {d} : describer'[e] = describer[e]
         /\ describer'[d] = [step |-> s, king |-> describer[d].king, pool |-> describer[d].pool,
                             commit |-> describer[d].commit]
<1>1. PICK u : u = [step |-> s, king |-> describer[d].king, pool |-> describer[d].pool,
                    commit |-> describer[d].commit]
  OBVIOUS
<1>2. u \in DescribeUnit
  BY <1>1, DescriberSteps DEF DescribeUnit
<1>3. describer' = [describer EXCEPT ![d] = u]
  <2>1. describer \in [Describers -> DescribeUnit]
    BY DEF Typed, WorkersOK
  <2>2. PICK a, b, c, t : describer[d] = [step |-> t, king |-> a, pool |-> b, commit |-> c]
    BY DescriberSteps
  <2>3. u = [describer[d] EXCEPT !.step = s]
    BY <1>1, <2>2
  <2> QED BY <2>1, <2>3
<1> QED BY <1>1, <1>2, <1>3 DEF Typed, WorkersOK

LEMMA TypedDescribe ==
  ASSUME Typed, NEW d \in Describers, InsertTask(d) \/ DescribeFails(d) \/ AnswerLost(d)
  PROVE  Typed'
<1>1. describer[d].step # "get" /\ \E s \in {"describe", "inserted", "failed"} : describer' = [describer EXCEPT ![d].step = s]
  BY DEF InsertTask, DescribeFails, AnswerLost
<1>2. describer' \in [Describers -> DescribeUnit]
  BY <1>1, DescriberMoves
<1>3. TablesOK'
  <2>1. CASE Inserted(describer[d]) /\ king' = king
    <3>1. PICK r : r = [king |-> describer[d].king, pool |-> describer[d].pool, status |-> "queued"]
      OBVIOUS
    <3>2. r \in Row
      BY <1>1, <3>1, DescriberSteps DEF Row
    <3>3. row' = [row EXCEPT ![describer[d].commit] = r]
      BY <2>1, <3>1 DEF Inserted
    <3> QED BY <2>1, <3>2, <3>3 DEF Typed, TablesOK
  <2>2. CASE row' = row /\ king' = king
    BY <2>2 DEF Typed, TablesOK
  <2> QED BY <2>1, <2>2 DEF InsertTask, DescribeFails, AnswerLost, db
<1>4. CountersOK'
  BY DEF InsertTask, DescribeFails, AnswerLost, Typed, CountersOK, counters
<1>5. UNCHANGED <<poll, accounts, toFetch, toDescribe, reserved, fetcher>>
  BY DEF InsertTask, DescribeFails, AnswerLost
<1> QED BY <1>2, <1>3, <1>4, <1>5 DEF Typed, PollOK, AccountsOK, QueuesOK, WorkersOK, accounts

LEMMA TypedFinish == ASSUME Typed, NEW d \in Describers, FinishDescribe(d) PROVE Typed'
<1>1. PICK unit : unit = describer[d]
  OBVIOUS
<1>2. unit.king \in Kings /\ unit.pool \in Pools
  BY <1>1, DescriberSteps DEF FinishDescribe
<1>3. WorkersOK'
  BY WaitingIsAUnit DEF FinishDescribe, Typed, WorkersOK
<1>4. QueuesOK'
  <2>1. Requeue(unit) \/ UNCHANGED toFetch
    BY <1>1 DEF FinishDescribe
  <2>2. toDescribe' = toDescribe
    BY DEF FinishDescribe
  <2>3. CASE Requeue(unit)
    BY <1>2, <2>2, <2>3, RequeueKeepsQueues DEF Typed
  <2> QED BY <2>1, <2>2, <2>3 DEF Typed, QueuesOK
<1>5. AccountsOK'
  <2>1. PICK n \in Nat : n = inFlight[unit.king][unit.pool]
    BY <1>2 DEF Typed, AccountsOK
  <2>2. Max({0, n - 1}) \in Nat
    BY MaxWithZero
  <2>3. inFlight' = inFlight \/ inFlight' = [inFlight EXCEPT ![unit.king][unit.pool] = Max({0, n - 1})]
    BY <1>1, <1>2, <2>1 DEF FinishDescribe, Typed, AccountsOK
  <2>4. inFlight' \in [Kings -> [Pools -> Nat]]
    <3>1. inFlight \in [Kings -> [Pools -> Nat]]
      BY DEF Typed, AccountsOK
    <3>2. CASE inFlight' = [inFlight EXCEPT ![unit.king][unit.pool] = Max({0, n - 1})]
      BY <2>2, <3>1, <3>2
    <3> QED BY <2>3, <3>1, <3>2
  <2> QED BY <2>4 DEF FinishDescribe, Typed, AccountsOK
<1> QED BY <1>3, <1>4, <1>5 DEF FinishDescribe, Typed, TablesOK, PollOK, CountersOK, db, counters

LEMMA TypedRestart == ASSUME Typed, Restart PROVE Typed'
<1>1. \A S : <<>> \in Seq(S)
  BY EmptySeq
<1>2. QueuesOK'
  BY <1>1 DEF Restart, QueuesOK, Empty
<1>3. PollOK'
  BY WorkQueueAssumption DEF Restart, PollOK, NoPoll
<1>4. AccountsOK'
  BY DEF Restart, AccountsOK, NoneInFlight
<1>5. WorkersOK'
  BY WaitingIsAUnit DEF Restart, WorkersOK
<1> QED BY <1>2, <1>3, <1>4, <1>5 DEF Restart, Typed, TablesOK, CountersOK, db

LEMMA TypedStep == Typed /\ [Next]_vars => Typed'
<1> SUFFICES ASSUME Typed, [Next]_vars PROVE Typed'
  OBVIOUS
<1>1. CASE UNCHANGED vars
  BY <1>1 DEF vars, db, accounts, counters, Typed, TablesOK, PollOK, AccountsOK, QueuesOK, WorkersOK, CountersOK
<1>2. CASE Controller \/ PollFails
  BY <1>2, TypedPoll, TypedSync DEF Controller
<1>3. CASE Fetcher \/ FetchBreaks
  BY <1>3, TypedNextToFetch, TypedFetch, TypedSubmit DEF Fetcher
<1>4. ASSUME NEW d \in Describers, Describer(d) \/ AnswerLost(d) PROVE Typed'
  BY <1>4, TypedLease, TypedDescribe, TypedFinish DEF Describer
<1>5. CASE Restart
  BY <1>5, TypedRestart
<1>6. CASE (\E c \in Commits : Settle(c)) \/ (\E k \in Kings : Succeed(k))
  BY <1>6, TypedTables
<1> QED BY <1>1, <1>2, <1>3, <1>4, <1>5, <1>6 DEF Next

-----------------------------------------------------------------------------
(* What an operation does to the counts *)

LEMMA CountsAreNatural ==
  ASSUME Typed, NEW k \in Kings, NEW p \in Pools
  PROVE  /\ Requested(k, p) \in Nat /\ Sampled(k, p) \in Nat
         /\ Queued(k, p) \in Nat /\ Leased(k, p) \in Nat
         /\ Inserting(k, p) \in Nat /\ Inserting(k, p) <= Leased(k, p)
         /\ QueuedTasks(k, p) \in Nat /\ inFlight[k][p] \in Nat
<1>1. toFetch[p] \in Seq(Kings) /\ toDescribe[p] \in Seq(Unit) /\ inFlight[k][p] \in Nat
  BY DEF Typed, QueuesOK, AccountsOK
<1>2. Requested(k, p) \in Nat /\ Queued(k, p) \in Nat
  BY <1>1, CountIsNatural DEF Requested, Queued
<1>3. IsFiniteSet(Members(describer, Describers, UnitsOf(k, p))) /\ Leased(k, p) \in Nat
  BY MembersFinite, WorkQueueAssumption DEF Leased
<1>4. Inserting(k, p) \in Nat
  BY MembersFinite, WorkQueueAssumption DEF Inserting
<1>5. QueuedTasks(k, p) \in Nat
  BY MembersFinite, WorkQueueAssumption DEF QueuedTasks
<1>6. Members(describer, Describers, InsertedOf(k, p)) \in SUBSET Members(describer, Describers, UnitsOf(k, p))
  BY DEF Members, InsertedOf, UnitsOf
<1>7. Inserting(k, p) <= Leased(k, p)
  BY <1>3, <1>6, FS_Subset DEF Inserting, Leased
<1> QED BY <1>1, <1>2, <1>3, <1>4, <1>5, <1>7 DEF Sampled, One

LEMMA RequestTaken ==
  ASSUME Typed, NEW q \in Pools, toFetch[q] # <<>>, toFetch' = [toFetch EXCEPT ![q] = Tail(@)],
         NEW k \in Kings, NEW p \in Pools
  PROVE  Requested(k, p)' = Requested(k, p) - One(p = q /\ k = Head(toFetch[q]))
<1>1. toFetch \in [Pools -> Seq(Kings)] /\ toFetch[q] \in Seq(Kings)
  BY DEF Typed, QueuesOK
<1>2. Requested(k, p) \in Nat
  BY CountsAreNatural
<1>3. Requested(k, p)' = Count(toFetch'[p], {k})
  BY DEF Requested
<1>4. CASE p = q
  <2>1. toFetch'[p] = Tail(toFetch[q])
    BY <1>1, <1>4
  <2>2. Count(Tail(toFetch[q]), {k}) = Count(toFetch[q], {k}) - (IF Head(toFetch[q]) \in {k} THEN 1 ELSE 0)
    BY <1>1, CountOfTail
  <2> QED BY <1>3, <1>4, <2>1, <2>2 DEF Requested, One
<1>5. CASE p # q
  <2>1. toFetch'[p] = toFetch[p]
    BY <1>1, <1>5
  <2> QED BY <1>2, <1>3, <1>5, <2>1 DEF Requested, One
<1> QED BY <1>4, <1>5

LEMMA RequestMade ==
  ASSUME Typed, NEW unit, unit.king \in Kings, unit.pool \in Pools, Requeue(unit),
         NEW k \in Kings, NEW p \in Pools
  PROVE  Requested(k, p)' = Requested(k, p) + One(Of(unit, k, p))
<1>1. toFetch \in [Pools -> Seq(Kings)] /\ toFetch[p] \in Seq(Kings)
  BY DEF Typed, QueuesOK
<1>2. Requested(k, p) \in Nat
  BY CountsAreNatural
<1>3. Requested(k, p)' = Count(toFetch'[p], {k})
  BY DEF Requested
<1>4. CASE p = unit.pool
  <2>1. toFetch'[p] = Append(toFetch[p], unit.king)
    BY <1>1, <1>4 DEF Requeue
  <2>2. Count(Append(toFetch[p], unit.king), {k}) = Count(toFetch[p], {k}) + (IF unit.king \in {k} THEN 1 ELSE 0)
    BY <1>1, CountOfAppend
  <2> QED BY <1>3, <1>4, <2>1, <2>2 DEF Requested, One, Of
<1>5. CASE p # unit.pool
  <2>1. toFetch'[p] = toFetch[p]
    BY <1>1, <1>5 DEF Requeue
  <2> QED BY <1>2, <1>3, <1>5, <2>1 DEF Requested, One, Of
<1> QED BY <1>4, <1>5

\* A slot is freed.
LEMMA DropFrees ==
  ASSUME Typed, NEW j \in Kings, NEW q \in Pools, Drop(j, q), NEW k \in Kings, NEW p \in Pools
  PROVE  inFlight'[k][p] = IF k = j /\ p = q /\ inFlight[k][p] > 0 THEN inFlight[k][p] - 1 ELSE inFlight[k][p]
<1>1. inFlight \in [Kings -> [Pools -> Nat]]
  BY DEF Typed, AccountsOK
<1>2. PICK n \in Nat : n = inFlight[j][q]
  BY <1>1
<1>3. PICK m : m = Max({0, n - 1})
  OBVIOUS
<1>4. inFlight' = [inFlight EXCEPT ![j][q] = m]
  BY <1>1, <1>2, <1>3 DEF Drop
<1>5. m = IF n > 0 THEN n - 1 ELSE n
  BY <1>3, MaxWithZero
<1> QED BY <1>1, <1>2, <1>4, <1>5

\* The units in a set T among those queued for pool p, when the first of pool q is
\* leased and when one is submitted.
LEMMA UnitTaken ==
  ASSUME Typed, NEW q \in Pools, toDescribe[q] # <<>>, toDescribe' = [toDescribe EXCEPT ![q] = Tail(@)],
         NEW T, NEW p \in Pools
  PROVE  Count(toDescribe'[p], T) = Count(toDescribe[p], T) - One(p = q /\ Head(toDescribe[q]) \in T)
<1>1. toDescribe \in [Pools -> Seq(Unit)] /\ toDescribe[p] \in Seq(Unit)
  BY DEF Typed, QueuesOK
<1>2. Count(toDescribe[p], T) \in Nat
  BY <1>1, CountIsNatural
<1>3. CASE p = q
  <2>1. toDescribe'[p] = Tail(toDescribe[q])
    BY <1>1, <1>3
  <2>2. Count(Tail(toDescribe[p]), T) = Count(toDescribe[p], T) - (IF Head(toDescribe[p]) \in T THEN 1 ELSE 0)
    BY <1>1, <1>3, CountOfTail
  <2> QED BY <1>3, <2>1, <2>2 DEF One
<1>4. CASE p # q
  BY <1>1, <1>2, <1>4 DEF One
<1> QED BY <1>3, <1>4

Joins(unit, q) == toDescribe' = [toDescribe EXCEPT ![q] = Append(@, unit)]

LEMMA UnitQueued ==
  ASSUME Typed, NEW q \in Pools, NEW unit \in Unit, Joins(unit, q),
         NEW T, NEW p \in Pools
  PROVE  Count(toDescribe'[p], T) = Count(toDescribe[p], T) + One(p = q /\ unit \in T)
<1>1. toDescribe \in [Pools -> Seq(Unit)] /\ toDescribe[p] \in Seq(Unit)
  BY DEF Typed, QueuesOK
<1>2. Count(toDescribe[p], T) \in Nat
  BY <1>1, CountIsNatural
<1>3. CASE p = q
  <2>1. toDescribe'[p] = Append(toDescribe[p], unit)
    BY <1>1, <1>3 DEF Joins
  <2>2. Count(Append(toDescribe[p], unit), T) = Count(toDescribe[p], T) + (IF unit \in T THEN 1 ELSE 0)
    BY <1>1, CountOfAppend
  <2> QED BY <1>3, <2>1, <2>2 DEF One
<1>4. CASE p # q
  BY <1>1, <1>2, <1>4 DEF One, Joins
<1> QED BY <1>3, <1>4

\* The describers whose unit is in T, when one of them goes on with unit.
LEMMA LeaseChanges ==
  ASSUME Typed, NEW d \in Describers, NEW unit, describer' = [describer EXCEPT ![d] = unit], NEW T
  PROVE  Cardinality(Members(describer', Describers, T))
           = Cardinality(Members(describer, Describers, T)) - One(describer[d] \in T) + One(unit \in T)
<1>1. describer'[d] = unit /\ \A e \in Describers \ {d} : describer'[e] = describer[e]
  BY DEF Typed, WorkersOK
<1>2. Cardinality(Members(describer', Describers, T))
        = Cardinality(Members(describer, Describers, T)) - (IF describer[d] \in T THEN 1 ELSE 0)
          + (IF describer'[d] \in T THEN 1 ELSE 0)
  <2>1. IsFiniteSet(Describers)
    BY WorkQueueAssumption
  <2>2. PICK f : f = describer
    OBVIOUS
  <2>3. PICK g : g = describer'
    OBVIOUS
  <2>4. \A e \in Describers \ {d} : g[e] = f[e]
    BY <1>1, <2>2, <2>3
  <2>5. Cardinality(Members(g, Describers, T)) = Cardinality(Members(f, Describers, T))
          - (IF f[d] \in T THEN 1 ELSE 0) + (IF g[d] \in T THEN 1 ELSE 0)
    BY <2>1, <2>4, MembersChange
  <2> QED BY <2>2, <2>3, <2>5
<1> QED BY <1>1, <1>2 DEF One

-----------------------------------------------------------------------------
(* Slots and units *)

\* A step that moves slots and units alike.
LEMMA SlotsMove ==
  ASSUME Typed, Typed', SlotInv, breaks' = breaks,
         \A k \in Kings, p \in Pools : inFlight'[k][p] - inFlight[k][p] = Tally(k, p)' - Tally(k, p)
  PROVE  SlotInv'
<1> SUFFICES ASSUME NEW k \in Kings, NEW p \in Pools
             PROVE  Tally(k, p)' <= inFlight'[k][p] /\ inFlight'[k][p] <= Tally(k, p)' + breaks'
  BY DEF SlotInv
<1>1. Tally(k, p) \in Nat /\ inFlight[k][p] \in Nat
  BY CountsAreNatural DEF Tally
<1>2. Tally(k, p)' \in Nat /\ inFlight'[k][p] \in Nat
  <2>1. (Requested(k, p) \in Nat /\ Sampled(k, p) \in Nat /\ Queued(k, p) \in Nat /\ Leased(k, p) \in Nat
         /\ inFlight[k][p] \in Nat)'
    BY CountsAreNatural, PTL
  <2> QED BY <2>1 DEF Tally
<1>3. breaks \in Nat
  BY DEF Typed, CountersOK
<1>4. Tally(k, p) <= inFlight[k][p] /\ inFlight[k][p] <= Tally(k, p) + breaks
  BY DEF SlotInv
<1>5. inFlight'[k][p] - inFlight[k][p] = Tally(k, p)' - Tally(k, p)
  OBVIOUS
<1> QED BY <1>1, <1>2, <1>3, <1>4, <1>5

\* A step that leaves every unit where it is.
LEMMA SlotsStay ==
  ASSUME Typed, Typed', SlotInv, UNCHANGED <<inFlight, toFetch, toDescribe, breaks>>,
         \A k \in Kings, p \in Pools : Sampled(k, p)' = Sampled(k, p) /\ Leased(k, p)' = Leased(k, p)
  PROVE  SlotInv'
<1>1. \A k \in Kings, p \in Pools : inFlight'[k][p] - inFlight[k][p] = Tally(k, p)' - Tally(k, p)
  <2> SUFFICES ASSUME NEW k \in Kings, NEW p \in Pools
               PROVE  inFlight'[k][p] - inFlight[k][p] = Tally(k, p)' - Tally(k, p)
    OBVIOUS
  <2>1. Requested(k, p)' = Requested(k, p) /\ Queued(k, p)' = Queued(k, p)
    BY DEF Requested, Queued
  <2> QED BY <2>1, CountsAreNatural DEF Tally
<1> QED BY <1>1, SlotsMove

LEMMA SlotsOfSync == ASSUME Typed, Typed', SlotInv, SyncToDeficits PROVE SlotInv'
<1>1. UNCHANGED <<toDescribe, fetcher, describer, breaks>>
  BY DEF SyncToDeficits, counters
<1>2. CASE UNCHANGED <<inFlight, cancel, toFetch>>
  BY <1>1, <1>2, SlotsStay DEF Sampled, Leased
<1>3. CASE /\ inFlight' = [inFlight EXCEPT ![poll.king] = [p \in Pools |-> @[p] + Max({0, Delta(p)})]]
           /\ toFetch' = [p \in Pools |-> toFetch[p] \o [i \in 1 .. Max({0, Delta(p)}) |-> poll.king]]
  <2> SUFFICES ASSUME NEW k \in Kings, NEW p \in Pools
               PROVE  inFlight'[k][p] - inFlight[k][p] = Tally(k, p)' - Tally(k, p)
    BY <1>1, SlotsMove
  <2>1. poll.king \in Kings /\ Delta(p) \in Int
    BY DEF Typed, PollOK, AccountsOK, SyncToDeficits, Delta
  <2>2. PICK n \in Nat : n = Max({0, Delta(p)})
    BY <2>1, MaxWithZero
  <2>3. inFlight'[k][p] = inFlight[k][p] + (IF k = poll.king THEN n ELSE 0)
    BY <1>3, <2>1, <2>2 DEF Typed, AccountsOK
  <2>4. Count(toFetch'[p], {k}) = Count(toFetch[p], {k}) + (IF poll.king \in {k} THEN n ELSE 0)
    <3>1. toFetch'[p] = toFetch[p] \o [i \in 1 .. n |-> poll.king]
      BY <1>3, <2>2
    <3>2. PICK s \in Seq(Kings) : s = toFetch[p]
      BY DEF Typed, QueuesOK
    <3>3. PICK e \in Kings : e = poll.king
      BY <2>1
    <3>4. Count(s \o [i \in 1 .. n |-> e], {k}) = Count(s, {k}) + (IF e \in {k} THEN n ELSE 0)
      BY CountOfCopies
    <3> QED BY <3>1, <3>2, <3>3, <3>4
  <2>5. Requested(k, p)' = Requested(k, p) + (IF k = poll.king THEN n ELSE 0)
    BY <2>4 DEF Requested
  <2>6. Sampled(k, p)' = Sampled(k, p) /\ Queued(k, p)' = Queued(k, p) /\ Leased(k, p)' = Leased(k, p)
    BY <1>1 DEF Sampled, Queued, Leased
  <2> QED BY <2>3, <2>5, <2>6, CountsAreNatural DEF Tally
<1> QED BY <1>2, <1>3 DEF SyncToDeficits

LEMMA SlotsOfNextToFetch == ASSUME Typed, Typed', SlotInv, NextToFetch PROVE SlotInv'
<1>1. PICK q \in Pools :
        /\ First(toFetch, q)
        /\ toFetch' = [toFetch EXCEPT ![q] = Tail(@)]
        /\ LET k == Head(toFetch[q]) IN
           \/ Drop(k, q) /\ UNCHANGED fetcher
           \/ /\ fetcher' = [Waiting EXCEPT !.step = "sample", !.king = k, !.pool = q]
              /\ UNCHANGED <<inFlight, cancel>>
  BY DEF NextToFetch
<1>2. toFetch[q] # <<>>
  BY <1>1 DEF First
<1>3. PICK j \in Kings : j = Head(toFetch[q])
  BY <1>2, FirstRequest DEF Typed
<1>4. UNCHANGED <<toDescribe, describer, breaks>> /\ fetcher = Waiting
  BY FetcherSteps DEF NextToFetch, counters
<1> SUFFICES ASSUME NEW k \in Kings, NEW p \in Pools
             PROVE  inFlight'[k][p] - inFlight[k][p] = Tally(k, p)' - Tally(k, p)
  BY <1>4, SlotsMove
<1>5. Requested(k, p)' = Requested(k, p) - One(p = q /\ k = j)
  BY <1>1, <1>2, <1>3, RequestTaken
<1>6. Queued(k, p)' = Queued(k, p) /\ Leased(k, p)' = Leased(k, p)
  BY <1>4 DEF Queued, Leased
<1>7. Sampled(k, p) = 0
  <2>1. fetcher \notin UnitsOf(k, p)
    BY <1>4, WorkQueueAssumption DEF UnitsOf, Of, Waiting
  <2> QED BY <2>1 DEF Sampled, One
<1>8. CASE Drop(j, q) /\ UNCHANGED fetcher
  <2>1. Sampled(k, p)' = 0
    BY <1>7, <1>8 DEF Sampled
  <2>2. inFlight'[k][p] = IF k = j /\ p = q /\ inFlight[k][p] > 0 THEN inFlight[k][p] - 1 ELSE inFlight[k][p]
    BY <1>8, DropFrees
  <2>3. Requested(k, p)' \in Nat
    <3>1. (Requested(k, p) \in Nat)'
      BY CountsAreNatural, PTL
    <3> QED BY <3>1
  <2>4. k = j /\ p = q => inFlight[k][p] > 0
    <3>1. Tally(k, p) <= inFlight[k][p]
      BY DEF SlotInv
    <3> QED BY <1>5, <2>3, <3>1, CountsAreNatural DEF Tally, One
  <2> QED BY <1>5, <1>6, <1>7, <2>1, <2>2, <2>4, CountsAreNatural DEF Tally, One
<1>9. CASE fetcher' = [Waiting EXCEPT !.step = "sample", !.king = j, !.pool = q] /\ UNCHANGED <<inFlight, cancel>>
  <2>1. fetcher' = [step |-> "sample", king |-> j, pool |-> q, commit |-> None]
    BY <1>9 DEF Waiting
  <2>2. fetcher' \in UnitsOf(k, p) <=> p = q /\ k = j
    BY <2>1 DEF UnitsOf, Of, Unit
  <2>3. Sampled(k, p)' = One(p = q /\ k = j)
    BY <2>2 DEF Sampled, One
  <2> QED BY <1>5, <1>6, <1>7, <1>9, <2>3, CountsAreNatural DEF Tally, One
<1> QED BY <1>1, <1>3, <1>8, <1>9

\* The fetcher's unit, whose step does not count.
LEMMA SampledIs ==
  ASSUME Typed, NEW k \in Kings, NEW p \in Pools
  PROVE  Sampled(k, p) = One(Of(fetcher, k, p))
<1>1. fetcher \in Unit
  BY UnitsAreUnits DEF Typed, WorkersOK
<1> QED BY <1>1 DEF Sampled, UnitsOf, One

\* The fetcher moves on with its unit.
LEMMA SlotsOfFetcherMove ==
  ASSUME Typed, Typed', SlotInv, UNCHANGED <<inFlight, toFetch, toDescribe, describer, breaks>>,
         fetcher'.king = fetcher.king, fetcher'.pool = fetcher.pool
  PROVE  SlotInv'
<1> SUFFICES ASSUME NEW k \in Kings, NEW p \in Pools
             PROVE  Sampled(k, p)' = Sampled(k, p) /\ Leased(k, p)' = Leased(k, p)
  BY SlotsStay
<1>1. (Sampled(k, p) = One(Of(fetcher, k, p)))'
  BY SampledIs, PTL
<1>2. Sampled(k, p)' = Sampled(k, p)
  BY <1>1, SampledIs DEF Of
<1> QED BY <1>2 DEF Leased

\* The fetcher's request goes back.
LEMMA SlotsOfFetchFailed ==
  ASSUME Typed, Typed', SlotInv, UNCHANGED <<inFlight, toDescribe, describer, breaks>>,
         fetcher.step # "get", FetchFailed
  PROVE  SlotInv'
<1> SUFFICES ASSUME NEW k \in Kings, NEW p \in Pools
             PROVE  inFlight'[k][p] - inFlight[k][p] = Tally(k, p)' - Tally(k, p)
  BY SlotsMove
<1>1. Requested(k, p)' = Requested(k, p) + One(Of(fetcher, k, p))
  BY FetcherSteps, RequestMade DEF FetchFailed
<1>2. Sampled(k, p)' = 0
  <2>1. fetcher' \notin UnitsOf(k, p)
    BY WorkQueueAssumption DEF FetchFailed, UnitsOf, Of, Waiting
  <2> QED BY <2>1 DEF Sampled, One
<1>3. Sampled(k, p) = One(Of(fetcher, k, p))
  BY SampledIs
<1>4. Queued(k, p)' = Queued(k, p) /\ Leased(k, p)' = Leased(k, p)
  BY DEF Queued, Leased
<1> QED BY <1>1, <1>2, <1>3, <1>4, CountsAreNatural DEF Tally, One

\* An exception in the fetcher leaves its unit's slot counted.
LEMMA SlotsOfFetchBreaks == ASSUME Typed, Typed', SlotInv, FetchBreaks PROVE SlotInv'
<1> SUFFICES ASSUME NEW k \in Kings, NEW p \in Pools
             PROVE  Tally(k, p)' <= inFlight'[k][p] /\ inFlight'[k][p] <= Tally(k, p)' + breaks'
  BY DEF SlotInv
<1>1. breaks \in Nat /\ breaks' = breaks + 1 /\ inFlight' = inFlight
  BY DEF FetchBreaks, accounts, Typed, CountersOK
<1>2. Requested(k, p)' = Requested(k, p) /\ Queued(k, p)' = Queued(k, p) /\ Leased(k, p)' = Leased(k, p)
  BY DEF FetchBreaks, Requested, Queued, Leased
<1>3. Sampled(k, p)' = 0
  <2>1. fetcher' \notin UnitsOf(k, p)
    BY WorkQueueAssumption DEF FetchBreaks, UnitsOf, Of, Waiting
  <2> QED BY <2>1 DEF Sampled, One
<1>4. Sampled(k, p) \in {0, 1}
  BY DEF Sampled, One
<1>5. Tally(k, p) <= inFlight[k][p] /\ inFlight[k][p] <= Tally(k, p) + breaks
  BY DEF SlotInv
<1> QED BY <1>1, <1>2, <1>3, <1>4, <1>5, CountsAreNatural DEF Tally

LEMMA SlotsOfSubmit == ASSUME Typed, Typed', SlotInv, SubmitFetched PROVE SlotInv'
<1>1. UNCHANGED <<inFlight, toFetch, describer, breaks>> /\ fetcher.step = "submit"
  BY DEF SubmitFetched, accounts, counters
<1> SUFFICES ASSUME NEW k \in Kings, NEW p \in Pools
             PROVE  inFlight'[k][p] - inFlight[k][p] = Tally(k, p)' - Tally(k, p)
  BY <1>1, SlotsMove
<1>2. fetcher \in Unit /\ fetcher.pool \in Pools
  BY <1>1, FetcherSteps, UnitsAreUnits DEF Typed, WorkersOK
<1>3. Count(toDescribe'[p], UnitsOf(k, p))
        = Count(toDescribe[p], UnitsOf(k, p)) + One(p = fetcher.pool /\ fetcher \in UnitsOf(k, p))
  <2>1. PICK u \in Unit, q \in Pools : u = fetcher /\ q = fetcher.pool
    BY <1>2
  <2>2. Joins(u, q)
    BY <2>1 DEF SubmitFetched, Joins
  <2>3. Count(toDescribe'[p], UnitsOf(k, p)) = Count(toDescribe[p], UnitsOf(k, p)) + One(p = q /\ u \in UnitsOf(k, p))
    BY <2>2, UnitQueued
  <2> QED BY <2>1, <2>3
<1>4. p = fetcher.pool /\ fetcher \in UnitsOf(k, p) <=> Of(fetcher, k, p)
  BY <1>2 DEF UnitsOf, Of
<1>5. Queued(k, p)' = Queued(k, p) + One(Of(fetcher, k, p))
  BY <1>3, <1>4 DEF Queued, One
<1>6. Sampled(k, p)' = 0
  <2>1. fetcher' \notin UnitsOf(k, p)
    BY WorkQueueAssumption DEF SubmitFetched, UnitsOf, Of, Waiting
  <2> QED BY <2>1 DEF Sampled, One
<1>7. Sampled(k, p) = One(Of(fetcher, k, p))
  BY SampledIs
<1>8. Requested(k, p)' = Requested(k, p) /\ Leased(k, p)' = Leased(k, p)
  BY <1>1 DEF Requested, Leased
<1> QED BY <1>1, <1>5, <1>6, <1>7, <1>8, CountsAreNatural DEF Tally, One

\* A unit is done with, and its slot freed.
LEMMA SlotFreed ==
  ASSUME Typed, Typed', SlotInv, breaks' = breaks, NEW j \in Kings, NEW q \in Pools,
         \A k \in Kings, p \in Pools :
           /\ Tally(k, p)' = Tally(k, p) - One(p = q /\ k = j)
           /\ inFlight'[k][p] = IF k = j /\ p = q /\ inFlight[k][p] > 0 THEN inFlight[k][p] - 1 ELSE inFlight[k][p]
  PROVE  SlotInv' /\ inFlight[j][q] > 0
<1>1. ASSUME NEW k \in Kings, NEW p \in Pools
      PROVE  /\ Tally(k, p)' \in Nat /\ Tally(k, p) \in Nat /\ inFlight[k][p] \in Nat
             /\ Tally(k, p) <= inFlight[k][p]
  <2>1. (Requested(k, p) \in Nat /\ Sampled(k, p) \in Nat /\ Queued(k, p) \in Nat /\ Leased(k, p) \in Nat)'
    BY CountsAreNatural, PTL
  <2> QED BY <2>1, CountsAreNatural DEF Tally, SlotInv
<1>2. inFlight[j][q] > 0
  <2>1. Tally(j, q)' = Tally(j, q) - 1
    BY DEF One
  <2> QED BY <2>1, <1>1
<1>3. \A k \in Kings, p \in Pools : inFlight'[k][p] - inFlight[k][p] = Tally(k, p)' - Tally(k, p)
  BY <1>1, <1>2 DEF One
<1> QED BY <1>2, <1>3, SlotsMove

\* A describer's units, when describer d goes on with unit.
LEMMA LeasedChange ==
  ASSUME Typed, NEW d \in Describers, NEW unit \in Unit, describer' = [describer EXCEPT ![d] = unit],
         NEW k \in Kings, NEW p \in Pools
  PROVE  Leased(k, p)' = Leased(k, p) - One(Of(describer[d], k, p)) + One(Of(unit, k, p))
<1>1. Cardinality(Members(describer', Describers, UnitsOf(k, p)))
           = Cardinality(Members(describer, Describers, UnitsOf(k, p)))
             - One(describer[d] \in UnitsOf(k, p)) + One(unit \in UnitsOf(k, p))
  BY LeaseChanges
<1>2. describer[d] \in Unit
  BY UnitsAreUnits DEF Typed, WorkersOK
<1>3. (describer[d] \in UnitsOf(k, p) <=> Of(describer[d], k, p)) /\ (unit \in UnitsOf(k, p) <=> Of(unit, k, p))
  BY <1>2 DEF UnitsOf
<1> QED BY <1>1, <1>3 DEF Leased, One

LEMMA WaitingIsOfNoKing == \A k \in Kings, p \in Pools : ~Of(Waiting, k, p)
BY WorkQueueAssumption DEF Of, Waiting

LEMMA SlotsOfLease ==
  ASSUME Typed, Typed', SlotInv, NEW d \in Describers, LeaseToDescribe(d)
  PROVE  SlotInv'
<1>1. PICK q \in Pools :
        /\ First(toDescribe, q)
        /\ toDescribe' = [toDescribe EXCEPT ![q] = Tail(@)]
        /\ LET unit == Head(toDescribe[q]) IN
           \/ Drop(unit.king, q) /\ UNCHANGED describer
           \/ /\ describer' = [describer EXCEPT ![d] = [unit EXCEPT !.step = "describe"]]
              /\ UNCHANGED <<inFlight, cancel, reserved>>
  BY DEF LeaseToDescribe
<1>2. toDescribe[q] # <<>>
  BY <1>1 DEF First
<1>3. PICK unit \in QueuedUnit(q) : unit = Head(toDescribe[q])
  BY <1>2, FirstUnit DEF Typed
<1>4. unit \in Unit /\ unit.king \in Kings /\ unit.pool = q
  BY <1>3, UnitsAreUnits DEF QueuedUnit
<1>5. UNCHANGED <<toFetch, fetcher, breaks>> /\ describer[d] = Waiting
  BY DescriberSteps DEF LeaseToDescribe, counters
<1>6. ASSUME NEW k \in Kings, NEW p \in Pools
      PROVE  /\ Requested(k, p)' = Requested(k, p) /\ Sampled(k, p)' = Sampled(k, p)
             /\ Queued(k, p)' = Queued(k, p) - One(p = q /\ k = unit.king)
  <2>1. Count(toDescribe'[p], UnitsOf(k, p))
          = Count(toDescribe[p], UnitsOf(k, p)) - One(p = q /\ Head(toDescribe[q]) \in UnitsOf(k, p))
    BY <1>1, <1>2, UnitTaken
  <2>2. p = q /\ unit \in UnitsOf(k, p) <=> p = q /\ k = unit.king
    BY <1>4 DEF UnitsOf, Of
  <2> QED BY <1>3, <1>5, <2>1, <2>2 DEF Requested, Sampled, Queued, One
<1>7. CASE Drop(unit.king, q) /\ UNCHANGED describer
  <2>1. \A k \in Kings, p \in Pools : Tally(k, p)' = Tally(k, p) - One(p = q /\ k = unit.king)
    <3> SUFFICES ASSUME NEW k \in Kings, NEW p \in Pools
                 PROVE  Tally(k, p)' = Tally(k, p) - One(p = q /\ k = unit.king)
      OBVIOUS
    <3>1. Leased(k, p)' = Leased(k, p)
      BY <1>7 DEF Leased
    <3> QED BY <1>6, <3>1, CountsAreNatural DEF Tally, One
  <2>2. PICK j \in Kings : j = unit.king
    BY <1>4
  <2>3. \A k \in Kings, p \in Pools :
          inFlight'[k][p] = IF k = j /\ p = q /\ inFlight[k][p] > 0 THEN inFlight[k][p] - 1 ELSE inFlight[k][p]
    BY <1>7, <2>2, DropFrees
  <2>4. \A k \in Kings, p \in Pools :
          /\ Tally(k, p)' = Tally(k, p) - One(p = q /\ k = j)
          /\ inFlight'[k][p] = IF k = j /\ p = q /\ inFlight[k][p] > 0 THEN inFlight[k][p] - 1 ELSE inFlight[k][p]
    BY <2>1, <2>2, <2>3, Zenon
  <2> QED BY <1>5, <2>4, SlotFreed
<1>8. CASE describer' = [describer EXCEPT ![d] = [unit EXCEPT !.step = "describe"]] /\ UNCHANGED <<inFlight, cancel, reserved>>
  <2> SUFFICES ASSUME NEW k \in Kings, NEW p \in Pools
               PROVE  inFlight'[k][p] - inFlight[k][p] = Tally(k, p)' - Tally(k, p)
    BY <1>5, SlotsMove
  <2>1. PICK u : u = [unit EXCEPT !.step = "describe"]
    OBVIOUS
  <2>2. u \in Unit /\ (Of(u, k, p) <=> p = q /\ k = unit.king)
    BY <1>3, <2>1 DEF QueuedUnit, Unit, Of
  <2>3. Leased(k, p)' = Leased(k, p) - One(Of(describer[d], k, p)) + One(Of(u, k, p))
    BY <1>8, <2>1, <2>2, LeasedChange
  <2>4. Leased(k, p)' = Leased(k, p) + One(p = q /\ k = unit.king)
    BY <1>5, <2>2, <2>3, WaitingIsOfNoKing, CountsAreNatural DEF One
  <2> QED BY <1>6, <1>8, <2>4, CountsAreNatural DEF Tally, One
<1> QED BY <1>1, <1>3, <1>7, <1>8

LEMMA SlotsOfDescribe ==
  ASSUME Typed, Typed', SlotInv, NEW d \in Describers, InsertTask(d) \/ DescribeFails(d) \/ AnswerLost(d)
  PROVE  SlotInv'
<1>1. PICK s \in {"describe", "inserted", "failed"} : describer' = [describer EXCEPT ![d].step = s]
  BY DEF InsertTask, DescribeFails, AnswerLost
<1>2. describer[d].step # "get" /\ UNCHANGED <<inFlight, toFetch, toDescribe, fetcher, breaks>>
  BY DEF InsertTask, DescribeFails, AnswerLost, accounts, counters
<1> SUFFICES ASSUME NEW k \in Kings, NEW p \in Pools
             PROVE  Sampled(k, p)' = Sampled(k, p) /\ Leased(k, p)' = Leased(k, p)
  BY <1>2, SlotsStay
<1>3. PICK u : u = describer'[d]
  OBVIOUS
<1>4. u.king = describer[d].king /\ u.pool = describer[d].pool
  BY <1>1, <1>2, <1>3, DescriberMoves
<1>5. describer' = [describer EXCEPT ![d] = u] /\ u \in Unit
  BY <1>1, <1>2, <1>3, DescriberMoves, UnitsAreUnits DEF Typed, WorkersOK
<1>6. Leased(k, p)' = Leased(k, p) - One(Of(describer[d], k, p)) + One(Of(u, k, p))
  BY <1>5, LeasedChange
<1> QED BY <1>2, <1>4, <1>6, CountsAreNatural DEF Sampled, Of, One

LEMMA SlotsOfFinish ==
  ASSUME Typed, Typed', SlotInv, NEW d \in Describers, FinishDescribe(d)
  PROVE  SlotInv' /\ (describer[d].step = "inserted" => inFlight[describer[d].king][describer[d].pool] > 0)
<1>1. PICK unit : unit = describer[d]
  OBVIOUS
<1>2. unit.king \in Kings /\ unit.pool \in Pools
  BY <1>1, DescriberSteps DEF FinishDescribe
<1>3. UNCHANGED <<toDescribe, fetcher, breaks>>
  BY DEF FinishDescribe, counters
<1>4. ASSUME NEW k \in Kings, NEW p \in Pools
      PROVE  /\ Sampled(k, p)' = Sampled(k, p) /\ Queued(k, p)' = Queued(k, p)
             /\ Leased(k, p)' = Leased(k, p) - One(p = unit.pool /\ k = unit.king)
  <2>1. describer' = [describer EXCEPT ![d] = Waiting]
    BY DEF FinishDescribe
  <2>2. Leased(k, p)' = Leased(k, p) - One(Of(describer[d], k, p)) + One(Of(Waiting, k, p))
    BY <2>1, LeasedChange, WaitingIsAUnit
  <2>3. Leased(k, p)' = Leased(k, p) - One(p = unit.pool /\ k = unit.king)
    BY <1>1, <2>2, WaitingIsOfNoKing, CountsAreNatural DEF Of, One
  <2> QED BY <1>3, <2>3 DEF Sampled, Queued
<1>5. CASE unit.step = "inserted"
  <2>1. PICK n \in Nat : n = inFlight[unit.king][unit.pool]
    BY <1>2, CountsAreNatural
  <2>2. PICK m : m = Max({0, n - 1})
    OBVIOUS
  <2>3. toFetch' = toFetch /\ inFlight' = [inFlight EXCEPT ![unit.king][unit.pool] = m]
    BY <1>1, <1>2, <1>5, <2>1, <2>2 DEF FinishDescribe, Typed, AccountsOK
  <2>4. m = IF n > 0 THEN n - 1 ELSE n
    BY <2>2, MaxWithZero
  <2>5. inFlight \in [Kings -> [Pools -> Nat]]
    BY DEF Typed, AccountsOK
  <2>6. PICK j \in Kings, q \in Pools : j = unit.king /\ q = unit.pool
    BY <1>2
  <2>7. \A k \in Kings, p \in Pools :
          inFlight'[k][p] = IF k = j /\ p = q /\ inFlight[k][p] > 0 THEN inFlight[k][p] - 1 ELSE inFlight[k][p]
    BY <2>1, <2>3, <2>4, <2>5, <2>6
  <2>8. \A k \in Kings, p \in Pools : Tally(k, p)' = Tally(k, p) - One(p = q /\ k = j)
    <3> SUFFICES ASSUME NEW k \in Kings, NEW p \in Pools
                 PROVE  Tally(k, p)' = Tally(k, p) - One(p = q /\ k = j)
      OBVIOUS
    <3>1. Requested(k, p)' = Requested(k, p)
      BY <2>3 DEF Requested
    <3> QED BY <1>4, <2>6, <3>1, CountsAreNatural DEF Tally, One
  <2>9. SlotInv' /\ inFlight[j][q] > 0
    <3>1. breaks' = breaks
      BY <1>3
    <3>2. \A k \in Kings, p \in Pools :
            /\ Tally(k, p)' = Tally(k, p) - One(p = q /\ k = j)
            /\ inFlight'[k][p] = IF k = j /\ p = q /\ inFlight[k][p] > 0 THEN inFlight[k][p] - 1 ELSE inFlight[k][p]
      BY <2>7, <2>8
    <3> QED BY <3>1, <3>2, SlotFreed
  <2> QED BY <1>1, <2>6, <2>9
<1>6. CASE unit.step = "failed"
  <2>1. Requeue(unit) /\ inFlight' = inFlight
    BY <1>1, <1>6 DEF FinishDescribe
  <2>2. SlotInv'
    <3> SUFFICES ASSUME NEW k \in Kings, NEW p \in Pools
                 PROVE  inFlight'[k][p] - inFlight[k][p] = Tally(k, p)' - Tally(k, p)
      BY <1>3, SlotsMove
    <3>1. Requested(k, p)' = Requested(k, p) + One(Of(unit, k, p))
      BY <1>2, <2>1, RequestMade
    <3>2. Requested(k, p)' = Requested(k, p) + One(p = unit.pool /\ k = unit.king)
      BY <3>1 DEF Of, One
    <3> QED BY <1>4, <2>1, <3>2, CountsAreNatural DEF Tally, One
  <2> QED BY <1>1, <1>6, <2>2
<1> QED BY <1>1, <1>5, <1>6 DEF FinishDescribe

\* Nothing is in flight and no unit of work is anywhere.
LEMMA SlotsOfNothing ==
  ASSUME inFlight = NoneInFlight, toFetch = Empty, toDescribe = Empty, fetcher = Waiting,
         describer = [d \in Describers |-> Waiting], breaks \in Nat
  PROVE  SlotInv
<1> SUFFICES ASSUME NEW k \in Kings, NEW p \in Pools
             PROVE  Tally(k, p) <= inFlight[k][p] /\ inFlight[k][p] <= Tally(k, p) + breaks
  BY DEF SlotInv
<1>1. inFlight[k][p] = 0
  BY DEF NoneInFlight
<1>2. Requested(k, p) = 0 /\ Queued(k, p) = 0
  BY CountOfEmpty DEF Empty, Requested, Queued
<1>3. Waiting \notin UnitsOf(k, p)
  BY WaitingIsOfNoKing DEF UnitsOf
<1>4. Sampled(k, p) = 0
  BY <1>3 DEF Sampled, One
<1>5. Leased(k, p) = 0
  <2>1. Members(describer, Describers, UnitsOf(k, p)) = {}
    BY <1>3 DEF Members
  <2> QED BY <2>1, FS_EmptySet DEF Leased
<1> QED BY <1>1, <1>2, <1>4, <1>5 DEF Tally

LEMMA SlotStep == Typed /\ Typed' /\ SlotInv /\ [Next]_vars => SlotInv'
<1> SUFFICES ASSUME Typed, Typed', SlotInv, [Next]_vars PROVE SlotInv'
  OBVIOUS
<1>1. ASSUME UNCHANGED <<accounts, toFetch, toDescribe, fetcher, describer, counters>> PROVE SlotInv'
  BY <1>1, SlotsStay DEF Sampled, Leased, accounts, counters
<1>2. CASE UNCHANGED vars
  BY <1>1, <1>2 DEF vars
<1>3. CASE Controller \/ PollFails
  BY <1>1, <1>3, SlotsOfSync DEF Controller, PollKing, PollTasks, PollFails
<1>4. CASE Fetcher \/ FetchBreaks
  <2>1. CASE NoCommit \/ (Reserve /\ FetchFailed)
    BY <2>1, SlotsOfFetchFailed DEF NoCommit, Reserve, accounts, counters
  <2>2. CASE LookUp
    <3>1. fetcher'.king = fetcher.king /\ fetcher'.pool = fetcher.pool
      BY <2>2, FetcherSteps DEF LookUp
    <3> QED BY <2>2, <3>1, SlotsOfFetcherMove DEF LookUp, accounts, counters
  <2>3. CASE Reserve /\ UNCHANGED toFetch /\ fetcher' = [fetcher EXCEPT !.step = "submit"]
    <3>1. fetcher'.king = fetcher.king /\ fetcher'.pool = fetcher.pool
      BY <2>3, FetcherSteps DEF Reserve
    <3> QED BY <2>3, <3>1, SlotsOfFetcherMove DEF Reserve, accounts, counters
  <2>4. ASSUME NEW c \in Commits, SampleCommit(c) PROVE SlotInv'
    <3>1. fetcher'.king = fetcher.king /\ fetcher'.pool = fetcher.pool
      BY <2>4, FetcherSteps DEF SampleCommit
    <3> QED BY <2>4, <3>1, SlotsOfFetcherMove DEF SampleCommit, accounts, counters
  <2>5. CASE Reserve
    BY <2>1, <2>3, <2>5 DEF Reserve
  <2> QED BY <1>4, <2>1, <2>2, <2>4, <2>5, SlotsOfNextToFetch, SlotsOfSubmit, SlotsOfFetchBreaks DEF Fetcher
<1>5. ASSUME NEW d \in Describers, Describer(d) \/ AnswerLost(d) PROVE SlotInv'
  BY <1>5, SlotsOfLease, SlotsOfDescribe, SlotsOfFinish DEF Describer
<1>6. CASE Restart
  <2>1. (/\ inFlight = NoneInFlight /\ toFetch = Empty /\ toDescribe = Empty /\ fetcher = Waiting
         /\ describer = [d \in Describers |-> Waiting] /\ breaks \in Nat)'
    BY <1>6 DEF Restart, Typed, CountersOK, NoneInFlight, Empty, Waiting
  <2> QED BY <2>1, SlotsOfNothing, PTL
<1>7. CASE (\E c \in Commits : Settle(c)) \/ (\E k \in Kings : Succeed(k))
  BY <1>1, <1>7 DEF Settle, Succeed
<1> QED BY <1>2, <1>3, <1>4, <1>5, <1>6, <1>7 DEF Next

-----------------------------------------------------------------------------
(* Commits and the units that hold them *)

QueuedWithOf(queues, X) == [p \in Pools |-> Count(queues[p], With(X))]

LEMMA QueuedWithTyped ==
  ASSUME Typed, NEW X
  PROVE  QueuedWithOf(toDescribe, X) \in [Pools -> Nat] /\ QueuedWith(X) = SumFunction(QueuedWithOf(toDescribe, X))
<1>1. \A p \in Pools : Count(toDescribe[p], With(X)) \in Nat
  BY CountIsNatural DEF Typed, QueuesOK
<1> QED BY <1>1 DEF QueuedWithOf, QueuedWith

LEMMA HeldIsNatural ==
  ASSUME Typed, NEW X
  PROVE  Submitting(X) \in Nat /\ QueuedWith(X) \in Nat /\ LeasedWith(X) \in Nat /\ HeldOf(X) \in Nat
<1>1. QueuedWith(X) \in Nat
  BY QueuedWithTyped, SumNat, WorkQueueAssumption
<1>2. LeasedWith(X) \in Nat
  BY MembersFinite, WorkQueueAssumption DEF LeasedWith
<1>3. Submitting(X) \in Nat
  BY DEF Submitting, One
<1> QED BY <1>1, <1>2, <1>3 DEF HeldOf

LEMMA HeldsAreNatural == Typed => \A X : HeldOf(X) \in Nat
BY HeldIsNatural

\* A step on the queue of one pool changes the sum by what it changes there.
LEMMA QueuedWithChange ==
  ASSUME Typed, Typed', NEW X, NEW q \in Pools, NEW n \in Int,
         \A p \in Pools : Count(toDescribe'[p], With(X)) = Count(toDescribe[p], With(X)) + (IF p = q THEN n ELSE 0)
  PROVE  QueuedWith(X)' = QueuedWith(X) + n
<1>1. PICK f \in [Pools -> Nat] : f = QueuedWithOf(toDescribe, X) /\ QueuedWith(X) = SumFunction(f)
  BY QueuedWithTyped
<1>2. (QueuedWithOf(toDescribe, X) \in [Pools -> Nat] /\ QueuedWith(X) = SumFunction(QueuedWithOf(toDescribe, X)))'
  BY QueuedWithTyped, PTL
<1>3. PICK g \in [Pools -> Nat] : g = QueuedWithOf(toDescribe', X) /\ QueuedWith(X)' = SumFunction(g)
  BY <1>2 DEF QueuedWithOf
<1>4. \A p \in Pools : g[p] = f[p] + (IF p = q THEN n ELSE 0)
  BY <1>1, <1>3 DEF QueuedWithOf
<1>5. IsFiniteSet(Pools) /\ f \in [Pools -> Int] /\ g \in [Pools -> Int] /\ \A p \in Pools \ {q} : g[p] = f[p]
  BY <1>4, WorkQueueAssumption
<1>6. SumFunction(g) = SumFunction(f) - f[q] + g[q]
  BY <1>5, SumChange
<1>7. SumFunction(f) \in Nat
  BY SumNat, WorkQueueAssumption
<1> QED BY <1>1, <1>3, <1>4, <1>6, <1>7

\* No commit is taken and none released.
LEMMA HeldStay ==
  ASSUME HeldInv, reserved' = reserved, \A X \in SUBSET Commits : HeldOf(X)' = HeldOf(X)
  PROVE  HeldInv'
<1>1. \A c \in Commits : HeldOf({c})' = HeldOf({c})
  OBVIOUS
<1>2. HeldOf(Commits)' = HeldOf(Commits)
  OBVIOUS
<1> QED BY <1>1, <1>2 DEF HeldInv

LEMMA HeldTaken ==
  ASSUME Typed, HeldInv, NEW c \in Commits, c \notin reserved, reserved' = reserved \cup {c},
         \A X \in SUBSET Commits : HeldOf(X)' = HeldOf(X) + One(c \in X)
  PROVE  HeldInv'
<1>1. \A e \in Commits : HeldOf({e})' = HeldOf({e}) + One(e = c)
  BY DEF One
<1>2. HeldOf(Commits)' = HeldOf(Commits) + 1
  BY DEF One
<1>3. IsFiniteSet(reserved)
  BY FS_Subset, WorkQueueAssumption DEF Typed, WorkersOK
<1>4. Cardinality(reserved \cup {c}) = Cardinality(reserved) + 1
  BY <1>3, FS_AddElement
<1> QED BY <1>1, <1>2, <1>4 DEF HeldInv, One

LEMMA HeldReleased ==
  ASSUME Typed, Typed', HeldInv, NEW c \in Commits, reserved' = reserved \ {c},
         \A X \in SUBSET Commits : HeldOf(X)' = HeldOf(X) - One(c \in X)
  PROVE  HeldInv' /\ c \in reserved
<1>1. \A e \in Commits : HeldOf({e})' = HeldOf({e}) - One(e = c)
  BY DEF One
<1>2. HeldOf(Commits)' = HeldOf(Commits) - 1
  BY DEF One
<1>3. IsFiniteSet(reserved)
  BY FS_Subset, WorkQueueAssumption DEF Typed, WorkersOK
<1>4. c \in reserved
  <2>1. (\A X : HeldOf(X) \in Nat)'
    BY HeldsAreNatural, PTL
  <2>2. HeldOf({c})' = HeldOf({c}) - 1
    BY <1>1 DEF One
  <2>3. HeldOf({c}) = One(c \in reserved)
    BY DEF HeldInv
  <2> QED BY <2>1, <2>2, <2>3 DEF One
<1>5. Cardinality(reserved \ {c}) = Cardinality(reserved) - 1
  BY <1>3, <1>4, FS_RemoveElement
<1> QED BY <1>1, <1>2, <1>4, <1>5 DEF HeldInv, One

\* The units with a commit of X among the describers', when d goes on with unit.
LEMMA LeasedWithChange ==
  ASSUME Typed, NEW d \in Describers, NEW unit \in Unit, describer' = [describer EXCEPT ![d] = unit], NEW X
  PROVE  LeasedWith(X)' = LeasedWith(X) - One(describer[d].commit \in X) + One(unit.commit \in X)
<1>1. Cardinality(Members(describer', Describers, With(X)))
           = Cardinality(Members(describer, Describers, With(X)))
             - One(describer[d] \in With(X)) + One(unit \in With(X))
  BY LeaseChanges
<1>2. describer[d] \in Unit
  BY UnitsAreUnits DEF Typed, WorkersOK
<1>3. (describer[d] \in With(X) <=> describer[d].commit \in X) /\ (unit \in With(X) <=> unit.commit \in X)
  BY <1>2 DEF With
<1> QED BY <1>1, <1>3 DEF LeasedWith, One

LEMMA HeldOfSubmit == ASSUME Typed, Typed', HeldInv, SubmitFetched PROVE HeldInv'
<1>1. UNCHANGED <<describer, reserved>> /\ fetcher.step = "submit" /\ fetcher' = Waiting
  BY DEF SubmitFetched
<1> SUFFICES ASSUME NEW X \in SUBSET Commits PROVE HeldOf(X)' = HeldOf(X)
  BY <1>1, HeldStay
<1>2. PICK u \in Unit, q \in Pools : u = fetcher /\ q = fetcher.pool
  BY <1>1, FetcherSteps, UnitsAreUnits DEF Typed, WorkersOK
<1>3. Joins(u, q)
  BY <1>2 DEF SubmitFetched, Joins
<1>4. \A p \in Pools : Count(toDescribe'[p], With(X)) = Count(toDescribe[p], With(X)) + (IF p = q THEN One(u \in With(X)) ELSE 0)
  <2> SUFFICES ASSUME NEW p \in Pools
               PROVE  Count(toDescribe'[p], With(X)) = Count(toDescribe[p], With(X)) + (IF p = q THEN One(u \in With(X)) ELSE 0)
    OBVIOUS
  <2>1. Count(toDescribe'[p], With(X)) = Count(toDescribe[p], With(X)) + One(p = q /\ u \in With(X))
    BY <1>3, UnitQueued
  <2> QED BY <2>1 DEF One
<1>5. QueuedWith(X)' = QueuedWith(X) + One(u \in With(X))
  <2>1. One(u \in With(X)) \in Int
    BY DEF One
  <2> QED BY <1>4, <2>1, QueuedWithChange
<1>6. Submitting(X) = One(u \in With(X))
  BY <1>1, <1>2 DEF Submitting, With, One
<1>7. Submitting(X)' = 0
  BY <1>1 DEF Submitting, Waiting, One
<1>8. LeasedWith(X)' = LeasedWith(X)
  BY <1>1 DEF LeasedWith
<1> QED BY <1>5, <1>6, <1>7, <1>8, HeldIsNatural DEF HeldOf

LEMMA HeldOfReserve == ASSUME Typed, Typed', HeldInv, Reserve PROVE HeldInv'
<1>1. UNCHANGED <<toDescribe, describer>> /\ fetcher.step \in {"skip", "reserve"}
  BY DEF Reserve
<1>2. ASSUME NEW X
      PROVE  Submitting(X) = 0 /\ QueuedWith(X)' = QueuedWith(X) /\ LeasedWith(X)' = LeasedWith(X)
  BY <1>1 DEF Submitting, One, QueuedWith, LeasedWith
<1>3. CASE /\ TakesCommit
           /\ reserved' = reserved \cup {fetcher.commit}
           /\ fetcher' = [fetcher EXCEPT !.step = "submit"]
  <2>1. PICK c \in Commits : c = fetcher.commit
    BY <1>1, FetcherSteps
  <2>2. fetcher'.step = "submit" /\ fetcher'.commit = c
    BY <1>1, <1>3, <2>1, FetcherSteps
  <2>3. \A X \in SUBSET Commits : HeldOf(X)' = HeldOf(X) + One(c \in X)
    <3> SUFFICES ASSUME NEW X \in SUBSET Commits PROVE HeldOf(X)' = HeldOf(X) + One(c \in X)
      OBVIOUS
    <3>1. Submitting(X)' = One(c \in X)
      BY <2>2 DEF Submitting, One
    <3> QED BY <1>2, <3>1, HeldIsNatural DEF HeldOf, One
  <2> QED BY <1>3, <2>1, <2>3, HeldTaken DEF TakesCommit
<1>4. CASE FetchFailed /\ UNCHANGED reserved
  <2> SUFFICES ASSUME NEW X \in SUBSET Commits PROVE HeldOf(X)' = HeldOf(X)
    BY <1>4, HeldStay
  <2>1. Submitting(X)' = 0
    BY <1>4 DEF FetchFailed, Submitting, Waiting, One
  <2> QED BY <1>2, <2>1 DEF HeldOf
<1> QED BY <1>3, <1>4 DEF Reserve

\* The other steps of the fetcher neither take a commit nor hand one on.
LEMMA HeldOfFetch ==
  ASSUME Typed, Typed', HeldInv, UNCHANGED <<toDescribe, describer, reserved>>,
         fetcher' = fetcher \/ (fetcher.step # "submit" /\ fetcher'.step # "submit")
  PROVE  HeldInv'
<1> SUFFICES ASSUME NEW X \in SUBSET Commits PROVE HeldOf(X)' = HeldOf(X)
  BY HeldStay
<1>1. Submitting(X)' = Submitting(X)
  BY DEF Submitting, One
<1> QED BY <1>1 DEF HeldOf, QueuedWith, LeasedWith

LEMMA HeldOfLease ==
  ASSUME Typed, Typed', HeldInv, NEW d \in Describers, LeaseToDescribe(d)
  PROVE  HeldInv'
<1>1. PICK q \in Pools :
        /\ First(toDescribe, q)
        /\ toDescribe' = [toDescribe EXCEPT ![q] = Tail(@)]
        /\ LET unit == Head(toDescribe[q]) IN
           \/ reserved' = reserved \ {unit.commit} /\ UNCHANGED describer
           \/ /\ describer' = [describer EXCEPT ![d] = [unit EXCEPT !.step = "describe"]]
              /\ UNCHANGED <<inFlight, cancel, reserved>>
  BY DEF LeaseToDescribe
<1>2. toDescribe[q] # <<>>
  BY <1>1 DEF First
<1>3. PICK unit \in QueuedUnit(q) : unit = Head(toDescribe[q])
  BY <1>2, FirstUnit DEF Typed
<1>4. unit \in Unit /\ unit.commit \in Commits
  BY <1>3, UnitsAreUnits DEF QueuedUnit
<1>5. fetcher' = fetcher /\ describer[d] = Waiting
  BY DescriberSteps DEF LeaseToDescribe
<1>6. ASSUME NEW X \in SUBSET Commits
      PROVE  Submitting(X)' = Submitting(X) /\ QueuedWith(X)' = QueuedWith(X) - One(unit.commit \in X)
  <2>1. \A p \in Pools : Count(toDescribe'[p], With(X))
                           = Count(toDescribe[p], With(X)) + (IF p = q THEN -One(unit.commit \in X) ELSE 0)
    <3> SUFFICES ASSUME NEW p \in Pools
                 PROVE  Count(toDescribe'[p], With(X))
                          = Count(toDescribe[p], With(X)) + (IF p = q THEN -One(unit.commit \in X) ELSE 0)
      OBVIOUS
    <3>1. Count(toDescribe'[p], With(X)) = Count(toDescribe[p], With(X)) - One(p = q /\ Head(toDescribe[q]) \in With(X))
      BY <1>1, <1>2, UnitTaken
    <3>2. Head(toDescribe[q]) \in With(X) <=> unit.commit \in X
      BY <1>3, <1>4 DEF With
    <3>3. Count(toDescribe[p], With(X)) \in Nat
      BY CountIsNatural DEF Typed, QueuesOK
    <3> QED BY <3>1, <3>2, <3>3 DEF One
  <2>2. -One(unit.commit \in X) \in Int
    BY DEF One
  <2>3. QueuedWith(X)' = QueuedWith(X) + (-One(unit.commit \in X))
    BY <2>1, <2>2, QueuedWithChange
  <2> QED BY <1>5, <2>3, HeldIsNatural DEF Submitting, One
<1>7. CASE reserved' = reserved \ {unit.commit} /\ UNCHANGED describer
  <2>1. \A X \in SUBSET Commits : HeldOf(X)' = HeldOf(X) - One(unit.commit \in X)
    <3> SUFFICES ASSUME NEW X \in SUBSET Commits PROVE HeldOf(X)' = HeldOf(X) - One(unit.commit \in X)
      OBVIOUS
    <3>1. LeasedWith(X)' = LeasedWith(X)
      BY <1>7 DEF LeasedWith
    <3> QED BY <1>6, <3>1, HeldIsNatural DEF HeldOf, One
  <2>2. PICK c \in Commits : c = unit.commit
    BY <1>4
  <2> QED BY <1>7, <2>1, <2>2, HeldReleased
<1>8. CASE describer' = [describer EXCEPT ![d] = [unit EXCEPT !.step = "describe"]] /\ UNCHANGED <<inFlight, cancel, reserved>>
  <2> SUFFICES ASSUME NEW X \in SUBSET Commits PROVE HeldOf(X)' = HeldOf(X)
    BY <1>8, HeldStay
  <2>1. PICK u : u = [unit EXCEPT !.step = "describe"]
    OBVIOUS
  <2>2. u \in Unit /\ u.commit = unit.commit
    BY <1>3, <2>1 DEF QueuedUnit, Unit
  <2>3. LeasedWith(X)' = LeasedWith(X) - One(describer[d].commit \in X) + One(u.commit \in X)
    BY <1>8, <2>1, <2>2, LeasedWithChange
  <2>4. describer[d].commit \notin X
    BY <1>5, WorkQueueAssumption DEF Waiting
  <2> QED BY <1>6, <2>2, <2>3, <2>4, HeldIsNatural DEF HeldOf, One
<1> QED BY <1>1, <1>3, <1>7, <1>8

LEMMA HeldOfDescribe ==
  ASSUME Typed, Typed', HeldInv, NEW d \in Describers, InsertTask(d) \/ DescribeFails(d) \/ AnswerLost(d)
  PROVE  HeldInv'
<1>1. PICK s \in {"describe", "inserted", "failed"} : describer' = [describer EXCEPT ![d].step = s]
  BY DEF InsertTask, DescribeFails, AnswerLost
<1>2. describer[d].step # "get" /\ UNCHANGED <<toDescribe, fetcher, reserved>>
  BY DEF InsertTask, DescribeFails, AnswerLost
<1> SUFFICES ASSUME NEW X \in SUBSET Commits PROVE HeldOf(X)' = HeldOf(X)
  BY <1>2, HeldStay
<1>3. PICK u : u = describer'[d]
  OBVIOUS
<1>4. u.commit = describer[d].commit
  BY <1>1, <1>2, <1>3, DescriberMoves
<1>5. describer' = [describer EXCEPT ![d] = u] /\ u \in Unit
  BY <1>1, <1>2, <1>3, DescriberMoves, UnitsAreUnits DEF Typed, WorkersOK
<1>6. LeasedWith(X)' = LeasedWith(X) - One(describer[d].commit \in X) + One(u.commit \in X)
  BY <1>5, LeasedWithChange
<1>7. Submitting(X)' = Submitting(X) /\ QueuedWith(X)' = QueuedWith(X)
  BY <1>2 DEF Submitting, QueuedWith
<1> QED BY <1>4, <1>6, <1>7, HeldIsNatural DEF HeldOf, One

LEMMA HeldOfFinish ==
  ASSUME Typed, Typed', HeldInv, NEW d \in Describers, FinishDescribe(d)
  PROVE  HeldInv'
<1>1. PICK c \in Commits : c = describer[d].commit
  BY DescriberSteps DEF FinishDescribe
<1>2. \A X \in SUBSET Commits : HeldOf(X)' = HeldOf(X) - One(c \in X)
  <2> SUFFICES ASSUME NEW X \in SUBSET Commits PROVE HeldOf(X)' = HeldOf(X) - One(c \in X)
    OBVIOUS
  <2>1. describer' = [describer EXCEPT ![d] = Waiting]
    BY DEF FinishDescribe
  <2>2. LeasedWith(X)' = LeasedWith(X) - One(describer[d].commit \in X) + One(Waiting.commit \in X)
    BY <2>1, LeasedWithChange, WaitingIsAUnit
  <2>3. Waiting.commit \notin X
    BY WorkQueueAssumption DEF Waiting
  <2>4. Submitting(X)' = Submitting(X) /\ QueuedWith(X)' = QueuedWith(X)
    BY DEF FinishDescribe, Submitting, QueuedWith
  <2> QED BY <1>1, <2>2, <2>3, <2>4, HeldIsNatural DEF HeldOf, One
<1>3. reserved' = reserved \ {c}
  BY <1>1 DEF FinishDescribe
<1> QED BY <1>2, <1>3, HeldReleased

LEMMA HeldOfNothing ==
  ASSUME Typed, toDescribe = Empty, fetcher = Waiting, describer = [d \in Describers |-> Waiting], reserved = {}
  PROVE  HeldInv
<1>1. ASSUME NEW X \in SUBSET Commits PROVE HeldOf(X) = 0
  <2>1. QueuedWith(X) = 0
    <3>1. \A p \in Pools : QueuedWithOf(toDescribe, X)[p] = 0
      BY CountOfEmpty DEF Empty, QueuedWithOf
    <3>2. QueuedWithOf(toDescribe, X) \in [Pools -> Int] /\ IsFiniteSet(Pools)
      BY QueuedWithTyped, WorkQueueAssumption
    <3> QED BY <3>1, <3>2, QueuedWithTyped, SumZero
  <2>2. Submitting(X) = 0
    BY DEF Submitting, Waiting, One
  <2>3. LeasedWith(X) = 0
    <3>1. Members(describer, Describers, With(X)) = {}
      BY WorkQueueAssumption DEF Members, With, Waiting
    <3> QED BY <3>1, FS_EmptySet DEF LeasedWith
  <2> QED BY <2>1, <2>2, <2>3 DEF HeldOf
<1>2. \A c \in Commits : HeldOf({c}) = 0
  BY <1>1
<1>3. HeldOf(Commits) = 0
  BY <1>1
<1> QED BY <1>2, <1>3, FS_EmptySet DEF HeldInv, One

LEMMA HeldStep == Typed /\ Typed' /\ HeldInv /\ [Next]_vars => HeldInv'
<1> SUFFICES ASSUME Typed, Typed', HeldInv, [Next]_vars PROVE HeldInv'
  OBVIOUS
<1>1. CASE UNCHANGED vars
  BY <1>1, HeldOfFetch DEF vars
<1>2. CASE Controller \/ PollFails
  BY <1>2, HeldOfFetch DEF Controller, PollKing, PollTasks, PollFails, SyncToDeficits
<1>3. CASE Fetcher \/ FetchBreaks
  <2>1. CASE NextToFetch
    BY <2>1, HeldOfFetch DEF NextToFetch, Waiting
  <2>2. CASE NoCommit \/ FetchBreaks
    BY <2>2, HeldOfFetch DEF NoCommit, FetchBreaks, FetchFailed, Waiting
  <2>3. CASE LookUp
    <3>1. fetcher.step # "submit" /\ fetcher'.step # "submit"
      BY <2>3, FetcherSteps DEF LookUp
    <3> QED BY <2>3, <3>1, HeldOfFetch DEF LookUp
  <2>4. ASSUME NEW c \in Commits, SampleCommit(c) PROVE HeldInv'
    <3>1. fetcher.step # "submit" /\ fetcher'.step # "submit"
      BY <2>4, FetcherSteps DEF SampleCommit
    <3> QED BY <2>4, <3>1, HeldOfFetch DEF SampleCommit
  <2> QED BY <1>3, <2>1, <2>2, <2>3, <2>4, HeldOfSubmit, HeldOfReserve DEF Fetcher
<1>4. ASSUME NEW d \in Describers, Describer(d) \/ AnswerLost(d) PROVE HeldInv'
  BY <1>4, HeldOfLease, HeldOfDescribe, HeldOfFinish DEF Describer
<1>5. CASE Restart
  <2>1. (/\ toDescribe = Empty /\ fetcher = Waiting /\ describer = [d \in Describers |-> Waiting] /\ reserved = {})'
    BY <1>5 DEF Restart, Empty, Waiting
  <2> QED BY <2>1, HeldOfNothing, PTL
<1>6. CASE (\E c \in Commits : Settle(c)) \/ (\E k \in Kings : Succeed(k))
  BY <1>6, HeldOfFetch DEF Settle, Succeed
<1> QED BY <1>1, <1>2, <1>3, <1>4, <1>5, <1>6 DEF Next

-----------------------------------------------------------------------------
(* The load *)

\* A step that launches nothing: the load grows by lost answers at most.
LEMMA LoadStays ==
  ASSUME Typed, Typed', LoadInv, poll' = poll \/ poll'.step # "sync", lost' >= lost,
         \A k \in Kings, p \in Pools : /\ inFlight'[k][p] <= inFlight[k][p]
                                       /\ LoadOf(k, p)' <= LoadOf(k, p) + (lost' - lost)
  PROVE  LoadInv'
<1> SUFFICES ASSUME NEW k \in Kings, NEW p \in Pools
             PROVE  /\ inFlight'[k][p] <= InflightTarget
                    /\ LoadOf(k, p)' <= 2 * InflightTarget + lost'
                    /\ (poll'.step = "sync" /\ poll'.king = k /\ poll'.needed[p] > 0) =>
                         LoadOf(k, p)' + poll'.needed[p] <= 2 * InflightTarget + lost'
  BY DEF LoadInv
<1>1. inFlight[k][p] \in Nat /\ LoadOf(k, p) \in Int /\ InflightTarget \in Nat /\ lost \in Nat
  BY CountsAreNatural, WorkQueueAssumption DEF LoadOf, Typed, CountersOK
<1>2. inFlight'[k][p] \in Nat /\ LoadOf(k, p)' \in Int /\ lost' \in Nat
  <2>1. (QueuedTasks(k, p) \in Nat /\ inFlight[k][p] \in Nat /\ Inserting(k, p) \in Nat)'
    BY CountsAreNatural, PTL
  <2> QED BY <2>1 DEF LoadOf, Typed, CountersOK
<1>3. /\ inFlight[k][p] <= InflightTarget
      /\ LoadOf(k, p) <= 2 * InflightTarget + lost
      /\ (poll.step = "sync" /\ poll.king = k /\ poll.needed[p] > 0) =>
           LoadOf(k, p) + poll.needed[p] <= 2 * InflightTarget + lost
  BY DEF LoadInv
<1>4. inFlight'[k][p] <= inFlight[k][p] /\ LoadOf(k, p)' <= LoadOf(k, p) + (lost' - lost)
  OBVIOUS
<1>5. poll' = poll => poll'.needed[p] \in Nat
  BY WorkQueueAssumption DEF Typed, PollOK
<1>6. inFlight'[k][p] <= InflightTarget /\ LoadOf(k, p)' <= 2 * InflightTarget + lost'
  BY <1>1, <1>2, <1>3, <1>4
<1>7. ASSUME poll'.step = "sync", poll'.king = k, poll'.needed[p] > 0
      PROVE  LoadOf(k, p)' + poll'.needed[p] <= 2 * InflightTarget + lost'
  <2>1. poll' = poll
    BY <1>7
  <2> QED BY <1>1, <1>2, <1>3, <1>4, <1>5, <1>7, <2>1
<1> QED BY <1>6, <1>7

LEMMA InsertingChange ==
  ASSUME Typed, NEW d \in Describers, NEW unit \in Unit, describer' = [describer EXCEPT ![d] = unit],
         NEW k \in Kings, NEW p \in Pools
  PROVE  Inserting(k, p)' = Inserting(k, p) - One(describer[d].step = "inserted" /\ Of(describer[d], k, p))
                            + One(unit.step = "inserted" /\ Of(unit, k, p))
<1>1. Cardinality(Members(describer', Describers, InsertedOf(k, p)))
           = Cardinality(Members(describer, Describers, InsertedOf(k, p)))
             - One(describer[d] \in InsertedOf(k, p)) + One(unit \in InsertedOf(k, p))
  BY LeaseChanges
<1>2. describer[d] \in Unit
  BY UnitsAreUnits DEF Typed, WorkersOK
<1>3. /\ describer[d] \in InsertedOf(k, p) <=> describer[d].step = "inserted" /\ Of(describer[d], k, p)
      /\ unit \in InsertedOf(k, p) <=> unit.step = "inserted" /\ Of(unit, k, p)
  BY <1>2 DEF InsertedOf
<1> QED BY <1>1, <1>3 DEF Inserting, One

LEMMA TaskInserted ==
  ASSUME Typed, NEW unit, unit.commit \in Commits, unit.king \in Kings, unit.pool \in Pools,
         row[unit.commit] = None, Inserted(unit), NEW k \in Kings, NEW p \in Pools
  PROVE  QueuedTasks(k, p)' = QueuedTasks(k, p) + One(Of(unit, k, p))
<1>1. PICK c \in Commits : c = unit.commit
  OBVIOUS
<1>2. PICK f : f = row
  OBVIOUS
<1>3. PICK g : g = row'
  OBVIOUS
<1>4. PICK t : t = [king |-> k, pool |-> p, status |-> "queued"]
  OBVIOUS
<1>5. g[c] = [king |-> unit.king, pool |-> unit.pool, status |-> "queued"] /\ \A e \in Commits \ {c} : g[e] = f[e]
  BY <1>1, <1>2, <1>3 DEF Inserted, Typed, TablesOK
<1>6. g[c] \in {t} <=> Of(unit, k, p)
  BY <1>4, <1>5 DEF Of
<1>7. f[c] \notin {t}
  <2>1. t \in Row
    BY <1>4 DEF Row
  <2> QED BY <1>1, <1>2, <2>1, NoneIsNoRow
<1>8. IsFiniteSet(Commits)
  BY WorkQueueAssumption
<1>9. Cardinality(Members(g, Commits, {t})) = Cardinality(Members(f, Commits, {t}))
         - (IF f[c] \in {t} THEN 1 ELSE 0) + (IF g[c] \in {t} THEN 1 ELSE 0)
  <2>1. \A e \in Commits \ {c} : g[e] = f[e]
    BY <1>5
  <2> HIDE <1>5
  <2> QED BY <1>8, <2>1, MembersChange
<1>10. Cardinality(Members(f, Commits, {t})) \in Nat
  BY <1>8, MembersFinite
<1>11. QueuedTasks(k, p) = Cardinality(Members(f, Commits, {t})) /\ QueuedTasks(k, p)' = Cardinality(Members(g, Commits, {t}))
  BY <1>2, <1>3, <1>4 DEF QueuedTasks
<1> QED BY <1>6, <1>7, <1>9, <1>10, <1>11 DEF One

\* Once a task is admitted or dropped there are no more of the queue of any pool.
LEMMA LoadOfSettle == ASSUME Typed, Typed', LoadInv, NEW c \in Commits, Settle(c) PROVE LoadInv'
<1>1. UNCHANGED <<poll, inFlight, describer, lost>>
  BY DEF Settle, accounts, counters
<1>2. \A e \in Commits, k \in Kings, p \in Pools :
        row'[e] = [king |-> k, pool |-> p, status |-> "queued"] => row'[e] = row[e]
  <2>1. \A e \in Commits : row'[e] = row[e] \/ row'[e].status # "queued"
    <3>1. \A e \in Commits, s \in {"qualified", "dropped"} :
            row[e] # None => [row[e] EXCEPT !.status = s].status # "queued"
      BY DEF Typed, TablesOK, Row
    <3>2. row[c] # None /\ \A e \in Rows(row[c].king, row[c].pool, "queued") : row[e] # None
      <4>1. row[c] # None /\ row[c] \in Row
        BY DEF Settle, Typed, TablesOK
      <4>2. [king |-> row[c].king, pool |-> row[c].pool, status |-> "queued"] \in Row
        BY <4>1 DEF Row
      <4> QED BY <4>1, <4>2, NoneIsNoRow DEF Rows
    <3>3. CASE row' = [row EXCEPT ![c].status = "dropped"]
      <4>1. row' = [row EXCEPT ![c] = [row[c] EXCEPT !.status = "dropped"]]
        BY <3>3 DEF Typed, TablesOK
      <4> QED BY <3>1, <3>2, <4>1 DEF Typed, TablesOK
    <3>4. CASE row' # [row EXCEPT ![c].status = "dropped"]
      <4>1. PICK late \in SUBSET Commits :
              /\ \A e \in late : row[e] # None
              /\ row' = [e \in Commits |->
                           IF e = c THEN [row[c] EXCEPT !.status = "qualified"]
                           ELSE IF e \in late THEN [row[e] EXCEPT !.status = "dropped"] ELSE row[e]]
        <5> DEFINE fills == Cardinality(Rows(row[c].king, row[c].pool, "qualified")) + 1 >= Target[row[c].pool]
                   late == {e \in Commits : fills /\ e \in Rows(row[c].king, row[c].pool, "queued")}
        <5>1. row' = [e \in Commits |->
                        IF e = c THEN [row[c] EXCEPT !.status = "qualified"]
                        ELSE IF e \in late THEN [row[e] EXCEPT !.status = "dropped"] ELSE row[e]]
          BY <3>4 DEF Settle
        <5>2. \A e \in late : row[e] # None
          BY <3>2
        <5> QED BY <5>1, <5>2
      <4> QED BY <3>1, <3>2, <4>1
    <3> QED BY <3>3, <3>4
  <2> QED BY <2>1
<1>3. ASSUME NEW k \in Kings, NEW p \in Pools
      PROVE  inFlight'[k][p] <= inFlight[k][p] /\ LoadOf(k, p)' <= LoadOf(k, p) + (lost' - lost)
  <2>1. PICK t : t = [king |-> k, pool |-> p, status |-> "queued"]
    OBVIOUS
  <2>2. Members(row', Commits, {t}) \in SUBSET Members(row, Commits, {t})
    BY <1>2, <2>1 DEF Members
  <2>3. IsFiniteSet(Members(row, Commits, {t}))
    BY MembersFinite, WorkQueueAssumption
  <2>4. Cardinality(Members(row', Commits, {t})) <= Cardinality(Members(row, Commits, {t}))
    BY <2>2, <2>3, FS_Subset
  <2>5. QueuedTasks(k, p)' <= QueuedTasks(k, p) /\ Inserting(k, p)' = Inserting(k, p)
    BY <1>1, <2>1, <2>4 DEF QueuedTasks, Inserting
  <2>6. (QueuedTasks(k, p) \in Nat)' /\ lost \in Nat
    BY CountsAreNatural, PTL DEF Typed, CountersOK
  <2> QED BY <1>1, <2>5, <2>6, CountsAreNatural DEF LoadOf, Typed, CountersOK
<1>4. lost \in Nat
  BY DEF Typed, CountersOK
<1> QED BY <1>1, <1>3, <1>4, LoadStays

\* Steps that insert nothing and launch nothing.
LEMMA LoadOfRest ==
  ASSUME Typed, Typed', LoadInv, UNCHANGED <<row, lost>>, poll' = poll \/ poll'.step # "sync",
         \A k \in Kings, p \in Pools : inFlight'[k][p] <= inFlight[k][p] /\ Inserting(k, p)' = Inserting(k, p)
  PROVE  LoadInv'
<1>1. ASSUME NEW k \in Kings, NEW p \in Pools PROVE LoadOf(k, p)' <= LoadOf(k, p) + (lost' - lost)
  <2>1. QueuedTasks(k, p)' = QueuedTasks(k, p)
    BY DEF QueuedTasks
  <2>2. (inFlight[k][p] \in Nat)'
    BY CountsAreNatural, PTL
  <2>3. inFlight'[k][p] <= inFlight[k][p] /\ Inserting(k, p)' = Inserting(k, p)
    OBVIOUS
  <2> QED BY <2>1, <2>2, <2>3, CountsAreNatural DEF LoadOf, Typed, CountersOK
<1>2. lost' >= lost
  BY DEF Typed, CountersOK
<1> QED BY <1>1, <1>2, LoadStays

\* A poll asks for a share of the load, less the tasks already queued.
LEMMA LoadOfPollTasks == ASSUME Typed, Typed', LoadInv, PollTasks PROVE LoadInv'
<1>1. UNCHANGED <<row, inFlight, describer, lost>>
  BY DEF PollTasks, db, accounts, counters
<1>2. PICK j : j = poll.king
  OBVIOUS
<1>3. poll'.step = "sync" /\ poll'.king = j /\ poll'.needed = [p \in Pools |-> Deficit(j, p)]
  <2>1. PICK r : r = [p \in Pools |-> Deficit(poll.king, p)]
    OBVIOUS
  <2>2. poll' = [poll EXCEPT !.step = "sync", !.needed = r]
    BY <2>1 DEF PollTasks
  <2> QED BY <1>2, <2>1, <2>2 DEF Typed, PollOK
<1> SUFFICES ASSUME NEW k \in Kings, NEW p \in Pools
             PROVE  /\ inFlight'[k][p] <= InflightTarget
                    /\ LoadOf(k, p)' <= 2 * InflightTarget + lost'
                    /\ (poll'.step = "sync" /\ poll'.king = k /\ poll'.needed[p] > 0) =>
                         LoadOf(k, p)' + poll'.needed[p] <= 2 * InflightTarget + lost'
  BY DEF LoadInv
<1>4. LoadOf(k, p)' = LoadOf(k, p)
  BY <1>1 DEF LoadOf, QueuedTasks, Inserting
<1>5. inFlight[k][p] <= InflightTarget /\ LoadOf(k, p) <= 2 * InflightTarget + lost
  BY DEF LoadInv
<1>6. ASSUME j = k, Deficit(k, p) > 0 PROVE LoadOf(k, p) + Deficit(k, p) <= 2 * InflightTarget + lost
  <2>1. Deficit(k, p) \in 0 .. InflightTarget /\ Deficit(k, p) + Cardinality(Rows(k, p, "queued")) <= InflightTarget
    BY <1>6, DeficitIs
  <2>2. Cardinality(Rows(k, p, "queued")) = QueuedTasks(k, p)
    BY RowsAreMembers DEF QueuedTasks
  <2>3. lost \in Nat /\ InflightTarget \in Nat
    BY WorkQueueAssumption DEF Typed, CountersOK
  <2> QED BY <1>5, <2>1, <2>2, <2>3, CountsAreNatural DEF LoadOf
<1> QED BY <1>1, <1>3, <1>4, <1>5, <1>6

\* The requests launched bring the king's load to what it was, with what the poll asked for.
LEMMA LoadOfSync == ASSUME Typed, Typed', LoadInv, SyncToDeficits PROVE LoadInv'
<1>1. UNCHANGED <<row, describer, lost>> /\ poll' = NoPoll /\ poll.step = "sync"
  BY DEF SyncToDeficits, db, counters
<1>2. poll'.step # "sync"
  BY <1>1 DEF NoPoll
<1>3. CASE UNCHANGED inFlight
  BY <1>1, <1>2, <1>3, LoadOfRest, CountsAreNatural DEF Inserting
<1>4. CASE inFlight' = [inFlight EXCEPT ![poll.king] = [p \in Pools |-> @[p] + Max({0, Delta(p)})]]
  <2> SUFFICES ASSUME NEW k \in Kings, NEW p \in Pools
               PROVE  inFlight'[k][p] <= InflightTarget /\ LoadOf(k, p)' <= 2 * InflightTarget + lost'
    BY <1>2 DEF LoadInv
  <2>1. PICK n \in 0 .. InflightTarget : n = poll.needed[p]
    BY DEF Typed, PollOK
  <2>2. PICK f \in Nat : f = inFlight[k][p]
    BY CountsAreNatural
  <2>3. QueuedTasks(k, p)' = QueuedTasks(k, p) /\ Inserting(k, p)' = Inserting(k, p)
    BY <1>1 DEF QueuedTasks, Inserting
  <2>4. f <= InflightTarget /\ LoadOf(k, p) <= 2 * InflightTarget + lost
    BY <2>2 DEF LoadInv
  <2>5. CASE poll.king = k
    <3>1. PICK m : m = Max({0, n - f})
      OBVIOUS
    <3>2. Delta(p) = n - f
      BY <2>1, <2>2, <2>5 DEF Delta
    <3>3. inFlight'[k][p] = f + m
      BY <1>4, <2>2, <2>5, <3>1, <3>2 DEF Typed, AccountsOK
    <3>4. m = IF n > f THEN n - f ELSE 0
      <4>1. n - f \in Int
        BY <2>1, <2>2
      <4>2. m = IF n - f > 0 THEN n - f ELSE 0
        BY <3>1, <4>1, MaxWithZero
      <4> QED BY <2>1, <2>2, <4>2
    <3>5. inFlight'[k][p] = IF n > f THEN n ELSE f
      BY <2>1, <2>2, <3>3, <3>4
    <3>6. n > 0 => LoadOf(k, p) + n <= 2 * InflightTarget + lost
      BY <1>1, <2>1, <2>5 DEF LoadInv
    <3>7. lost \in Nat /\ InflightTarget \in Nat
      BY WorkQueueAssumption DEF Typed, CountersOK
    <3> QED BY <1>1, <2>1, <2>2, <2>3, <2>4, <3>5, <3>6, <3>7, CountsAreNatural DEF LoadOf
  <2>6. CASE poll.king # k
    <3>1. inFlight'[k][p] = f
      BY <1>4, <2>2, <2>6 DEF Typed, AccountsOK
    <3> QED BY <1>1, <2>2, <2>3, <2>4, <3>1 DEF LoadOf
  <2> QED BY <2>5, <2>6
<1> QED BY <1>3, <1>4 DEF SyncToDeficits

\* A slot freed lowers the load.
LEMMA DropFits ==
  ASSUME Typed, NEW j \in Kings, NEW q \in Pools, Drop(j, q), NEW k \in Kings, NEW p \in Pools
  PROVE  inFlight'[k][p] <= inFlight[k][p]
BY DropFrees, CountsAreNatural

LEMMA LoadOfFetch == ASSUME Typed, Typed', LoadInv, Fetcher \/ FetchBreaks PROVE LoadInv'
<1>1. UNCHANGED <<row, poll, describer, lost>>
  BY DEF Fetcher, FetchBreaks, NextToFetch, NoCommit, LookUp, Reserve, SubmitFetched, SampleCommit, db, counters
<1> SUFFICES ASSUME NEW k \in Kings, NEW p \in Pools PROVE inFlight'[k][p] <= inFlight[k][p]
  BY <1>1, LoadOfRest DEF Inserting
<1>2. CASE UNCHANGED inFlight
  BY <1>2, CountsAreNatural
<1>3. CASE NextToFetch
  <2>1. PICK q \in Pools : First(toFetch, q) /\ (Drop(Head(toFetch[q]), q) \/ UNCHANGED inFlight)
    BY <1>3 DEF NextToFetch
  <2>2. Head(toFetch[q]) \in Kings
    BY <2>1, FirstRequest DEF Typed, First
  <2> QED BY <1>2, <2>1, <2>2, DropFits
<1> QED BY <1>2, <1>3 DEF Fetcher, FetchBreaks, NoCommit, LookUp, Reserve, SubmitFetched, SampleCommit, accounts

LEMMA LoadOfLease ==
  ASSUME Typed, Typed', LoadInv, NEW d \in Describers, LeaseToDescribe(d)
  PROVE  LoadInv'
<1>1. PICK q \in Pools :
        /\ First(toDescribe, q)
        /\ LET unit == Head(toDescribe[q]) IN
           \/ Drop(unit.king, q) /\ UNCHANGED describer
           \/ /\ describer' = [describer EXCEPT ![d] = [unit EXCEPT !.step = "describe"]]
              /\ UNCHANGED <<inFlight, cancel, reserved>>
  BY DEF LeaseToDescribe
<1>2. PICK unit \in QueuedUnit(q) : unit = Head(toDescribe[q])
  BY <1>1, FirstUnit DEF Typed, First
<1>3. UNCHANGED <<row, poll, lost>> /\ describer[d] = Waiting
  BY DescriberSteps DEF LeaseToDescribe, db, counters
<1> SUFFICES ASSUME NEW k \in Kings, NEW p \in Pools
             PROVE  inFlight'[k][p] <= inFlight[k][p] /\ Inserting(k, p)' = Inserting(k, p)
  BY <1>3, LoadOfRest
<1>4. CASE Drop(unit.king, q) /\ UNCHANGED describer
  <2>1. PICK j \in Kings : j = unit.king
    BY <1>2 DEF QueuedUnit
  <2> QED BY <1>4, <2>1, DropFits DEF Inserting
<1>5. CASE describer' = [describer EXCEPT ![d] = [unit EXCEPT !.step = "describe"]] /\ UNCHANGED <<inFlight, cancel, reserved>>
  <2>1. PICK u : u = [unit EXCEPT !.step = "describe"]
    OBVIOUS
  <2>2. u \in Unit /\ u.step # "inserted"
    BY <1>2, <2>1 DEF QueuedUnit, Unit
  <2>3. Inserting(k, p)' = Inserting(k, p) - One(describer[d].step = "inserted" /\ Of(describer[d], k, p))
                            + One(u.step = "inserted" /\ Of(u, k, p))
    BY <1>5, <2>1, <2>2, InsertingChange
  <2> QED BY <1>3, <1>5, <2>2, <2>3, CountsAreNatural DEF Waiting, One
<1> QED BY <1>1, <1>2, <1>4, <1>5

LEMMA LoadOfDescribe ==
  ASSUME Typed, Typed', LoadInv, NEW d \in Describers, InsertTask(d) \/ DescribeFails(d) \/ AnswerLost(d)
  PROVE  LoadInv'
<1>1. PICK s \in {"inserted", "failed"} : describer' = [describer EXCEPT ![d].step = s]
  BY DEF InsertTask, DescribeFails, AnswerLost
<1>2. describer[d].step = "describe" /\ UNCHANGED <<poll, inFlight>>
  BY DEF InsertTask, DescribeFails, AnswerLost, accounts
<1>3. PICK u : u = describer'[d]
  OBVIOUS
<1>4. u.step = s /\ u.king = describer[d].king /\ u.pool = describer[d].pool
  <2>1. describer[d].step # "get" /\ s \in {"describe", "inserted", "failed"}
    BY <1>2
  <2>2. describer'[d] = [step |-> s, king |-> describer[d].king, pool |-> describer[d].pool,
                         commit |-> describer[d].commit]
    BY <1>1, <2>1, DescriberMoves
  <2> QED BY <1>3, <2>2
<1>5. describer' = [describer EXCEPT ![d] = u] /\ u \in Unit
  BY <1>1, <1>2, <1>3, DescriberMoves, UnitsAreUnits DEF Typed, WorkersOK
<1>6. ASSUME NEW k \in Kings, NEW p \in Pools
      PROVE  Inserting(k, p)' = Inserting(k, p) + One(s = "inserted" /\ Of(describer[d], k, p))
  <2>1. Inserting(k, p)' = Inserting(k, p) - One(describer[d].step = "inserted" /\ Of(describer[d], k, p))
                            + One(u.step = "inserted" /\ Of(u, k, p))
    BY <1>5, InsertingChange
  <2> QED BY <1>2, <1>4, <2>1, CountsAreNatural DEF Of, One
<1>7. ASSUME row[describer[d].commit] = None, Inserted(describer[d]), NEW k \in Kings, NEW p \in Pools
      PROVE  QueuedTasks(k, p)' = QueuedTasks(k, p) + One(Of(describer[d], k, p))
  <2>1. describer[d].king \in Kings /\ describer[d].pool \in Pools /\ describer[d].commit \in Commits
    BY <1>2, DescriberSteps
  <2> QED BY <1>7, <2>1, TaskInserted
<1>8. /\ lost' >= lost
      /\ \A k \in Kings, p \in Pools : LoadOf(k, p)' <= LoadOf(k, p) + (lost' - lost)
  <2>1. CASE row[describer[d].commit] = None /\ Inserted(describer[d]) /\ s = "inserted" /\ lost' = lost
    BY <1>2, <1>6, <1>7, <2>1, CountsAreNatural DEF LoadOf, One, Typed, CountersOK
  <2>2. CASE row[describer[d].commit] = None /\ Inserted(describer[d]) /\ s = "failed" /\ lost' = lost + 1
    BY <1>2, <1>6, <1>7, <2>2, CountsAreNatural DEF LoadOf, One, Typed, CountersOK
  <2>3. CASE row' = row /\ s = "failed" /\ lost' = lost
    <3>1. \A k \in Kings, p \in Pools : QueuedTasks(k, p)' = QueuedTasks(k, p)
      BY <2>3 DEF QueuedTasks
    <3> QED BY <1>2, <1>6, <2>3, <3>1, CountsAreNatural DEF LoadOf, One, Typed, CountersOK
  <2>4. s = describer'[d].step
    BY <1>3, <1>4
  <2>5. \A t \in {"inserted", "failed"} : describer' = [describer EXCEPT ![d].step = t] => s = t
    BY <1>2, <1>3, <1>4, DescriberMoves
  <2> QED BY <2>1, <2>2, <2>3, <2>5 DEF InsertTask, DescribeFails, AnswerLost, db, counters
<1>9. \A k \in Kings, p \in Pools : inFlight'[k][p] <= inFlight[k][p]
  BY <1>2, CountsAreNatural
<1> QED BY <1>2, <1>8, <1>9, LoadStays

\* The unit of an inserted task gives its slot back with the task.
LEMMA LoadOfFinish ==
  ASSUME Typed, Typed', SlotInv, LoadInv, NEW d \in Describers, FinishDescribe(d)
  PROVE  LoadInv'
<1>1. PICK unit : unit = describer[d]
  OBVIOUS
<1>2. unit.king \in Kings /\ unit.pool \in Pools
  BY <1>1, DescriberSteps DEF FinishDescribe
<1>3. UNCHANGED <<row, poll, lost>>
  BY DEF FinishDescribe, db, counters
<1>4. ASSUME NEW k \in Kings, NEW p \in Pools
      PROVE  Inserting(k, p)' = Inserting(k, p) - One(unit.step = "inserted" /\ Of(unit, k, p))
  <2>1. describer' = [describer EXCEPT ![d] = Waiting]
    BY DEF FinishDescribe
  <2>2. Inserting(k, p)' = Inserting(k, p) - One(describer[d].step = "inserted" /\ Of(describer[d], k, p))
                            + One(Waiting.step = "inserted" /\ Of(Waiting, k, p))
    BY <2>1, InsertingChange, WaitingIsAUnit
  <2> QED BY <1>1, <2>2, CountsAreNatural DEF Waiting, One
<1>5. CASE unit.step = "inserted"
  <2>1. PICK n \in Nat : n = inFlight[unit.king][unit.pool]
    BY <1>2, CountsAreNatural
  <2>2. n > 0
    BY <1>1, <1>5, <2>1, SlotsOfFinish
  <2>3. Max({0, n - 1}) = n - 1
    <3>1. n - 1 \in Int
      BY <2>1
    <3>2. Max({0, n - 1}) = IF n - 1 > 0 THEN n - 1 ELSE 0
      BY <3>1, MaxWithZero
    <3> QED BY <2>2, <3>2
  <2>4. inFlight' = [inFlight EXCEPT ![unit.king][unit.pool] = n - 1]
    BY <1>1, <1>2, <1>5, <2>1, <2>3 DEF FinishDescribe, Typed, AccountsOK
  <2>5. \A k \in Kings, p \in Pools : inFlight'[k][p] = inFlight[k][p] - One(Of(unit, k, p))
    <3>1. inFlight \in [Kings -> [Pools -> Nat]]
      BY DEF Typed, AccountsOK
    <3> QED BY <1>2, <2>1, <2>4, <3>1 DEF Of, One
  <2>6. ASSUME NEW k \in Kings, NEW p \in Pools
        PROVE  inFlight'[k][p] <= inFlight[k][p] /\ LoadOf(k, p)' <= LoadOf(k, p) + (lost' - lost)
    <3>1. QueuedTasks(k, p)' = QueuedTasks(k, p)
      BY <1>3 DEF QueuedTasks
    <3> QED BY <1>3, <1>4, <1>5, <2>5, <3>1, CountsAreNatural DEF LoadOf, One, Typed, CountersOK
  <2> QED BY <1>3, <2>6, LoadStays DEF Typed, CountersOK
<1>6. CASE unit.step = "failed"
  <2>1. inFlight' = inFlight
    BY <1>1, <1>6 DEF FinishDescribe
  <2>2. \A k \in Kings, p \in Pools : inFlight'[k][p] <= inFlight[k][p] /\ Inserting(k, p)' = Inserting(k, p)
    BY <1>4, <1>6, <2>1, CountsAreNatural DEF One
  <2> QED BY <1>3, <2>2, LoadOfRest
<1> QED BY <1>1, <1>5, <1>6 DEF FinishDescribe

\* A restart forgets the units in flight, inserted tasks among them.
LEMMA LoadOfRestart == ASSUME Typed, Typed', SlotInv, LoadInv, Restart PROVE LoadInv'
<1>1. UNCHANGED <<row, lost>> /\ poll' = NoPoll /\ inFlight' = NoneInFlight /\ lost \in Nat
  BY DEF Restart, db, Typed, CountersOK
<1>2. ASSUME NEW k \in Kings, NEW p \in Pools
      PROVE  inFlight'[k][p] <= inFlight[k][p] /\ LoadOf(k, p)' <= LoadOf(k, p) + (lost' - lost)
  <2>1. inFlight'[k][p] = 0
    BY <1>1 DEF NoneInFlight
  <2>2. (Inserting(k, p) \in Nat)'
    BY CountsAreNatural, PTL
  <2>3. Inserting(k, p) <= Tally(k, p) /\ Tally(k, p) <= inFlight[k][p] /\ Tally(k, p) \in Nat
    BY CountsAreNatural DEF Tally, SlotInv
  <2>4. QueuedTasks(k, p)' = QueuedTasks(k, p)
    BY <1>1 DEF QueuedTasks
  <2>5. LoadOf(k, p)' = QueuedTasks(k, p) - Inserting(k, p)'
    BY <2>1, <2>2, <2>4, CountsAreNatural DEF LoadOf
  <2> QED BY <1>1, <2>1, <2>2, <2>3, <2>5, CountsAreNatural DEF LoadOf
<1>3. poll'.step # "sync"
  BY <1>1 DEF NoPoll
<1> QED BY <1>1, <1>2, <1>3, LoadStays

LEMMA LoadStep == Typed /\ Typed' /\ SlotInv /\ LoadInv /\ [Next]_vars => LoadInv'
<1> SUFFICES ASSUME Typed, Typed', SlotInv, LoadInv, [Next]_vars PROVE LoadInv'
  OBVIOUS
<1>1. ASSUME UNCHANGED <<row, inFlight, describer, lost>>, poll' = poll \/ poll'.step # "sync" PROVE LoadInv'
  BY <1>1, LoadOfRest, CountsAreNatural DEF Inserting
<1>2. CASE UNCHANGED vars
  BY <1>1, <1>2 DEF vars, db, accounts, counters
<1>3. CASE PollKing
  <2>1. poll'.step # "sync"
    BY <1>3 DEF PollKing, Typed, PollOK
  <2> QED BY <1>1, <1>3, <2>1 DEF PollKing, db, accounts, counters
<1>4. CASE PollFails
  BY <1>1, <1>4 DEF PollFails, NoPoll, db, accounts, counters
<1>5. CASE PollTasks \/ SyncToDeficits
  BY <1>5, LoadOfPollTasks, LoadOfSync
<1>6. ASSUME NEW d \in Describers, Describer(d) \/ AnswerLost(d) PROVE LoadInv'
  BY <1>6, LoadOfLease, LoadOfDescribe, LoadOfFinish DEF Describer
<1>7. ASSUME NEW k \in Kings, Succeed(k) PROVE LoadInv'
  BY <1>1, <1>7 DEF Succeed, accounts, counters
<1> QED BY <1>2, <1>3, <1>4, <1>5, <1>6, <1>7, LoadOfFetch, LoadOfRestart, LoadOfSettle DEF Next, Controller

-----------------------------------------------------------------------------
(* The inductive invariant implies the properties *)

LEMMA TallyIsUnits == ASSUME Typed, NEW k \in Kings, NEW p \in Pools PROVE Tally(k, p) = Units(k, p)
<1>1. /\ \A i \in DOMAIN toDescribe[p] : toDescribe[p][i] \in Unit
      /\ \A d \in Describers : describer[d] \in Unit
  <2>1. toDescribe[p] \in Seq(Unit)
    BY DEF Typed, QueuesOK
  <2> QED BY <2>1, UnitsAreUnits, ElementOfSeq DEF Typed, WorkersOK
<1>2. Positions(toFetch[p], {k}) = {i \in DOMAIN toFetch[p] : toFetch[p][i] = k}
  BY DEF Positions
<1>3. Positions(toDescribe[p], UnitsOf(k, p)) = {i \in DOMAIN toDescribe[p] : Of(toDescribe[p][i], k, p)}
  BY <1>1 DEF Positions, UnitsOf
<1>4. Members(describer, Describers, UnitsOf(k, p)) = {d \in Describers : Of(describer[d], k, p)}
  BY <1>1 DEF Members, UnitsOf
<1>5. Units(k, p) = Requested(k, p) + Queued(k, p) + Leased(k, p) + (IF Of(fetcher, k, p) THEN 1 ELSE 0)
  BY <1>2, <1>3, <1>4 DEF Units, Requested, Queued, Leased, Count
<1>6. Sampled(k, p) = IF Of(fetcher, k, p) THEN 1 ELSE 0
  BY SampledIs DEF One
<1> QED BY <1>5, <1>6, CountsAreNatural DEF Tally

LEMMA HeldBy ==
  ASSUME NEW c
  PROVE  c \in HeldCommits <=> \/ fetcher.step = "submit" /\ fetcher.commit = c
                               \/ \E p \in Pools : \E i \in DOMAIN toDescribe[p] : toDescribe[p][i].commit = c
                               \/ \E d \in Describing : describer[d].commit = c
<1> DEFINE inFetcher == {fetcher.commit : x \in {"submit"} \cap {fetcher.step}}
           inQueues == UNION {{toDescribe[p][i].commit : i \in DOMAIN toDescribe[p]} : p \in Pools}
           inDescribers == {describer[d].commit : d \in Describing}
<1>1. c \in inFetcher <=> fetcher.step = "submit" /\ fetcher.commit = c
  OBVIOUS
<1>2. c \in inQueues <=> \E p \in Pools : \E i \in DOMAIN toDescribe[p] : toDescribe[p][i].commit = c
  OBVIOUS
<1>3. c \in inDescribers <=> \E d \in Describing : describer[d].commit = c
  OBVIOUS
<1>4. HeldCommits = inFetcher \cup inQueues \cup inDescribers
  BY DEF HeldCommits
<1> HIDE DEF inFetcher, inQueues, inDescribers
<1> QED BY <1>1, <1>2, <1>3, <1>4

\* A unit holds a commit when it is counted among those that hold it.
LEMMA HeldIsHeld ==
  ASSUME Typed, NEW c \in Commits
  PROVE  c \in HeldCommits <=> HeldOf({c}) # 0
<1>1. fetcher.step = "submit" /\ fetcher.commit = c <=> Submitting({c}) # 0
  BY DEF Submitting, One
<1>2. (\E p \in Pools : \E i \in DOMAIN toDescribe[p] : toDescribe[p][i].commit = c) <=> QueuedWith({c}) # 0
  <2>1. PICK f \in [Pools -> Nat] : f = QueuedWithOf(toDescribe, {c}) /\ QueuedWith({c}) = SumFunction(f)
    BY QueuedWithTyped
  <2>2. \A p \in Pools : f[p] # 0 <=> \E i \in DOMAIN toDescribe[p] : toDescribe[p][i].commit = c
    <3> SUFFICES ASSUME NEW p \in Pools
                 PROVE  f[p] # 0 <=> \E i \in DOMAIN toDescribe[p] : toDescribe[p][i].commit = c
      OBVIOUS
    <3>1. toDescribe[p] \in Seq(Unit)
      BY DEF Typed, QueuesOK
    <3>2. \A i \in DOMAIN toDescribe[p] : toDescribe[p][i] \in Unit
      BY <3>1, ElementOfSeq
    <3>3. IsFiniteSet(Positions(toDescribe[p], With({c})))
      BY <3>1, CountIsNatural
    <3>4. f[p] = Cardinality(Positions(toDescribe[p], With({c})))
      BY <2>1 DEF QueuedWithOf, Count
    <3>5. f[p] # 0 <=> Positions(toDescribe[p], With({c})) # {}
      BY <3>3, <3>4, FS_EmptySet
    <3> QED BY <3>2, <3>5 DEF Positions, With
  <2>3. IsFiniteSet(Pools) /\ f \in [Pools -> Int]
    BY WorkQueueAssumption
  <2>4. (\A p \in Pools : f[p] = 0) => SumFunction(f) = 0
    BY <2>3, SumZero
  <2>5. \A p \in Pools : f[p] <= SumFunction(f)
    BY <2>3, SumAtLeast
  <2>6. (\E p \in Pools : f[p] # 0) <=> SumFunction(f) # 0
    BY <2>4, <2>5
  <2> QED BY <2>1, <2>2, <2>6
<1>3. (\E d \in Describing : describer[d].commit = c) <=> LeasedWith({c}) # 0
  <2>1. IsFiniteSet(Members(describer, Describers, With({c})))
    BY MembersFinite, WorkQueueAssumption
  <2>2. LeasedWith({c}) # 0 <=> Members(describer, Describers, With({c})) # {}
    BY <2>1, FS_EmptySet DEF LeasedWith
  <2>3. \A d \in Describers : describer[d] \in Unit /\ (describer[d].step = "get" => describer[d].commit = None)
    BY UnitsAreUnits, DescriberSteps DEF Typed, WorkersOK, Waiting
  <2> QED BY <2>2, <2>3, WorkQueueAssumption DEF Members, With, Describing
<1>4. HeldOf({c}) # 0 <=> Submitting({c}) # 0 \/ QueuedWith({c}) # 0 \/ LeasedWith({c}) # 0
  BY HeldIsNatural DEF HeldOf
<1>5. c \in HeldCommits <=> \/ fetcher.step = "submit" /\ fetcher.commit = c
                            \/ \E p \in Pools : \E i \in DOMAIN toDescribe[p] : toDescribe[p][i].commit = c
                            \/ \E d \in Describing : describer[d].commit = c
  BY HeldBy
<1> QED BY <1>1, <1>2, <1>3, <1>4, <1>5

LEMMA HoldersAreHeld == ASSUME Typed PROVE HeldOf(Commits) = Holders
<1>1. QueuedWith(Commits) = QueuedToDescribe
  <2>1. \A p \in Pools : Count(toDescribe[p], With(Commits)) = Len(toDescribe[p])
    <3> SUFFICES ASSUME NEW p \in Pools PROVE Count(toDescribe[p], With(Commits)) = Len(toDescribe[p])
      OBVIOUS
    <3>1. toDescribe[p] \in Seq(QueuedUnit(p))
      BY DEF Typed, QueuesOK
    <3>2. \A i \in DOMAIN toDescribe[p] : toDescribe[p][i] \in QueuedUnit(p)
      BY <3>1, ElementOfSeq
    <3>3. QueuedUnit(p) \subseteq With(Commits)
      BY UnitsAreUnits DEF QueuedUnit, With
    <3>4. Positions(toDescribe[p], With(Commits)) = DOMAIN toDescribe[p]
      BY <3>2, <3>3 DEF Positions
    <3>5. DOMAIN toDescribe[p] = 1 .. Len(toDescribe[p]) /\ Len(toDescribe[p]) \in Nat
      BY <3>1
    <3> QED BY <3>4, <3>5, FS_Interval DEF Count
  <2> QED BY <2>1 DEF QueuedWith, QueuedToDescribe
<1>2. LeasedWith(Commits) = Cardinality(Describing)
  <2>1. \A d \in Describers : describer[d] \in With(Commits) <=> describer[d].step # "get"
    <3> SUFFICES ASSUME NEW d \in Describers PROVE describer[d] \in With(Commits) <=> describer[d].step # "get"
      OBVIOUS
    <3>1. describer[d] \in Unit /\ (describer[d].step = "get" => describer[d].commit = None)
                                /\ (describer[d].step # "get" => describer[d].commit \in Commits)
      BY UnitsAreUnits, DescriberSteps DEF Typed, WorkersOK, Waiting
    <3> QED BY <3>1, WorkQueueAssumption DEF With
  <2>2. Members(describer, Describers, With(Commits)) = Describing
    BY <2>1 DEF Members, Describing
  <2> QED BY <2>2 DEF LeasedWith
<1>3. Submitting(Commits) = IF fetcher.step = "submit" THEN 1 ELSE 0
  BY FetcherSteps DEF Submitting, One
<1>4. QueuedWith(Commits) \in Nat /\ LeasedWith(Commits) \in Nat
  BY HeldIsNatural
<1> QED BY <1>1, <1>2, <1>3, <1>4 DEF HeldOf, Holders

LEMMA OneUnitPerCommitFollows == Typed /\ HeldInv => OneUnitPerCommit
<1> SUFFICES ASSUME Typed, HeldInv PROVE OneUnitPerCommit
  OBVIOUS
<1>1. \A c \in Commits : c \in reserved <=> c \in HeldCommits
  <2> SUFFICES ASSUME NEW c \in Commits PROVE c \in reserved <=> c \in HeldCommits
    OBVIOUS
  <2>1. HeldOf({c}) = IF c \in reserved THEN 1 ELSE 0
    BY DEF HeldInv, One
  <2>2. c \in HeldCommits <=> HeldOf({c}) # 0
    BY HeldIsHeld
  <2> QED BY <2>1, <2>2
<1>2. HeldCommits \subseteq Commits
  <2>1. fetcher.step = "submit" => fetcher.commit \in Commits
    BY FetcherSteps
  <2>2. \A d \in Describing : describer[d].commit \in Commits
    BY DescriberSteps DEF Describing
  <2>3. ASSUME NEW p \in Pools, NEW i \in DOMAIN toDescribe[p] PROVE toDescribe[p][i].commit \in Commits
    <3>1. toDescribe[p] \in Seq(QueuedUnit(p))
      BY DEF Typed, QueuesOK
    <3>2. toDescribe[p][i] \in QueuedUnit(p)
      BY <3>1, ElementOfSeq
    <3> QED BY <3>2 DEF QueuedUnit
  <2> SUFFICES ASSUME NEW c \in HeldCommits PROVE c \in Commits
    OBVIOUS
  <2>4. \/ fetcher.step = "submit" /\ fetcher.commit = c
        \/ \E p \in Pools : \E i \in DOMAIN toDescribe[p] : toDescribe[p][i].commit = c
        \/ \E d \in Describing : describer[d].commit = c
    BY HeldBy
  <2> QED BY <2>1, <2>2, <2>3, <2>4
<1>3. reserved \subseteq Commits
  BY DEF Typed, WorkersOK
<1>4. reserved = HeldCommits
  BY <1>1, <1>2, <1>3
<1>5. Cardinality(reserved) = Holders
  BY HoldersAreHeld DEF HeldInv
<1> QED BY <1>4, <1>5 DEF OneUnitPerCommit

LEMMA LoadIsBoundedFollows == Typed /\ LoadInv => LoadIsBounded
<1> SUFFICES ASSUME Typed, LoadInv, NEW p \in Pools PROVE Load(p) <= 2 * InflightTarget + lost
  BY DEF LoadIsBounded
<1>1. king \in Kings
  BY DEF Typed, TablesOK
<1>2. Cardinality(Rows(king, p, "queued")) = QueuedTasks(king, p)
  BY RowsAreMembers DEF QueuedTasks
<1>3. {d \in Describers : describer[d].step = "inserted" /\ Of(describer[d], king, p)}
        = Members(describer, Describers, InsertedOf(king, p))
  <2>1. \A d \in Describers : describer[d] \in Unit
    BY UnitsAreUnits DEF Typed, WorkersOK
  <2> QED BY <2>1 DEF Members, InsertedOf
<1>4. Load(p) = LoadOf(king, p)
  BY <1>2, <1>3 DEF Load, LoadOf, Inserting
<1> QED BY <1>1, <1>4 DEF LoadInv

LEMMA QueueTypeOKFollows == Typed => QueueTypeOK
<1> SUFFICES ASSUME Typed PROVE QueueTypeOK
  OBVIOUS
<1>1. fetcher \in Unit /\ describer \in [Describers -> Unit]
  BY UnitsAreUnits DEF Typed, WorkersOK
<1> QED BY <1>1 DEF Typed, TablesOK, PollOK, AccountsOK, QueuesOK, WorkersOK, CountersOK, QueueTypeOK

\* Without an exception in the fetcher no slot is without a unit.
LEMMA SlotsMatchFollows == Typed /\ SlotInv /\ breaks = 0 => SlotsMatch
<1> SUFFICES ASSUME Typed, SlotInv, breaks = 0, NEW k \in Kings, NEW p \in Pools
             PROVE  inFlight[k][p] = Units(k, p)
  BY DEF SlotsMatch
<1>1. Tally(k, p) \in Nat /\ inFlight[k][p] \in Nat
  BY CountsAreNatural DEF Tally
<1> QED BY <1>1, TallyIsUnits DEF SlotInv

-----------------------------------------------------------------------------
(* The theorems *)

LEMMA IInvInit == Init => IInv
<1> SUFFICES ASSUME Init PROVE IInv
  OBVIOUS
<1>1. Typed
  BY InitTyped
<1>2. SlotInv
  BY SlotsOfNothing DEF Init
<1>3. HeldInv
  BY <1>1, HeldOfNothing DEF Init
<1>4. LoadInv
  <2> SUFFICES ASSUME NEW k \in Kings, NEW p \in Pools
               PROVE  inFlight[k][p] <= InflightTarget /\ LoadOf(k, p) <= 2 * InflightTarget + lost
    BY DEF LoadInv, Init, NoPoll
  <2>1. inFlight[k][p] = 0 /\ lost = 0 /\ InflightTarget \in Nat
    BY WorkQueueAssumption DEF Init, NoneInFlight
  <2>2. QueuedTasks(k, p) = 0
    <3>1. PICK t : t = [king |-> k, pool |-> p, status |-> "queued"]
      OBVIOUS
    <3>2. t \in Row
      BY <3>1 DEF Row
    <3>3. Members(row, Commits, {t}) = {}
      BY <3>2, NoneIsNoRow DEF Init, Members
    <3> QED BY <3>1, <3>3, FS_EmptySet DEF QueuedTasks
  <2> QED BY <1>1, <2>1, <2>2, CountsAreNatural DEF LoadOf
<1> QED BY <1>1, <1>2, <1>3, <1>4 DEF IInv

LEMMA IInvStep == IInv /\ [Next]_vars => IInv'
<1> SUFFICES ASSUME IInv, [Next]_vars PROVE IInv'
  OBVIOUS
<1>1. Typed'
  BY TypedStep DEF IInv
<1> QED BY <1>1, SlotStep, HeldStep, LoadStep DEF IInv

LEMMA IInvHolds == Spec => []IInv
<1>1. Init => IInv
  BY IInvInit
<1>2. IInv /\ [Next]_vars => IInv'
  BY IInvStep
<1> QED BY <1>1, <1>2, PTL DEF Spec

\* Until the fetcher's loop has swallowed an exception, sync_to_deficits, _take_cancel,
\* requeue, task_done and reserve_fingerprint keep the accounts: every slot in flight
\* has its unit, every reserved commit its one unit, and the load its bound.
THEOREM QueueIsSound == Spec => [](breaks = 0 => QueueInvariant)
<1>1. IInv => (breaks = 0 => QueueInvariant)
  BY QueueTypeOKFollows, SlotsMatchFollows, OneUnitPerCommitFollows, LoadIsBoundedFollows DEF IInv, QueueInvariant
<1> QED BY <1>1, IInvHolds, PTL

\* Whatever fails, the reigning king never has more than twice the in-flight target of
\* tasks queued and units in flight for a pool, but for insertions whose answer was lost.
THEOREM LoadStaysBounded == Spec => []LoadIsBounded
<1>1. IInv => LoadIsBounded
  BY LoadIsBoundedFollows DEF IInv
<1> QED BY <1>1, IInvHolds, PTL

\* Whatever fails, no two units work on one commit, and a commit is reserved exactly
\* while a unit has it (reserve_fingerprint, release_fingerprint).
THEOREM CommitsAreHeldOnce == Spec => []OneUnitPerCommit
<1>1. IInv => OneUnitPerCommit
  BY OneUnitPerCommitFollows DEF IInv
<1> QED BY <1>1, IInvHolds, PTL

\* The slots a king loses in a pool are at most the exceptions swallowed in the fetcher:
\* no other failure, cancellation or succession loses one, and none is freed twice.
THEOREM LostSlotsAreExceptions ==
  Spec => [](\A k \in Kings, p \in Pools : inFlight[k][p] \in Units(k, p) .. Units(k, p) + breaks)
<1>1. IInv => \A k \in Kings, p \in Pools : inFlight[k][p] \in Units(k, p) .. Units(k, p) + breaks
  <2> SUFFICES ASSUME IInv, NEW k \in Kings, NEW p \in Pools
               PROVE  inFlight[k][p] \in Units(k, p) .. Units(k, p) + breaks
    OBVIOUS
  <2>1. Tally(k, p) \in Nat /\ inFlight[k][p] \in Nat /\ breaks \in Nat
    BY CountsAreNatural DEF IInv, Typed, CountersOK, Tally
  <2>2. Tally(k, p) = Units(k, p)
    BY TallyIsUnits DEF IInv
  <2> QED BY <2>1, <2>2 DEF IInv, SlotInv
<1> QED BY <1>1, IInvHolds, PTL
=============================================================================
