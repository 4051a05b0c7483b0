------------------------------ MODULE WorkQueue ------------------------------
(***************************************************************************)
(* The task generator: a controller that launches units of work for the    *)
(* pools' deficits, one fetcher that samples a commit for a unit, and      *)
(* describers that turn it into a row of tasks.  They are coroutines of    *)
(* one process: an action is what one of them does between two awaits, or  *)
(* the statement it awaits.                                                *)
(***************************************************************************)
EXTENDS Integers, FiniteSets, Sequences, FiniteSetsExt

CONSTANTS
  Kings,
  Pools,           \* PoolType values: the lower goes first
  Commits,         \* commits by content fingerprint; forks mine one twice
  Describers,
  None,
  Target,          \* Target[p]: TAU_POOL_*_TARGET
  InflightTarget,  \* TAU_GENERATOR_QUALIFICATION_INFLIGHT_TARGET
  MaxFaults        \* bound on restarts, lost answers and exceptions in the fetcher

ASSUME WorkQueueAssumption ==
  /\ Pools \subseteq Nat /\ IsFiniteSet(Pools) /\ Pools # {}
  /\ IsFiniteSet(Commits) /\ IsFiniteSet(Describers)
  /\ None \notin Kings \cup Commits
  /\ Target \in [Pools -> Nat]
  /\ InflightTarget \in Nat \ {0}
  /\ MaxFaults \in Nat

VARIABLES
  king,         \* the reigning king
  row,          \* row[c]: the row of tasks made of commit c, or None
  poll,         \* what the controller has read
  currentKing,  \* WorkQueue.current_king
  inFlight,     \* _in_flight[k][p]
  cancel,       \* _cancel[k][p]
  toFetch,      \* toFetch[p]: kings of the queued requests, first in first out
  toDescribe,   \* toDescribe[p]: queued units with their commit
  reserved,     \* _inflight_fingerprints
  fetcher,      \* the fetcher's unit and step
  describer,    \* each describer's unit and step
  breaks, restarts, lost  \* how often each has happened so far

db == <<king, row>>
accounts == <<currentKing, inFlight, cancel>>
counters == <<breaks, restarts, lost>>
vars == <<db, poll, accounts, toFetch, toDescribe, reserved, fetcher, describer, counters>>

Row == [king : Kings, pool : Pools, status : {"queued", "qualified", "dropped"}]

ASSUME NoneIsNoRow == None \notin Row

Rows(k, p, status) == {c \in Commits : row[c] = [king |-> k, pool |-> p, status |-> status]}

\* A worker waiting for its queue, and a poll not begun.
Waiting == [step |-> "get", king |-> None, pool |-> 0, commit |-> None]
NoPoll == [step |-> "read_king", king |-> None, needed |-> [p \in Pools |-> 0]]

NoneInFlight == [k \in Kings |-> [p \in Pools |-> 0]]
Empty == [p \in Pools |-> <<>>]

Init ==
  /\ king \in Kings
  /\ row = [c \in Commits |-> None]
  /\ poll = NoPoll
  /\ currentKing = None
  /\ inFlight = NoneInFlight /\ cancel = NoneInFlight
  /\ toFetch = Empty /\ toDescribe = Empty
  /\ reserved = {}
  /\ fetcher = Waiting
  /\ describer = [d \in Describers |-> Waiting]
  /\ breaks = 0 /\ restarts = 0 /\ lost = 0

-----------------------------------------------------------------------------
\* The database's other writers: a queued task is admitted, which drops the rest
\* of the queue of a pool it fills, or dropped; a challenger succeeds over full pools.
Full(k, p) == Cardinality(Rows(k, p, "qualified")) >= Target[p]

Settle(c) ==
  /\ row[c] # None /\ row[c].status = "queued"
  /\ LET k == row[c].king
         p == row[c].pool
         fills == Cardinality(Rows(k, p, "qualified")) + 1 >= Target[p] IN
     \/ /\ k = king /\ ~Full(k, p)
        /\ row' = [e \in Commits |->
             IF e = c THEN [row[c] EXCEPT !.status = "qualified"]
             ELSE IF fills /\ e \in Rows(k, p, "queued") THEN [row[e] EXCEPT !.status = "dropped"]
             ELSE row[e]]
     \/ row' = [row EXCEPT ![c].status = "dropped"]
  /\ UNCHANGED <<king, poll, accounts, toFetch, toDescribe, reserved, fetcher, describer, counters>>

Succeed(k) ==
  /\ k # king /\ \A p \in Pools : Full(king, p)
  /\ \A c \in Commits : row[c] # None => row[c].king # k
  /\ king' = k
  /\ UNCHANGED <<row, poll, accounts, toFetch, toDescribe, reserved, fetcher, describer, counters>>

-----------------------------------------------------------------------------
\* Controller.

PollKing ==
  /\ poll.step = "read_king"
  /\ poll' = [poll EXCEPT !.step = "count", !.king = king]
  /\ UNCHANGED <<db, accounts, toFetch, toDescribe, reserved, fetcher, describer, counters>>

\* The load is shared evenly by the incomplete pools, the remainder by the first.
Deficit(k, p) ==
  LET incomplete == {q \in Pools : ~Full(k, q)}
      n == Cardinality(incomplete)
      index == Cardinality({q \in incomplete : q < p})
      share == (InflightTarget \div n) + (IF index < InflightTarget % n THEN 1 ELSE 0)
      active == Cardinality(Rows(k, p, "queued")) IN
  IF p \in incomplete /\ share > active THEN share - active ELSE 0

PollTasks ==
  /\ poll.step = "count"
  /\ poll' = [poll EXCEPT !.step = "sync", !.needed = [p \in Pools |-> Deficit(poll.king, p)]]
  /\ UNCHANGED <<db, accounts, toFetch, toDescribe, reserved, fetcher, describer, counters>>

\* The database fails: the tick is over, and nothing is synced.
PollFails ==
  /\ poll.step = "count"
  /\ poll' = NoPoll
  /\ UNCHANGED <<db, accounts, toFetch, toDescribe, reserved, fetcher, describer, counters>>

\* Mutant of Delta: work in flight is not counted.
DeltaOfNeed(p) == poll.needed[p]

\* The requests to launch for pool p, or to cancel when negative.
Delta(p) == poll.needed[p] - inFlight[poll.king][p]

\* The requests to cancel for pool p.
Surplus(p) == Max({0, -Delta(p)})

\* sync_to_deficits: no deficit at all means no current king.
SyncToDeficits ==
  /\ poll.step = "sync"
  /\ poll' = NoPoll
  /\ \/ /\ \A p \in Pools : poll.needed[p] = 0
        /\ currentKing' = None
        /\ UNCHANGED <<inFlight, cancel, toFetch>>
     \/ /\ \E p \in Pools : poll.needed[p] > 0
        /\ currentKing' = poll.king
        /\ inFlight' = [inFlight EXCEPT ![poll.king] =
             [p \in Pools |-> @[p] + Max({0, Delta(p)})]]
        /\ cancel' = [cancel EXCEPT ![poll.king] = [p \in Pools |-> Surplus(p)]]
        /\ toFetch' = [p \in Pools |->
             toFetch[p] \o [i \in 1 .. Max({0, Delta(p)}) |-> poll.king]]
  /\ UNCHANGED <<db, toDescribe, reserved, fetcher, describer, counters>>

-----------------------------------------------------------------------------
\* Accounting shared by the fetcher and the describers.

First(queue, p) == queue[p] # <<>> /\ \A q \in Pools : q < p => queue[q] = <<>>

Stale(k) == k # currentKing

Unwanted(k, p) == Stale(k) \/ cancel[k][p] > 0

\* _take_cancel is only asked when the unit is not stale.
Drop(k, p) ==
  /\ Unwanted(k, p)
  /\ cancel' = IF Stale(k) THEN cancel ELSE [cancel EXCEPT ![k][p] = @ - 1]
  /\ inFlight' = [inFlight EXCEPT ![k][p] = Max({0, @ - 1})]

Requeue(unit) == toFetch' = [toFetch EXCEPT ![unit.pool] = Append(@, unit.king)]

-----------------------------------------------------------------------------
\* Fetcher.

NextToFetch ==
  /\ fetcher.step = "get"
  /\ \E p \in Pools :
       /\ First(toFetch, p)
       /\ toFetch' = [toFetch EXCEPT ![p] = Tail(@)]
       /\ LET k == Head(toFetch[p]) IN
          \/ /\ Drop(k, p)
             /\ UNCHANGED fetcher
          \/ /\ ~Unwanted(k, p)
             /\ fetcher' = [Waiting EXCEPT !.step = "sample", !.king = k, !.pool = p]
             /\ UNCHANGED <<inFlight, cancel>>
  /\ UNCHANGED <<db, poll, currentKing, toDescribe, reserved, describer, counters>>

\* Mutant of FetchFailed: the request is not put back.
FetchFailedForgotten == fetcher' = Waiting /\ UNCHANGED toFetch

FetchFailed == fetcher' = Waiting /\ Requeue(fetcher)

SampleCommit(c) ==
  /\ fetcher.step = "sample"
  /\ fetcher' = [fetcher EXCEPT !.step = "look_up", !.commit = c]
  /\ UNCHANGED <<db, poll, accounts, toFetch, toDescribe, reserved, describer, counters>>

\* No commit met the criteria, or the source is unavailable and its back-off is over.
NoCommit ==
  /\ fetcher.step = "sample"
  /\ FetchFailed
  /\ UNCHANGED <<db, poll, accounts, toDescribe, reserved, describer, counters>>

\* fingerprint_exists, and then reserve_fingerprint when its answer has arrived.
LookUp ==
  /\ fetcher.step = "look_up"
  /\ fetcher' = [fetcher EXCEPT !.step = IF row[fetcher.commit] # None THEN "skip" ELSE "reserve"]
  /\ UNCHANGED <<db, poll, accounts, toFetch, toDescribe, reserved, describer, counters>>

TakesCommit == fetcher.step = "reserve" /\ fetcher.commit \notin reserved

Reserve ==
  /\ fetcher.step \in {"skip", "reserve"}
  /\ \/ /\ TakesCommit
        /\ reserved' = reserved \cup {fetcher.commit}
        /\ fetcher' = [fetcher EXCEPT !.step = "submit"]
        /\ UNCHANGED toFetch
     \/ /\ ~TakesCommit
        /\ FetchFailed
        /\ UNCHANGED reserved
  /\ UNCHANGED <<db, poll, accounts, toDescribe, describer, counters>>

\* submit_fetched, which waits while as many units are queued as there are describers.
SubmitFetched ==
  /\ fetcher.step = "submit"
  /\ SumFunction([p \in Pools |-> Len(toDescribe[p])]) < Cardinality(Describers)
  /\ toDescribe' = [toDescribe EXCEPT ![fetcher.pool] = Append(@, fetcher)]
  /\ fetcher' = Waiting
  /\ UNCHANGED <<db, poll, accounts, toFetch, reserved, describer, counters>>

\* Any other exception, of the sampler or of the look-up, ends the iteration.
FetchBreaks ==
  /\ fetcher.step \in {"sample", "look_up"}
  /\ breaks + restarts + lost < MaxFaults
  /\ breaks' = breaks + 1
  /\ fetcher' = Waiting
  /\ UNCHANGED <<db, poll, accounts, toFetch, toDescribe, reserved, describer, restarts, lost>>

-----------------------------------------------------------------------------
\* Describers.

LeaseToDescribe(d) ==
  /\ describer[d].step = "get"
  /\ \E p \in Pools :
       /\ First(toDescribe, p)
       /\ toDescribe' = [toDescribe EXCEPT ![p] = Tail(@)]
       /\ LET unit == Head(toDescribe[p]) IN
          \/ /\ Drop(unit.king, p)
             /\ reserved' = reserved \ {unit.commit}
             /\ UNCHANGED describer
          \/ /\ ~Unwanted(unit.king, p)
             /\ describer' = [describer EXCEPT ![d] = [unit EXCEPT !.step = "describe"]]
             /\ UNCHANGED <<inFlight, cancel, reserved>>
  /\ UNCHANGED <<db, poll, currentKing, toFetch, fetcher, counters>>

Inserted(unit) ==
  row' = [row EXCEPT ![unit.commit] =
            [king |-> unit.king, pool |-> unit.pool, status |-> "queued"]]

\* insert_task_candidate, which adds nothing when the commit already is a task.
InsertTask(d) ==
  /\ describer[d].step = "describe"
  /\ LET unit == describer[d] IN
     \/ /\ row[unit.commit] = None
        /\ Inserted(unit)
        /\ describer' = [describer EXCEPT ![d].step = "inserted"]
     \/ /\ row[unit.commit] # None
        /\ describer' = [describer EXCEPT ![d].step = "failed"]
        /\ UNCHANGED row
  /\ UNCHANGED <<king, poll, accounts, toFetch, toDescribe, reserved, fetcher, counters>>

\* The answer to an insertion is lost with the connection: an exception.
AnswerLost(d) ==
  /\ describer[d].step = "describe"
  /\ row[describer[d].commit] = None
  /\ Inserted(describer[d])
  /\ describer' = [describer EXCEPT ![d].step = "failed"]
  /\ breaks + restarts + lost < MaxFaults
  /\ lost' = lost + 1
  /\ UNCHANGED <<king, poll, accounts, toFetch, toDescribe, reserved, fetcher, breaks, restarts>>

\* The model gave no usable task, or a call raised an exception.
DescribeFails(d) ==
  /\ describer[d].step = "describe"
  /\ describer' = [describer EXCEPT ![d].step = "failed"]
  /\ UNCHANGED <<db, poll, accounts, toFetch, toDescribe, reserved, fetcher, counters>>

\* Mutant of FinishDescribe: the slot of an inserted task is not freed.
FinishDescribeKeepsSlot(d) ==
  /\ describer[d].step \in {"inserted", "failed"}
  /\ reserved' = reserved \ {describer[d].commit}
  /\ describer' = [describer EXCEPT ![d] = Waiting]
  /\ IF describer[d].step = "inserted" THEN UNCHANGED toFetch ELSE Requeue(describer[d])
  /\ UNCHANGED <<db, poll, accounts, toDescribe, fetcher, counters>>

\* The unit is done, or goes back for another commit; the lease releases its commit.
FinishDescribe(d) ==
  /\ describer[d].step \in {"inserted", "failed"}
  /\ reserved' = reserved \ {describer[d].commit}
  /\ describer' = [describer EXCEPT ![d] = Waiting]
  /\ LET unit == describer[d] IN
     \/ /\ unit.step = "inserted"
        /\ inFlight' = [inFlight EXCEPT ![unit.king][unit.pool] = Max({0, @ - 1})]
        /\ UNCHANGED toFetch
     \/ /\ unit.step = "failed"
        /\ Requeue(unit)
        /\ UNCHANGED inFlight
  /\ UNCHANGED <<db, poll, currentKing, cancel, toDescribe, fetcher, counters>>

\* Everything but the database is in memory.
Restart ==
  /\ breaks + restarts + lost < MaxFaults
  /\ restarts' = restarts + 1
  /\ poll' = NoPoll
  /\ currentKing' = None
  /\ inFlight' = NoneInFlight /\ cancel' = NoneInFlight
  /\ toFetch' = Empty /\ toDescribe' = Empty
  /\ reserved' = {}
  /\ fetcher' = Waiting
  /\ describer' = [d \in Describers |-> Waiting]
  /\ UNCHANGED <<db, breaks, lost>>

-----------------------------------------------------------------------------
Controller == PollKing \/ PollTasks \/ SyncToDeficits

Fetcher ==
  \/ NextToFetch \/ NoCommit \/ LookUp \/ Reserve \/ SubmitFetched
  \/ \E c \in Commits : SampleCommit(c)

Describer(d) == LeaseToDescribe(d) \/ InsertTask(d) \/ DescribeFails(d) \/ FinishDescribe(d)

Next ==
  \/ Controller \/ PollFails \/ Fetcher \/ FetchBreaks \/ Restart
  \/ \E d \in Describers : Describer(d) \/ AnswerLost(d)
  \/ \E c \in Commits : Settle(c)
  \/ \E k \in Kings : Succeed(k)

Spec == Init /\ [][Next]_vars
-----------------------------------------------------------------------------
(* Properties *)

Unit == [step : {"get", "sample", "look_up", "skip", "reserve", "submit", "describe",
                 "inserted", "failed"},
         king : Kings \cup {None}, pool : Pools \cup {0}, commit : Commits \cup {None}]

\* The tables, the accounts, the queues and the workers hold values of their types.
QueueTypeOK ==
  /\ king \in Kings
  /\ row \in [Commits -> Row \cup {None}]
  /\ poll \in [step : {"read_king", "count", "sync"}, king : Kings \cup {None},
               needed : [Pools -> 0 .. InflightTarget]]
  /\ currentKing \in Kings \cup {None}
  /\ inFlight \in [Kings -> [Pools -> Nat]]
  /\ cancel \in [Kings -> [Pools -> Nat]]
  /\ toFetch \in [Pools -> Seq(Kings)]
  /\ toDescribe \in [Pools -> Seq(Unit)]
  /\ reserved \subseteq Commits
  /\ fetcher \in Unit
  /\ describer \in [Describers -> Unit]
  /\ breaks \in Nat /\ restarts \in Nat /\ lost \in Nat

Of(unit, k, p) == unit.king = k /\ unit.pool = p

\* Units of work of king k for pool p, wherever they are.
Units(k, p) ==
  Cardinality({i \in DOMAIN toFetch[p] : toFetch[p][i] = k})
  + Cardinality({i \in DOMAIN toDescribe[p] : Of(toDescribe[p][i], k, p)})
  + Cardinality({d \in Describers : Of(describer[d], k, p)})
  + (IF Of(fetcher, k, p) THEN 1 ELSE 0)

\* A slot is counted in flight exactly while a unit of work holds it: across failures,
\* cancellations, successions and idle polls none is lost and none is freed twice.
SlotsMatch == \A k \in Kings, p \in Pools : inFlight[k][p] = Units(k, p)

Describing == {d \in Describers : describer[d].step # "get"}

QueuedToDescribe == SumFunction([p \in Pools |-> Len(toDescribe[p])])

\* The commits of units from the reservation on, and the number of such units.
HeldCommits ==
  {fetcher.commit : x \in {"submit"} \cap {fetcher.step}}
  \cup (UNION {{toDescribe[p][i].commit : i \in DOMAIN toDescribe[p]} : p \in Pools})
  \cup {describer[d].commit : d \in Describing}

Holders ==
  QueuedToDescribe + Cardinality(Describing) + (IF fetcher.step = "submit" THEN 1 ELSE 0)

\* A commit is in one unit's hands at most, and reserved exactly while it is.
OneUnitPerCommit == reserved = HeldCommits /\ Cardinality(reserved) = Holders

\* Tasks queued for the solver and the screener, with the units that may still
\* become tasks.
Load(p) ==
  Cardinality(Rows(king, p, "queued")) + inFlight[king][p]
  - Cardinality({d \in Describers : describer[d].step = "inserted" /\ Of(describer[d], king, p)})

\* The reigning king's load exceeds the target load at most by what is inserted
\* while a poll's counts are on their way, and by insertions never confirmed.
LoadIsBounded == \A p \in Pools : Load(p) <= 2 * InflightTarget + lost

\* What failures, cancellations, successions and idle polls in any order never
\* break: the three above (sync_to_deficits, requeue, reserve_fingerprint).
QueueInvariant == QueueTypeOK /\ SlotsMatch /\ OneUnitPerCommit /\ LoadIsBounded

\* Commits that are not yet tasks.
Fresh == {c \in Commits : row[c] = None}

\* The coroutines run; polls do not fail for ever; the sampler comes upon a fresh commit
\* again and again, and describers keep having successes.
Fairness ==
  /\ WF_vars(Controller) /\ SF_vars(PollTasks)
  /\ WF_vars(Fetcher)
  /\ SF_vars(\E c \in Fresh : SampleCommit(c))
  /\ \A d \in Describers : WF_vars(Describer(d)) /\ SF_vars(InsertTask(d))

FairSpec == Spec /\ Fairness

\* The reigning king's deficits are worked off, his own or a successor's, as long as
\* there are commits that are not yet tasks: but for a unit per unexpected exception
\* in the fetcher.
DeficitsAreFilled ==
  \A p \in Pools : Deficit(king, p) > 0 ~> Deficit(king, p) <= breaks \/ Fresh = {}
=============================================================================
