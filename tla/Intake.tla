------------------------------- MODULE Intake -------------------------------
(***************************************************************************)
(* From a registration on the chain to an eligible submission.  The chain  *)
(* watcher polls the tip and appends to the history of registrations what  *)
(* differs from it; the qualification worker takes the first unverified    *)
(* submission of the queue's head, has it judged and saves the outcome.    *)
(* The database's view of the chain, the current metagraph, decides which  *)
(* submissions are in the queue at all.                                    *)
(***************************************************************************)
EXTENDS Integers, Sequences, FiniteSets

CONSTANTS
  Uids,          \* slots of the subnet
  Pairs,         \* (hotkey, coldkey) pairs
  Bundles,       \* submissions, numbered in the order of submission and of their ids
  HotkeyOf,      \* the hotkey each is from
  NoBundle,
  Window,        \* window_size of the qualification worker
  MaxBlock       \* bound: blocks of the chain

Hotkey(p) == p[1]

ASSUME IntakeAssumption ==
  /\ Bundles \subseteq Nat /\ NoBundle \notin Bundles
  /\ HotkeyOf \in [Bundles -> {Hotkey(p) : p \in Pairs}]
  /\ Window \in Nat /\ MaxBlock \in Nat \ {0}

VARIABLES
  chain,      \* the neurons of each block: the pair of each uid and its block_at_registration
  history,    \* rows of registrations: uid, block, pair
  lastBlock,  \* the watcher's last_block, 0 for None
  published,  \* the snapshots that reached the database, oldest first
  committed,  \* the block of each submission, 0: not submitted
  status,     \* its status
  taken,      \* submissions that are kings or challengers
  unreadable, \* those whose bundle has no files that can be loaded
  candidate   \* what the qualification worker judges

intakeVars == <<chain, history, lastBlock, published, committed, status, unreadable, taken, candidate>>

watcherVars == <<history, lastBlock, published>>
submissionVars == <<committed, status, unreadable, taken>>

Row(u, b, p) == [uid |-> u, block |-> b, pair |-> p]
Tip == Len(chain)

\* A hotkey has one uid.
OneUidEach(on) == \A u, v \in Uids : Hotkey(on[u]) = Hotkey(on[v]) => u = v

\* The chain starts with some pairs on the uids; nothing is recorded yet.
IntakeInit ==
  /\ \E on \in [Uids -> Pairs] :
       OneUidEach(on) /\ chain = <<[u \in Uids |-> [pair |-> on[u], since |-> 1]]>>
  /\ history = {} /\ lastBlock = 0 /\ published = <<>>
  /\ committed = [s \in Bundles |-> 0]
  /\ status = [s \in Bundles |-> "absent"]
  /\ unreadable = {} /\ taken = {} /\ candidate = NoBundle

-----------------------------------------------------------------------------
\* The chain and the submitters.

Registered(h, b) == \E u \in Uids : Hotkey(chain[b][u].pair) = h

\* Another block.  A uid is registered anew, maybe by the pair it had, or its hotkey
\* or coldkey is swapped and its block_at_registration stays, or nothing happens to it.
NextBlock ==
  /\ Tip < MaxBlock
  /\ \E on \in [Uids -> Pairs], anew \in SUBSET Uids :
       /\ OneUidEach(on)
       /\ chain' = Append(chain, [u \in Uids |->
            [pair |-> on[u], since |-> IF u \in anew THEN Tip + 1 ELSE chain[Tip][u].since]])
  /\ UNCHANGED <<watcherVars, submissionVars, candidate>>

\* A registered hotkey submits a bundle, maybe one that is lost or incomplete on disk.
Submit(s) ==
  /\ status[s] = "absent" /\ \A t \in Bundles : t < s => status[t] # "absent"
  /\ Registered(HotkeyOf[s], Tip)
  /\ committed' = [committed EXCEPT ![s] = Tip]
  /\ status' = [status EXCEPT ![s] = "unverified"]
  /\ unreadable' \in {unreadable, unreadable \cup {s}}
  /\ UNCHANGED <<chain, watcherVars, taken, candidate>>

-----------------------------------------------------------------------------
\* The chain watcher.

RowsOf(u) == {r \in history : r.uid = u}

\* DISTINCT ON (uid) ... ORDER BY block DESC.
Latest(u) == {r \in RowsOf(u) : \A q \in RowsOf(u) : q.block <= r.block}
CurrentMetagraph == UNION {Latest(u) : u \in Uids}

\* Mutant of Changed: a pair the uid once had counts as recorded.
ChangedEver(b) == {u \in Uids : \A r \in RowsOf(u) : r.pair # chain[b][u].pair}

\* Mutant of Changed: every pair is written down at every poll.
ChangedAlways(b) == Uids

\* The uids whose recorded pair is not the snapshot's.
Changed(b) == {u \in Uids : \A r \in Latest(u) : r.pair # chain[b][u].pair}

\* The rows to insert; a payload without registration blocks has the snapshot's instead.
ChangedRows(b, complete) ==
  {Row(u, IF complete THEN chain[b][u].since ELSE b, chain[b][u].pair) : u \in Changed(b)}

\* ON CONFLICT (uid, block) DO NOTHING: a pair swapped under a registration that has
\* a row is dropped, at this poll and at every later one.
Inserted(rows) ==
  history \cup {r \in rows : \A q \in history : <<q.uid, q.block>> # <<r.uid, r.block>>}

\* A poll past the last block.  One that fails, at the node, the archive or the
\* database, changes nothing and is made again.
Poll ==
  /\ Tip > lastBlock
  /\ \E complete \in BOOLEAN : history' = Inserted(ChangedRows(Tip, complete))
  /\ lastBlock' = Tip
  /\ published' = IF published # <<>> /\ published[Len(published)] = Tip THEN published
                  ELSE Append(published, Tip)
  /\ UNCHANGED <<chain, submissionVars, candidate>>

\* last_block is in memory only.
WatcherRestarts ==
  /\ lastBlock # 0
  /\ lastBlock' = 0
  /\ UNCHANGED <<chain, history, published, submissionVars, candidate>>

-----------------------------------------------------------------------------
\* The queue.

\* Mutant of Fresh: the hotkey need only be registered.
FreshIfRegistered(s) == \E r \in CurrentMetagraph : Hotkey(r.pair) = HotkeyOf[s]

\* No older than the current registration.
Fresh(s) == \E r \in CurrentMetagraph : Hotkey(r.pair) = HotkeyOf[s] /\ r.block <= committed[s]

\* Mutant of Queue: decided submissions stay in it.
QueueWithTerminal == {s \in Bundles : status[s] # "absent" /\ Fresh(s) /\ s \notin taken}

Queue == {s \in Bundles : status[s] \in {"unverified", "eligible"} /\ Fresh(s) /\ s \notin taken}
Before(s, t) == committed[s] < committed[t] \/ (committed[s] = committed[t] /\ s < t)
QueueHead == {s \in Queue : Cardinality({t \in Queue : Before(t, s)}) < Window}
Unverified == {s \in QueueHead : status[s] = "unverified"}

NextCandidate(s) == s \in Unverified /\ \A t \in Unverified \ {s} : Before(s, t)

\* The duel resolver takes an eligible submission as challenger or king.
Take(s) ==
  /\ s \in Queue /\ status[s] = "eligible"
  /\ \A t \in Queue : status[t] = "eligible" => t = s \/ Before(s, t)
  /\ taken' = taken \cup {s}
  /\ UNCHANGED <<chain, watcherVars, committed, status, unreadable, candidate>>

-----------------------------------------------------------------------------
\* The qualification worker.

Look ==
  /\ candidate = NoBundle
  /\ \E s \in Bundles : NextCandidate(s) /\ candidate' = s
  /\ UNCHANGED <<chain, watcherVars, submissionVars>>

Decisions == {"eligible", "disqualified", "needs_review"}

\* The files of the bundle, by agent.json or from disk.
Loaded(s) == s \notin unreadable

\* A parsed answer: an unknown verdict is a fail; risks are labels of any spelling,
\* of which only some are of the categories that disqualify.
Answers == [verdict : {"pass", "warn", "fail"}, risky : BOOLEAN]

\* A risk disqualifies whatever the verdict is.
OutcomeOf(a) ==
  IF a.verdict = "fail" \/ a.risky THEN "disqualified"
  ELSE IF a.verdict = "warn" THEN "needs_review"
  ELSE "eligible"

\* The judge's answer: status and report are saved while the row is unverified.
Qualified(outcome) ==
  /\ candidate # NoBundle /\ Loaded(candidate)
  /\ candidate' = NoBundle
  /\ status' = IF status[candidate] = "unverified" THEN [status EXCEPT ![candidate] = outcome] ELSE status
  /\ UNCHANGED <<chain, watcherVars, committed, unreadable, taken>>

\* A bundle that cannot be loaded, a call or a parse that fails: only a report is
\* saved, the row stays unverified and at its place in the queue.  So it does when
\* the worker restarts.
QualificationFails ==
  /\ candidate # NoBundle
  /\ candidate' = NoBundle
  /\ UNCHANGED <<chain, watcherVars, submissionVars>>

\* A submission disqualified by hand.
OperatorDecides(s) ==
  /\ status[s] = "unverified"
  /\ status' = [status EXCEPT ![s] = "disqualified"]
  /\ UNCHANGED <<chain, watcherVars, committed, unreadable, taken, candidate>>

Qualify == \E a \in Answers : Qualified(OutcomeOf(a))

IntakeNext ==
  \/ NextBlock \/ Poll \/ WatcherRestarts
  \/ Look \/ Qualify \/ QualificationFails
  \/ \E s \in Bundles :
       Submit(s) \/ Take(s) \/ OperatorDecides(s)

IntakeSpec == IntakeInit /\ [][IntakeNext]_intakeVars

\* Polls and looks go on, candidates are judged in the end, challengers taken.
IntakeFairness ==
  /\ WF_intakeVars(Poll)
  /\ WF_intakeVars(Look) /\ WF_intakeVars(Qualify \/ QualificationFails) /\ SF_intakeVars(Qualify)
  /\ WF_intakeVars(\E s \in Bundles : Take(s))

IntakeFairSpec == IntakeSpec /\ IntakeFairness

-----------------------------------------------------------------------------
IntakeTypeOK ==
  /\ chain \in Seq([Uids -> [pair : Pairs, since : 1 .. MaxBlock]])
  /\ history \subseteq [uid : Uids, block : 1 .. MaxBlock, pair : Pairs]
  /\ lastBlock \in 0 .. Tip /\ published \in Seq(1 .. Tip)
  /\ committed \in [Bundles -> 0 .. MaxBlock]
  /\ status \in [Bundles -> {"absent", "unverified"} \cup Decisions]
  /\ unreadable \subseteq Bundles /\ taken \subseteq Bundles /\ candidate \in Bundles \cup {NoBundle}

\* The pair uid u has at block b came with a swap: its registration had another before.
Swapped(u, b) == \E c \in chain[b][u].since .. b : chain[c][u].pair # chain[b][u].pair
EverSwapped(u) == \E b \in 1 .. Tip : Swapped(u, b)

\* The history is a log of changes of pairs the chain had, through restarts, payloads
\* without registration blocks and polls that saw only some of the changes: a block is
\* not before the registration, and the current row of a uid has another pair than the
\* one before it.  So has every row of a uid without a swap; a swap may put a row
\* between two that are there (_changed_rows, publish_snapshot).
HistoryIsALog ==
  \A r \in history :
    /\ \E i \in DOMAIN published :
         LET seen == chain[published[i]][r.uid]
         IN seen.pair = r.pair /\ r.block \in seen.since .. published[i]
    /\ \A q \in RowsOf(r.uid) :
         /\ q \in Latest(r.uid) \/ ~EverSwapped(r.uid)
         /\ q.block > r.block
         /\ \A o \in RowsOf(r.uid) : o.block <= r.block \/ o.block >= q.block
         => q.pair # r.pair

\* What holds of the chain watcher's tables in every state.
IntakeInvariant == IntakeTypeOK /\ HistoryIsALog

\* The pair a uid was registered with becomes the current one of its uid in the
\* history while it stands, a pair that returns to a uid it once had included, through
\* restarts, payloads without registration blocks and swaps under earlier
\* registrations.  A pair that came with a swap need not (publish_snapshot).
HistoryCatchesUp ==
  \A u \in Uids, p \in Pairs :
    chain[Tip][u].pair = p /\ ~Swapped(u, Tip) ~>
      chain[Tip][u].pair # p \/ Swapped(u, Tip) \/ \E r \in Latest(u) : r.pair = p

\* What is judged or becomes a challenger was committed when its hotkey held a uid or
\* later, and every snapshot since that shows the uid with another hotkey shows it
\* under the same registration: a swap leaves the old hotkey's submissions in the
\* queue, a new registration does not (next_candidate, current_metagraph).
QueuedAreRegistered ==
  [][\A s \in Bundles :
       (candidate' = s /\ candidate # s) \/ (s \in taken' \ taken) =>
         \E u \in Uids, i \in DOMAIN published :
           LET then == chain[published[i]][u]
           IN /\ Hotkey(then.pair) = HotkeyOf[s] /\ then.since <= committed[s]
              /\ \A j \in i .. Len(published) :
                   LET now == chain[published[j]][u]
                   IN Hotkey(now.pair) = HotkeyOf[s] \/ now.since = then.since]_intakeVars

\* A bundle that cannot be loaded is looked at again and again and never passed by.
Blocked(s) ==
  \E b \in Queue \cap unreadable : status[b] = "unverified" /\ (b = s \/ Before(b, s))

\* A fresh submission is decided in the end, or goes stale, although the head of the
\* queue is full of eligible ones and candidates before it fail; only a submission
\* whose files are lost keeps those behind it waiting (next_candidate, save_error).
EveryBundleDecided ==
  \A s \in Bundles :
    status[s] = "unverified" ~> status[s] # "unverified" \/ ~Fresh(s) \/ Blocked(s)
=============================================================================
