----------------------------- MODULE RepoCache -----------------------------
(***************************************************************************)
(* The host-side cache of task repositories, shared by the solver's        *)
(* threads.  A thread ensures its key's entry under an exclusive flock,    *)
(* fetching it on a miss, evicts old entries under try-locks, and copies   *)
(* its own out under a shared flock.  A hard kill leaves the directory as  *)
(* it is.                                                                  *)
(***************************************************************************)
EXTENDS Integers, FiniteSets, Sequences, SequencesExt

CONSTANTS
  Threads,      \* solve threads, each cloning one repository after another
  Keys,         \* repository and base commit, hashed
  NoKey,        \* no thread's key
  NoThread,     \* holder of a free lock
  MaxEntries,   \* TAU_TASK_REPO_CACHE_MAX_ENTRIES, 0: unbounded
  FetchSlots,   \* TAU_TASK_REPO_FETCH_CONCURRENCY
  Attempts,     \* _CACHE_ATTEMPTS
  MaxKills      \* bound: hard kills of the process

ASSUME RepoCacheAssumption ==
  /\ NoKey \notin Keys /\ NoThread \notin Threads
  /\ MaxEntries \in Nat /\ FetchSlots \in Nat \ {0}
  /\ Attempts \in Nat \ {0} /\ MaxKills \in Nat

VARIABLES
  entry,      \* the directory of each key: "none", "partial" or "tree"
  marked,     \* the keys with a ready marker, the oldest marker first
  orphans,    \* keys with a temporary directory nobody works on
  exclusive,  \* who holds each key's flock exclusively
  shared,     \* who holds it shared
  thread,     \* each thread's place in clone_task_repo
  kills

cacheVars == <<entry, marked, orphans, exclusive, shared, thread, kills>>

NoClone == [at |-> "idle", key |-> NoKey, tries |-> 0, list |-> <<>>, excess |-> 0, victim |-> NoKey]

CacheInit ==
  /\ entry = [k \in Keys |-> "none"]
  /\ marked = <<>> /\ orphans = {}
  /\ exclusive = [k \in Keys |-> NoThread]
  /\ shared = [k \in Keys |-> {}]
  /\ thread = [t \in Threads |-> NoClone]
  /\ kills = 0

Marked == ToSet(marked)
CacheReady(k) == entry[k] = "tree" /\ k \in Marked
ThreadAt(t, place) == thread[t].at = place
KeyOf(t) == thread[t].key
ThreadMoves(t, place) == thread' = [thread EXCEPT ![t].at = place]

\* Threads that hold a permit of the semaphore of remote fetches.
Fetching == {t \in Threads : thread[t].at \in {"populate", "rename", "mark", "clone"}}

-----------------------------------------------------------------------------
BeginClone(t, k) ==
  /\ ThreadAt(t, "idle")
  /\ thread' = [thread EXCEPT ![t].at = "ensure", ![t].key = k]
  /\ UNCHANGED <<entry, marked, orphans, exclusive, shared, kills>>

\* LOCK_EX is granted, and the entry is there or must be fetched.
Ensure(t) ==
  LET k == KeyOf(t) IN
  /\ ThreadAt(t, "ensure")
  /\ exclusive[k] = NoThread /\ shared[k] = {}
  /\ IF CacheReady(k) THEN /\ ThreadMoves(t, "share")
                           /\ UNCHANGED exclusive
     ELSE /\ ThreadMoves(t, "await slot")
          /\ exclusive' = [exclusive EXCEPT ![k] = t]
  /\ UNCHANGED <<entry, marked, orphans, shared, kills>>

\* A permit; the key's orphaned temporary directories are removed.
TakeSlot(t) ==
  /\ ThreadAt(t, "await slot") /\ Cardinality(Fetching) < FetchSlots
  /\ ThreadMoves(t, "populate")
  /\ orphans' = orphans \ {KeyOf(t)}
  /\ UNCHANGED <<entry, marked, exclusive, shared, kills>>

\* The clone has landed: what is left of the old entry goes.
Fetched(t) ==
  /\ ThreadAt(t, "populate")
  /\ ThreadMoves(t, "rename")
  /\ entry' = [entry EXCEPT ![KeyOf(t)] = "none"]
  /\ UNCHANGED <<marked, orphans, exclusive, shared, kills>>

Rename(t) ==
  /\ ThreadAt(t, "rename")
  /\ ThreadMoves(t, "mark")
  /\ entry' = [entry EXCEPT ![KeyOf(t)] = "tree"]
  /\ UNCHANGED <<marked, orphans, exclusive, shared, kills>>

\* The marker is written with a new mtime, the permit returned.
WriteMarker(t) ==
  /\ ThreadAt(t, "mark")
  /\ ThreadMoves(t, "list")
  /\ marked' = Append(RemoveFirst(marked, KeyOf(t)), KeyOf(t))
  /\ UNCHANGED <<entry, orphans, exclusive, shared, kills>>

\* A git step, the rename or the marker fails: every lock and the permit is
\* released, the temporary directory removed.
FetchFails(t) ==
  /\ thread[t].at \in {"populate", "rename", "mark", "clone"}
  /\ thread' = [thread EXCEPT ![t] = NoClone]
  /\ exclusive' = [k \in Keys |-> IF exclusive[k] = t THEN NoThread ELSE exclusive[k]]
  /\ UNCHANGED <<entry, marked, orphans, shared, kills>>

-----------------------------------------------------------------------------
\* Eviction.

ListEntries(t) ==
  /\ ThreadAt(t, "list")
  /\ thread' = [thread EXCEPT ![t] =
                   [@ EXCEPT !.at = "evict", !.list = marked,
                             !.excess = IF MaxEntries = 0 THEN 0 ELSE Len(marked) - MaxEntries]]
  /\ UNCHANGED <<entry, marked, orphans, exclusive, shared, kills>>

Victim(t) == Head(thread[t].list)
Passed(t) == [thread EXCEPT ![t].list = Tail(@)]

TryLock(k) == exclusive[k] = NoThread /\ shared[k] = {}

Evicting(t) == ThreadAt(t, "evict") /\ thread[t].list # <<>> /\ thread[t].excess > 0

\* Mutant of Skip: an entry in use is waited for.
SkipNothingInUse(t) ==
  /\ Evicting(t)
  /\ Victim(t) = KeyOf(t)
  /\ thread' = Passed(t)
  /\ UNCHANGED <<entry, marked, orphans, exclusive, shared, kills>>

\* The entry of this solve, or one in use, survives.
Skip(t) ==
  /\ Evicting(t)
  /\ Victim(t) = KeyOf(t) \/ ~TryLock(Victim(t))
  /\ thread' = Passed(t)
  /\ UNCHANGED <<entry, marked, orphans, exclusive, shared, kills>>

\* Mutant of EvictMarker: the tree goes first, the marker with the lock.
EvictMarkerLast(t) ==
  LET k == Victim(t) IN
  /\ Evicting(t) /\ k # KeyOf(t) /\ TryLock(k)
  /\ exclusive' = [exclusive EXCEPT ![k] = t]
  /\ thread' = [thread EXCEPT ![t] = [@ EXCEPT !.at = "evict tree", !.victim = k]]
  /\ entry' = [entry EXCEPT ![k] = IF @ = "tree" THEN "partial" ELSE @]
  /\ UNCHANGED <<marked, orphans, shared, kills>>

\* Marker first: from here on the entry reads as a miss.
EvictMarker(t) ==
  LET k == Victim(t) IN
  /\ Evicting(t) /\ k # KeyOf(t) /\ TryLock(k)
  /\ exclusive' = [exclusive EXCEPT ![k] = t]
  /\ thread' = [thread EXCEPT ![t] = [@ EXCEPT !.at = "evict tree", !.victim = k]]
  /\ marked' = RemoveFirst(marked, k)
  /\ entry' = [entry EXCEPT ![k] = IF @ = "tree" THEN "partial" ELSE @]
  /\ UNCHANGED <<orphans, shared, kills>>

\* The tree is gone and the try-lock released; an entry another thread evicted
\* since the listing counts as one less all the same.
EvictTree(t) ==
  LET k == thread[t].victim IN
  /\ ThreadAt(t, "evict tree")
  /\ entry' = [entry EXCEPT ![k] = "none"]
  /\ exclusive' = [exclusive EXCEPT ![k] = NoThread]
  /\ thread' = [thread EXCEPT ![t] =
                   [@ EXCEPT !.at = "evict", !.victim = NoKey, !.list = Tail(thread[t].list),
                             !.excess = thread[t].excess - 1]]
  /\ UNCHANGED <<marked, orphans, shared, kills>>

\* Nothing is left to evict, or no excess: the exclusive flock is released.
EvictionEnds(t) ==
  /\ ThreadAt(t, "evict") /\ ~Evicting(t)
  /\ exclusive' = [exclusive EXCEPT ![KeyOf(t)] = NoThread]
  /\ thread' = [thread EXCEPT ![t] = [@ EXCEPT !.at = "share", !.list = <<>>, !.excess = 0]]
  /\ UNCHANGED <<entry, marked, orphans, shared, kills>>

-----------------------------------------------------------------------------
\* LOCK_SH is granted: the entry is copied out, or was evicted in between.
Share(t) ==
  LET k == KeyOf(t) IN
  /\ ThreadAt(t, "share") /\ exclusive[k] = NoThread
  /\ IF CacheReady(k)
     THEN /\ ThreadMoves(t, "copy")
          /\ shared' = [shared EXCEPT ![k] = @ \cup {t}]
     ELSE /\ thread' = [thread EXCEPT ![t] =
                        [@ EXCEPT !.tries = thread[t].tries + 1,
                                  !.at = IF thread[t].tries + 1 < Attempts THEN "ensure" ELSE "await clone"]]
          /\ UNCHANGED shared
  /\ UNCHANGED <<entry, marked, orphans, exclusive, kills>>

Copied(t) ==
  /\ ThreadAt(t, "copy")
  /\ thread' = [thread EXCEPT ![t] = NoClone]
  /\ shared' = [shared EXCEPT ![KeyOf(t)] = @ \ {t}]
  /\ UNCHANGED <<entry, marked, orphans, exclusive, kills>>

\* The entry kept disappearing: a clone past the cache.
CloneUncached(t) ==
  /\ ThreadAt(t, "await clone") /\ Cardinality(Fetching) < FetchSlots
  /\ ThreadMoves(t, "clone")
  /\ UNCHANGED <<entry, marked, orphans, exclusive, shared, kills>>

Cloned(t) ==
  /\ ThreadAt(t, "clone")
  /\ thread' = [thread EXCEPT ![t] = NoClone]
  /\ UNCHANGED <<entry, marked, orphans, exclusive, shared, kills>>

\* A hard kill between any two steps: flocks and permits go with the process,
\* temporary directories and half-deleted trees stay.
HostKilled ==
  /\ kills < MaxKills
  /\ kills' = kills + 1
  /\ orphans' = orphans \cup {KeyOf(t) : t \in {u \in Threads : thread[u].at \in {"populate", "rename"}}}
  /\ thread' = [t \in Threads |-> NoClone]
  /\ exclusive' = [k \in Keys |-> NoThread]
  /\ shared' = [k \in Keys |-> {}]
  /\ UNCHANGED <<entry, marked>>

EvictEntries(t) == ListEntries(t) \/ Skip(t) \/ EvictMarker(t) \/ EvictTree(t) \/ EvictionEnds(t)
FetchEntry(t) == Fetched(t) \/ Rename(t) \/ WriteMarker(t)

\* What a thread does next.
ThreadSteps(t) ==
  \/ Ensure(t) \/ TakeSlot(t) \/ FetchEntry(t) \/ EvictEntries(t)
  \/ Share(t) \/ Copied(t) \/ CloneUncached(t) \/ Cloned(t)

CacheNext ==
  \/ \E t \in Threads :
       \/ \E k \in Keys : BeginClone(t, k)
       \/ ThreadSteps(t) \/ FetchFails(t)
  \/ HostKilled

CacheSpec == CacheInit /\ [][CacheNext]_cacheVars

\* Threads run on, git commands end or time out, the kernel serves waiting
\* flocks and the semaphore its waiters in turn. A thread has one next step.
CacheFairness == \A t \in Threads : SF_cacheVars(ThreadSteps(t))

CacheFairSpec == CacheSpec /\ CacheFairness

-----------------------------------------------------------------------------
CacheTypeOK ==
  /\ entry \in [Keys -> {"none", "partial", "tree"}]
  /\ marked \in Seq(Keys)
  /\ orphans \subseteq Keys
  /\ exclusive \in [Keys -> Threads \cup {NoThread}]
  /\ shared \in [Keys -> SUBSET Threads]
  /\ thread \in [Threads ->
       [at : {"idle", "ensure", "await slot", "populate", "rename", "mark", "list", "evict",
              "evict tree", "share", "copy", "await clone", "clone"},
        key : Keys \cup {NoKey}, tries : 0 .. Attempts, list : Seq(Keys),
        excess : Int, victim : Keys \cup {NoKey}]]
  /\ kills \in 0 .. MaxKills

\* A marker stands only beside a whole tree, whatever step a kill cuts short
\* (_evict_excess_entries: "Marker first: a partial delete reads as a miss").
MarkedIsWhole == \A k \in Marked : entry[k] = "tree"

\* While a solve copies an entry out, the entry is whole and nobody deletes or
\* replaces it (the shared flock against the eviction's try-lock).
CopiesAreWhole == \A t \in Threads : ThreadAt(t, "copy") => CacheReady(KeyOf(t)) /\ exclusive[KeyOf(t)] = NoThread

\* What kills, evictions and copies of other solves never break: the two above
\* (clone_task_repo, _evict_excess_entries).
CacheInvariant == CacheTypeOK /\ MarkedIsWhole /\ CopiesAreWhole

\* Every clone ends, in a copy, an uncached clone or an error, although locks,
\* permits and evictions of other solves come in between (clone_task_repo).
ClonesEnd == \A t \in Threads : thread[t].at # "idle" ~> thread[t].at = "idle"
=============================================================================
