---------------------------- MODULE HostProofs ----------------------------
(***************************************************************************)
(* Proofs about the repository cache, the source of commits and the way    *)
(* from the chain to the queue, for any number of threads, keys, entries,  *)
(* permits, attempts, hard kills, tokens, commits, uids, hotkeys, blocks   *)
(* and submissions.                                                        *)
(***************************************************************************)
EXTENDS RepoCache, CommitSource, Intake, CountingLemmas

-----------------------------------------------------------------------------
(* The repository cache *)

Places == {"idle", "ensure", "await slot", "populate", "rename", "mark", "list", "evict",
           "evict tree", "share", "copy", "await clone", "clone"}

\* The places of a thread that holds its key's flock exclusively, and those where
\* it is about to replace an entry that reads as a miss.
Locking == {"await slot", "populate", "rename", "mark", "list", "evict", "evict tree"}
Missing == {"await slot", "populate", "rename", "mark"}

Clones == [at : Places, key : Keys \cup {NoKey}, tries : 0 .. Attempts, list : Seq(Keys),
           excess : Int, victim : Keys \cup {NoKey}]

\* What a thread relies on at each of its places.
ThreadInv(t) ==
  /\ thread[t].at # "idle" => thread[t].key \in Keys
  /\ thread[t].at \notin {"await clone", "clone"} => thread[t].tries < Attempts
  /\ thread[t].at \in Locking => exclusive[thread[t].key] = t
  /\ thread[t].at \in Missing => thread[t].key \notin Marked
  /\ thread[t].at = "mark" => entry[thread[t].key] = "tree"
  /\ thread[t].at = "evict tree" =>
       /\ thread[t].victim \in Keys \ ({thread[t].key} \cup Marked)
       /\ exclusive[thread[t].victim] = t /\ thread[t].list # <<>>
  /\ thread[t].at = "copy" => t \in shared[thread[t].key] /\ CacheReady(thread[t].key)

\* Every key has at most one marker.
MarkedOnce == \A i, j \in 1 .. Len(marked) : marked[i] = marked[j] => i = j

\* flock: an exclusive holder excludes the shared ones.
LocksExclude == \A k \in Keys : exclusive[k] # NoThread => shared[k] = {}

CacheIInv ==
  /\ CacheTypeOK /\ MarkedOnce /\ MarkedIsWhole /\ LocksExclude
  /\ \A t \in Threads : ThreadInv(t)

\* The type of a thread, with its record named.
LEMMA CloneType ==
  CacheTypeOK <=>
    /\ entry \in [Keys -> {"none", "partial", "tree"}]
    /\ marked \in Seq(Keys)
    /\ orphans \subseteq Keys
    /\ exclusive \in [Keys -> Threads \cup {NoThread}]
    /\ shared \in [Keys -> SUBSET Threads]
    /\ thread \in [Threads -> Clones]
    /\ kills \in 0 .. MaxKills
BY Zenon DEF CacheTypeOK, Clones, Places

LEMMA NextType ==
  ASSUME entry' \in [Keys -> {"none", "partial", "tree"}],
         marked' \in Seq(Keys),
         orphans' \subseteq Keys,
         exclusive' \in [Keys -> Threads \cup {NoThread}],
         shared' \in [Keys -> SUBSET Threads],
         thread' \in [Threads -> Clones],
         kills' \in 0 .. MaxKills
  PROVE  CacheTypeOK'
BY Zenon DEF CacheTypeOK, Clones, Places

LEMMA CacheImplied == CacheIInv => CacheInvariant
<1> SUFFICES ASSUME CacheIInv, NEW t \in Threads, ThreadAt(t, "copy")
             PROVE  CacheReady(KeyOf(t)) /\ exclusive[KeyOf(t)] = NoThread
  BY DEF CacheIInv, CacheInvariant, CopiesAreWhole
<1>1. KeyOf(t) \in Keys /\ t \in shared[KeyOf(t)] /\ CacheReady(KeyOf(t))
  BY DEF CacheIInv, ThreadInv, ThreadAt, KeyOf
<1> QED BY <1>1 DEF CacheIInv, LocksExclude

LEMMA IdleClone == NoClone \in Clones /\ NoClone.at = "idle" /\ NoClone.tries < Attempts
<1>1. NoClone \in Clones /\ NoClone.at = "idle" /\ NoClone.tries = 0
  BY RepoCacheAssumption DEF NoClone, Clones, Places
<1> QED BY <1>1, RepoCacheAssumption

LEMMA CacheStarts == CacheInit => CacheIInv
<1> SUFFICES ASSUME CacheInit PROVE CacheIInv
  OBVIOUS
<1>1. thread = [t \in Threads |-> NoClone]
  BY DEF CacheInit
<1>2. Marked = {} /\ marked \in Seq(Keys) /\ Len(marked) = 0
  BY DEF CacheInit, Marked, ToSet
<1>3. CacheTypeOK
  BY <1>1, <1>2, CloneType, IdleClone, RepoCacheAssumption DEF CacheInit
<1>4. \A t \in Threads : ThreadInv(t)
  BY <1>1, IdleClone DEF ThreadInv, Locking, Missing
<1> QED BY <1>2, <1>3, <1>4, RepoCacheAssumption DEF CacheIInv, MarkedOnce, MarkedIsWhole, LocksExclude, CacheInit

\* Removing a marker leaves the others, each once, in their order.
LEMMA RemovalKeepsOthers ==
  ASSUME CacheTypeOK, MarkedOnce, NEW k \in Keys
  PROVE  /\ RemoveFirst(marked, k) \in Seq(Keys)
         /\ ToSet(RemoveFirst(marked, k)) = Marked \ {k}
         /\ \A i, j \in 1 .. Len(RemoveFirst(marked, k)) : RemoveFirst(marked, k)[i] = RemoveFirst(marked, k)[j] => i = j
<1> DEFINE r == RemoveFirst(marked, k)
<1>0. marked \in Seq(Keys) /\ Len(marked) \in Nat /\ DOMAIN marked = 1 .. Len(marked)
  BY CloneType
<1>1. Marked = {marked[i] : i \in 1 .. Len(marked)}
  BY <1>0 DEF Marked, ToSet
<1>2. CASE k \notin Marked
  <2>1. r = marked
    BY <1>1, <1>2 DEF RemoveFirst
  <2> QED BY <1>0, <1>2, <2>1 DEF MarkedOnce, Marked
<1>3. CASE k \in Marked
  <2>1. PICK i \in 1 .. Len(marked) : marked[i] = k
    BY <1>1, <1>3
  <2> DEFINE front == SubSeq(marked, 1, i - 1)
             back == SubSeq(marked, i + 1, Len(marked))
  <2>2. r = front \o back
    <3>1. {h \in 1 .. Len(marked) : marked[h] = k} = {i}
      BY <2>1, <1>0 DEF MarkedOnce
    <3>2. Min({i}) = i
      BY <1>0 DEF Min
    <3>3. SelectInSeq(marked, LAMBDA v : v = k) = i
      BY <3>1, <3>2 DEF SelectInSeq
    <3> QED BY <2>1, <3>3 DEF RemoveFirst, RemoveAt
  <2>3. /\ front \in Seq(Keys) /\ Len(front) = i - 1
        /\ \A j \in 1 .. i - 1 : front[j] = marked[j]
    <3>1. \A j \in 1 .. i - 1 : marked[j] \in Keys
      BY <1>0
    <3> QED BY <1>0, <3>1, SubSeqProperties
  <2>4. /\ back \in Seq(Keys) /\ Len(back) = Len(marked) - i
        /\ \A j \in 1 .. Len(marked) - i : back[j] = marked[j + i]
    <3>1. \A j \in i + 1 .. Len(marked) : marked[j] \in Keys
      BY <1>0
    <3>2. /\ back \in Seq(Keys)
          /\ Len(back) = IF i + 1 <= Len(marked) THEN Len(marked) - (i + 1) + 1 ELSE 0
          /\ \A j \in 1 .. Len(marked) - (i + 1) + 1 : back[j] = marked[(i + 1) + j - 1]
      BY <1>0, <3>1, SubSeqProperties
    <3> HIDE DEF back
    <3>3. Len(back) = Len(marked) - i
      <4>1. Len(back) = IF i + 1 <= Len(marked) THEN Len(marked) - (i + 1) + 1 ELSE 0
        BY <3>2
      <4>2. i \in Int /\ Len(marked) \in Int /\ i <= Len(marked)
        BY <1>0
      <4> QED BY <4>1, <4>2
    <3>4. ASSUME NEW j \in 1 .. Len(marked) - i PROVE back[j] = marked[j + i]
      <4>1. j \in 1 .. Len(marked) - (i + 1) + 1 /\ (i + 1) + j - 1 = j + i
        BY <1>0
      <4> QED BY <3>2, <4>1
    <3> QED BY <3>2, <3>3, <3>4
  <2> HIDE DEF r, front, back
  <2>5. r \in Seq(Keys) /\ Len(r) = Len(marked) - 1
    <3>1. r \in Seq(Keys) /\ Len(r) = Len(front) + Len(back)
      BY <2>2, <2>3, <2>4, ConcatProperties
    <3> QED BY <1>0, <2>3, <2>4, <3>1
  <2>6. \A j \in 1 .. Len(r) : r[j] = IF j < i THEN marked[j] ELSE marked[j + 1]
    <3>1. \A j \in 1 .. Len(r) : r[j] = IF j <= i - 1 THEN front[j] ELSE back[j - (i - 1)]
      BY <1>0, <2>2, <2>3, <2>4, <2>5, ConcatProperties
    <3> QED BY <1>0, <2>3, <2>4, <2>5, <3>1
  <2>7. \A j \in 1 .. Len(r) : r[j] \in Marked \ {k}
    BY <1>0, <1>1, <2>1, <2>5, <2>6 DEF MarkedOnce
  <2>8. ASSUME NEW h \in Marked \ {k} PROVE \E j \in 1 .. Len(r) : r[j] = h
    <3>1. PICK j \in 1 .. Len(marked) : marked[j] = h
      BY <1>1
    <3>2. CASE j < i
      <4>1. j \in 1 .. Len(r)
        BY <1>0, <2>5, <3>1, <3>2
      <4>2. r[j] = h
        BY <2>6, <3>1, <3>2, <4>1
      <4> QED BY <4>1, <4>2
    <3>3. CASE j > i
      <4>1. j - 1 \in 1 .. Len(r) /\ r[j - 1] = h
        BY <1>0, <2>5, <2>6, <3>1, <3>3
      <4> QED BY <4>1
    <3> QED BY <2>1, <3>1, <3>2, <3>3
  <2>9. ToSet(r) = {r[j] : j \in 1 .. Len(r)}
    <3>1. DOMAIN r = 1 .. Len(r)
      BY <2>5
    <3> QED BY <3>1 DEF ToSet
  <2>10. \A a, b \in 1 .. Len(r) : r[a] = r[b] => a = b
    <3> DEFINE at(a) == IF a < i THEN a ELSE a + 1
    <3>1. \A a \in 1 .. Len(r) : at(a) \in 1 .. Len(marked) /\ r[a] = marked[at(a)]
      BY <1>0, <2>5, <2>6
    <3>2. \A a, b \in 1 .. Len(r) : at(a) = at(b) => a = b
      BY <1>0, <2>5
    <3> HIDE DEF at
    <3> QED BY <3>1, <3>2 DEF MarkedOnce
  <2>11. ToSet(r) = Marked \ {k}
    BY <2>7, <2>8, <2>9
  <2> QED BY <2>5, <2>10, <2>11 DEF r
<1> QED BY <1>2, <1>3

\* What a step of others must respect for a thread's assertion to survive it.
LEMMA OthersKeep ==
  ASSUME CacheIInv, NEW u \in Threads, thread'[u] = thread[u],
         \A k \in Keys : exclusive[k] = u =>
            /\ exclusive'[k] = u
            /\ k \in Marked' => k \in Marked
            /\ entry[k] = "tree" => entry'[k] = "tree",
         \A k \in Keys : u \in shared[k] =>
            u \in shared'[k] /\ (CacheReady(k) => CacheReady(k)')
  PROVE  ThreadInv(u)'
<1>1. ThreadInv(u)
  BY DEF CacheIInv
<1> QED BY <1>1 DEF ThreadInv, Locking, Missing

\* A step of a thread that keeps its assertion and the parts every thread shares.
LEMMA StepOf ==
  ASSUME CacheIInv, NEW t \in Threads, CacheTypeOK', MarkedOnce', MarkedIsWhole',
         ThreadInv(t)',
         \A u \in Threads \ {t} : thread'[u] = thread[u],
         \A k \in Keys : exclusive'[k] # NoThread => shared'[k] = {},
         \A k \in Keys, u \in Threads \ {t} : exclusive[k] = u =>
            /\ exclusive'[k] = u
            /\ k \in Marked' => k \in Marked
            /\ entry[k] = "tree" => entry'[k] = "tree",
         \A k \in Keys, u \in Threads \ {t} : u \in shared[k] =>
            u \in shared'[k] /\ (CacheReady(k) => CacheReady(k)')
  PROVE  CacheIInv'
<1>1. \A u \in Threads \ {t} : ThreadInv(u)'
  BY OthersKeep
<1> QED BY <1>1 DEF CacheIInv, LocksExclude

\* What every step starts from: its thread's assertion and key, and the types.
LEMMA Preceding ==
  ASSUME CacheIInv, NEW t \in Threads
  PROVE  /\ CacheTypeOK /\ MarkedOnce /\ MarkedIsWhole /\ ThreadInv(t)
         /\ \A k \in Keys : exclusive[k] # NoThread => shared[k] = {}
         /\ NoThread # t /\ NoKey \notin Keys
         /\ thread[t] \in Clones
BY CloneType, RepoCacheAssumption DEF CacheIInv, LocksExclude

LEMMA MovesKeepTypes ==
  ASSUME CacheTypeOK, NEW t \in Threads, NEW place \in Places, ThreadMoves(t, place)
  PROVE  /\ thread' \in [Threads -> Clones]
         /\ \A u \in Threads \ {t} : thread'[u] = thread[u]
         /\ thread'[t].at = place /\ thread'[t].key = thread[t].key
         /\ thread'[t].tries = thread[t].tries /\ thread'[t].list = thread[t].list
         /\ thread'[t].victim = thread[t].victim
BY CloneType DEF ThreadMoves, Clones

\* The markers and the trees they stand for, where no step touches either.
LEMMA MarkersKeep ==
  ASSUME MarkedOnce, MarkedIsWhole, entry' = entry, marked' = marked
  PROVE  MarkedOnce' /\ MarkedIsWhole' /\ Marked' = Marked
BY DEF MarkedOnce, MarkedIsWhole, Marked

LEMMA BeginCloneKeeps ==
  ASSUME CacheIInv, NEW t \in Threads, NEW k \in Keys, BeginClone(t, k)
  PROVE  CacheIInv'
<1> USE Preceding DEF BeginClone
<1>0. thread \in [Threads -> Clones]
  BY CloneType
<1>1. PICK c : c = [thread[t] EXCEPT !.at = "ensure", !.key = k]
  OBVIOUS
<1>2. /\ thread' \in [Threads -> Clones]
      /\ thread'[t].at = "ensure" /\ thread'[t].key = k /\ thread'[t].tries = thread[t].tries
      /\ \A u \in Threads \ {t} : thread'[u] = thread[u]
  <2>1. c \in Clones /\ c.at = "ensure" /\ c.key = k /\ c.tries = thread[t].tries
    BY <1>1 DEF Clones, Places
  <2>2. thread' = [thread EXCEPT ![t] = c]
    BY <1>1
  <2> QED BY <1>0, <2>1, <2>2
<1>3. CacheTypeOK' /\ MarkedOnce' /\ MarkedIsWhole'
  BY <1>2, CloneType, NextType DEF MarkedOnce, MarkedIsWhole, Marked
<1>4. ThreadInv(t)'
  BY <1>2 DEF ThreadInv, ThreadAt, Locking, Missing
<1> QED BY <1>2, <1>3, <1>4, StepOf DEF CacheReady, Marked

LEMMA EnsureKeeps ==
  ASSUME CacheIInv, NEW t \in Threads, Ensure(t)
  PROVE  CacheIInv'
<1> USE Preceding DEF Ensure, KeyOf, ThreadAt
<1> DEFINE k == thread[t].key
<1>1. k \in Keys /\ thread[t].tries < Attempts
  BY DEF ThreadInv
<1> HIDE DEF k
<1>2. CASE CacheReady(k)
  <2>1. ThreadMoves(t, "share") /\ UNCHANGED <<entry, marked, orphans, exclusive, shared, kills>>
    BY <1>2 DEF k
  <2>2. CacheTypeOK' /\ MarkedOnce' /\ MarkedIsWhole'
    <3>1. thread' \in [Threads -> Clones]
      BY <2>1, MovesKeepTypes DEF Places
    <3>2. CacheTypeOK'
      BY <2>1, <3>1, CloneType, NextType
    <3> QED BY <2>1, <3>2 DEF MarkedOnce, MarkedIsWhole, Marked
  <2>3. ThreadInv(t)'
    BY <1>1, <2>1, MovesKeepTypes DEF ThreadInv, Locking, Missing, Places, k
  <2> QED BY <2>1, <2>2, <2>3, MovesKeepTypes, StepOf DEF CacheReady, Marked, Places
<1>3. CASE ~CacheReady(k)
  <2>1. /\ ThreadMoves(t, "await slot") /\ exclusive' = [exclusive EXCEPT ![k] = t]
        /\ exclusive[k] = NoThread /\ shared[k] = {} /\ k \notin Marked
    BY <1>1, <1>3 DEF k, CacheReady, MarkedIsWhole
  <2>2. CacheTypeOK' /\ MarkedOnce' /\ MarkedIsWhole'
    <3>1. "await slot" \in Places
      BY DEF Places
    <3>2. thread' \in [Threads -> Clones]
      BY <2>1, <3>1, MovesKeepTypes
    <3>3. exclusive' \in [Keys -> Threads \cup {NoThread}]
      BY <1>1, <2>1, CloneType
    <3>4. UNCHANGED <<entry, marked, orphans, shared, kills>>
      BY <1>3 DEF k
    <3>5. CacheTypeOK'
      BY <3>2, <3>3, <3>4, CloneType, NextType
    <3> QED BY <3>4, <3>5, MarkersKeep
  <2>3. exclusive'[k] = t /\ \A h \in Keys \ {k} : exclusive'[h] = exclusive[h]
    BY <1>1, <2>1, CloneType
  <2>4. ThreadInv(t)'
    BY <1>1, <2>1, <2>3, MovesKeepTypes DEF ThreadInv, Locking, Missing, Places, Marked, k
  <2>5. \A h \in Keys, u \in Threads \ {t} : exclusive[h] = u => exclusive'[h] = u
    BY <1>1, <2>1, <2>3, RepoCacheAssumption
  <2>6. \A h \in Keys : exclusive'[h] # NoThread => shared'[h] = {}
    BY <1>1, <2>1, <2>3
  <2>7. \A u \in Threads \ {t} : thread'[u] = thread[u]
    BY <2>1, MovesKeepTypes DEF Places
  <2>8. Marked' = Marked /\ \A h \in Keys : CacheReady(h) => CacheReady(h)'
    BY DEF Marked, CacheReady
  <2> QED BY <2>2, <2>4, <2>5, <2>6, <2>7, <2>8, StepOf
<1> QED BY <1>2, <1>3

LEMMA TakeSlotKeeps ==
  ASSUME CacheIInv, NEW t \in Threads, TakeSlot(t)
  PROVE  CacheIInv'
<1> USE Preceding DEF TakeSlot, KeyOf, ThreadAt
<1>1. CacheTypeOK' /\ MarkedOnce' /\ MarkedIsWhole'
  <2>1. "populate" \in Places
    BY DEF Places
  <2>2. thread' \in [Threads -> Clones]
    BY <2>1, MovesKeepTypes
  <2>3. orphans' \subseteq Keys
    BY CloneType
  <2>4. CacheTypeOK'
    BY <2>2, <2>3, CloneType, NextType
  <2> QED BY <2>4, MarkersKeep
<1>2. ThreadInv(t)'
  BY MovesKeepTypes DEF ThreadInv, Locking, Missing, Places, Marked
<1> QED BY <1>1, <1>2, MovesKeepTypes, StepOf DEF CacheReady, Marked, Places

\* Fetched, Rename: the entry of a key that reads as a miss and is held changes.
LEMMA FetchKeeps ==
  ASSUME CacheIInv, NEW t \in Threads, Fetched(t) \/ Rename(t)
  PROVE  CacheIInv'
<1> USE Preceding
<1> DEFINE k == thread[t].key
<1>1. /\ k \in Keys /\ thread[t].tries < Attempts /\ exclusive[k] = t /\ k \notin Marked
      /\ UNCHANGED <<marked, orphans, exclusive, shared, kills>>
      /\ \/ ThreadMoves(t, "rename") /\ entry' = [entry EXCEPT ![k] = "none"]
         \/ ThreadMoves(t, "mark") /\ entry' = [entry EXCEPT ![k] = "tree"]
  BY DEF ThreadInv, Fetched, Rename, ThreadAt, KeyOf, Locking, Missing
<1>2. PICK place \in {"rename", "mark"} :
        /\ ThreadMoves(t, place)
        /\ entry' = [entry EXCEPT ![k] = IF place = "mark" THEN "tree" ELSE "none"]
  BY <1>1
<1> HIDE DEF k
<1>3. /\ entry' \in [Keys -> {"none", "partial", "tree"}]
      /\ place = "mark" => entry'[k] = "tree"
      /\ \A h \in Keys \ {k} : entry'[h] = entry[h]
  BY <1>1, <1>2, CloneType
<1>4. Marked' = Marked /\ Marked \subseteq Keys
  BY <1>1, CloneType DEF Marked, ToSet
<1>5. CacheTypeOK' /\ MarkedOnce' /\ MarkedIsWhole'
  <2>1. thread' \in [Threads -> Clones]
    BY <1>2, MovesKeepTypes DEF Places
  <2>2. CacheTypeOK'
    BY <1>1, <1>3, <2>1, CloneType, NextType
  <2>3. MarkedIsWhole'
    BY <1>1, <1>3, <1>4 DEF MarkedIsWhole
  <2> QED BY <1>1, <2>2, <2>3 DEF MarkedOnce
<1>6. ThreadInv(t)'
  <2>1. place \in Places
    BY <1>2 DEF Places
  <2>2. thread'[t].at = place /\ thread'[t].key = k /\ thread'[t].tries = thread[t].tries
    BY <1>2, <2>1, MovesKeepTypes DEF k
  <2> QED BY <1>1, <1>2, <1>3, <1>4, <2>2 DEF ThreadInv, Locking, Missing
<1>7. \A h \in Keys, u \in Threads \ {t} : u \in shared[h] => (CacheReady(h) => CacheReady(h)')
  BY <1>1, <1>3, <1>4, RepoCacheAssumption DEF CacheReady
<1>8. \A u \in Threads \ {t} : thread'[u] = thread[u]
  BY <1>2, MovesKeepTypes DEF Places
<1>9. \A h \in Keys, u \in Threads \ {t} : exclusive[h] = u => h # k
  BY <1>1
<1> QED BY <1>1, <1>3, <1>4, <1>5, <1>6, <1>7, <1>8, <1>9, StepOf

LEMMA WriteMarkerKeeps ==
  ASSUME CacheIInv, NEW t \in Threads, WriteMarker(t)
  PROVE  CacheIInv'
<1> USE Preceding
<1> DEFINE k == thread[t].key
           r == RemoveFirst(marked, k)
<1>1. /\ k \in Keys /\ thread[t].tries < Attempts /\ exclusive[k] = t
      /\ entry[k] = "tree" /\ ThreadMoves(t, "list") /\ marked' = Append(r, k)
      /\ UNCHANGED <<entry, orphans, exclusive, shared, kills>>
  BY DEF ThreadInv, WriteMarker, ThreadAt, KeyOf, Locking, Missing
<1>2. /\ r \in Seq(Keys) /\ ToSet(r) = Marked \ {k}
      /\ \A i, j \in 1 .. Len(r) : r[i] = r[j] => i = j
  BY <1>1, RemovalKeepsOthers
<1> HIDE DEF r, k
<1>3. /\ marked' \in Seq(Keys) /\ Len(marked') = Len(r) + 1 /\ marked'[Len(r) + 1] = k
      /\ \A i \in 1 .. Len(r) : marked'[i] = r[i]
  BY <1>1, <1>2
<1>4. \A i \in 1 .. Len(r) : r[i] \in Marked \ {k}
  BY <1>2 DEF ToSet
<1>5. Marked' \subseteq Marked \cup {k}
  <2>1. \A i \in 1 .. Len(r) + 1 : marked'[i] \in Marked \cup {k}
    BY <1>2, <1>3, <1>4
  <2>2. DOMAIN marked' = 1 .. Len(r) + 1
    BY <1>2, <1>3
  <2> QED BY <2>1, <2>2 DEF Marked, ToSet
<1>6. Marked \subseteq Marked'
  <2>1. ASSUME NEW h \in Marked PROVE \E i \in 1 .. Len(r) + 1 : marked'[i] = h
    <3>1. CASE h = k
      BY <1>2, <1>3, <3>1
    <3>2. CASE h # k
      <4>1. PICK i \in DOMAIN r : r[i] = h
        BY <1>2, <3>2 DEF ToSet
      <4> QED BY <1>2, <1>3, <4>1
    <3> QED BY <3>1, <3>2
  <2>2. DOMAIN marked' = 1 .. Len(r) + 1
    BY <1>2, <1>3
  <2> QED BY <2>1, <2>2 DEF Marked, ToSet
<1>7. MarkedOnce'
  <2> SUFFICES ASSUME NEW i \in 1 .. Len(r) + 1, NEW j \in 1 .. Len(r) + 1, marked'[i] = marked'[j]
               PROVE  i = j
    BY <1>3 DEF MarkedOnce
  <2>1. CASE i \in 1 .. Len(r) /\ j \in 1 .. Len(r)
    BY <1>2, <1>3, <2>1
  <2>2. CASE i = Len(r) + 1 \/ j = Len(r) + 1
    BY <1>2, <1>3, <1>4, <2>2
  <2> QED BY <1>2, <2>1, <2>2
<1>8. CacheTypeOK' /\ MarkedIsWhole'
  <2>1. thread' \in [Threads -> Clones]
    BY <1>1, MovesKeepTypes DEF Places
  <2>2. CacheTypeOK'
    BY <1>1, <1>3, <2>1, CloneType, NextType
  <2> QED BY <1>1, <1>5, <2>2 DEF MarkedIsWhole
<1>9. ThreadInv(t)'
  BY <1>1, MovesKeepTypes DEF ThreadInv, Locking, Missing, Places, k
<1>10. \A h \in Keys : CacheReady(h) => CacheReady(h)'
  BY <1>1, <1>6 DEF CacheReady
<1>11. \A u \in Threads \ {t} : thread'[u] = thread[u]
  BY <1>1, MovesKeepTypes DEF Places
<1>12. \A h \in Keys, u \in Threads \ {t} : exclusive[h] = u => (h \in Marked' => h \in Marked)
  BY <1>1, <1>5
<1> QED BY <1>1, <1>7, <1>8, <1>9, <1>10, <1>11, <1>12, StepOf

LEMMA FetchFailsKeeps ==
  ASSUME CacheIInv, NEW t \in Threads, FetchFails(t)
  PROVE  CacheIInv'
<1> USE Preceding
<1>1. /\ thread' = [thread EXCEPT ![t] = NoClone]
      /\ exclusive' = [k \in Keys |-> IF exclusive[k] = t THEN NoThread ELSE exclusive[k]]
      /\ UNCHANGED <<entry, marked, orphans, shared, kills>>
  BY DEF FetchFails
<1>2. NoClone \in Clones /\ NoClone.at = "idle" /\ NoClone.tries < Attempts
  BY IdleClone
<1>3. /\ thread' \in [Threads -> Clones] /\ thread'[t] = NoClone
      /\ \A u \in Threads \ {t} : thread'[u] = thread[u]
  BY <1>1, <1>2, CloneType
<1>4. CacheTypeOK'
  BY <1>1, <1>3, CloneType, NextType
<1>5. MarkedOnce' /\ MarkedIsWhole'
  BY <1>1 DEF MarkedOnce, MarkedIsWhole, Marked
<1>6. ThreadInv(t)'
  BY <1>2, <1>3 DEF ThreadInv, Locking, Missing
<1>7. \A k \in Keys : exclusive'[k] = IF exclusive[k] = t THEN NoThread ELSE exclusive[k]
  BY <1>1
<1>8. Marked' = Marked /\ \A k \in Keys : CacheReady(k) => CacheReady(k)'
  BY <1>1 DEF Marked, CacheReady
<1> QED BY <1>1, <1>3, <1>4, <1>5, <1>6, <1>7, <1>8, StepOf

\* Steps that change nothing but their thread.
LEMMA OnlyThread ==
  ASSUME CacheIInv, NEW t \in Threads, UNCHANGED <<entry, marked, exclusive, shared, kills>>,
         orphans' \subseteq Keys, thread' \in [Threads -> Clones], ThreadInv(t)',
         \A u \in Threads \ {t} : thread'[u] = thread[u]
  PROVE  CacheIInv'
<1> USE Preceding
<1>1. CacheTypeOK'
  BY CloneType, NextType
<1>2. MarkedOnce' /\ MarkedIsWhole'
  BY DEF MarkedOnce, MarkedIsWhole, Marked
<1>3. Marked' = Marked /\ \A k \in Keys : CacheReady(k) => CacheReady(k)'
  BY DEF Marked, CacheReady
<1> QED BY <1>1, <1>2, <1>3, StepOf

LEMMA ListEntriesKeeps ==
  ASSUME CacheIInv, NEW t \in Threads, ListEntries(t)
  PROVE  CacheIInv'
<1> USE Preceding
<1> DEFINE n == IF MaxEntries = 0 THEN 0 ELSE Len(marked) - MaxEntries
           c == [thread[t] EXCEPT !.at = "evict", !.list = marked, !.excess = n]
<1>1. n \in Int /\ marked \in Seq(Keys)
  BY CloneType, RepoCacheAssumption
<1>2. /\ thread[t].at = "list"
      /\ thread' = [thread EXCEPT ![t] = c]
      /\ UNCHANGED <<entry, marked, orphans, exclusive, shared, kills>>
  BY DEF ListEntries, ThreadAt
<1> HIDE DEF n
<1>3. /\ thread' \in [Threads -> Clones] /\ thread'[t].at = "evict"
      /\ thread'[t].key = thread[t].key /\ thread'[t].tries = thread[t].tries
      /\ \A u \in Threads \ {t} : thread'[u] = thread[u]
  <2>1. /\ c \in Clones /\ c.at = "evict" /\ c.key = thread[t].key /\ c.tries = thread[t].tries
    BY <1>1 DEF Clones, Places
  <2> HIDE DEF c
  <2> QED BY <1>2, <2>1, CloneType
<1>4. ThreadInv(t)'
  BY <1>2, <1>3 DEF ThreadInv, Locking, Missing
<1>5. orphans' \subseteq Keys
  BY <1>2, CloneType
<1> QED BY <1>2, <1>3, <1>4, <1>5, OnlyThread

LEMMA SkipKeeps ==
  ASSUME CacheIInv, NEW t \in Threads, Skip(t)
  PROVE  CacheIInv'
<1> USE Preceding
<1>1. /\ thread[t].at = "evict" /\ thread[t].list # <<>>
      /\ thread' = [thread EXCEPT ![t].list = Tail(@)]
      /\ UNCHANGED <<entry, marked, orphans, exclusive, shared, kills>>
  BY DEF Skip, Evicting, ThreadAt, Passed
<1>2. Tail(thread[t].list) \in Seq(Keys)
  BY <1>1 DEF Clones
<1>3. /\ thread' \in [Threads -> Clones] /\ thread'[t].at = "evict"
      /\ thread'[t].key = thread[t].key /\ thread'[t].tries = thread[t].tries
      /\ \A u \in Threads \ {t} : thread'[u] = thread[u]
  BY <1>1, <1>2, CloneType DEF Clones
<1>4. ThreadInv(t)'
  BY <1>1, <1>3 DEF ThreadInv, Locking, Missing
<1>5. orphans' \subseteq Keys
  BY <1>1, CloneType
<1> QED BY <1>1, <1>3, <1>4, <1>5, OnlyThread

\* An entry under a try-lock loses its marker; nobody else relies on it.
LEMMA EvictMarkerKeeps ==
  ASSUME CacheIInv, NEW t \in Threads, EvictMarker(t)
  PROVE  CacheIInv'
<1> USE Preceding
<1> DEFINE k == Head(thread[t].list)
           r == RemoveFirst(marked, k)
           tree == IF entry[k] = "tree" THEN "partial" ELSE entry[k]
           c == [thread[t] EXCEPT !.at = "evict tree", !.victim = k]
<1>1. /\ thread[t].at = "evict" /\ thread[t].list # <<>> /\ k # thread[t].key
      /\ exclusive[k] = NoThread /\ shared[k] = {}
      /\ exclusive' = [exclusive EXCEPT ![k] = t]
      /\ thread' = [thread EXCEPT ![t] = c]
      /\ marked' = r /\ entry' = [entry EXCEPT ![k] = tree]
      /\ UNCHANGED <<orphans, shared, kills>>
  BY DEF EvictMarker, Evicting, ThreadAt, TryLock, Victim, KeyOf
<1>2. k \in Keys
  <2>1. thread[t].list \in Seq(Keys) /\ thread[t].list # <<>>
    BY <1>1 DEF Clones
  <2> QED BY <2>1
<1>3. /\ r \in Seq(Keys) /\ ToSet(r) = Marked \ {k}
      /\ \A i, j \in 1 .. Len(r) : r[i] = r[j] => i = j
  BY <1>2, RemovalKeepsOthers
<1>4. tree \in {"none", "partial", "tree"}
  BY <1>2, CloneType
<1>5. /\ thread[t].key \in Keys /\ exclusive[thread[t].key] = t /\ thread[t].tries < Attempts
  BY <1>1 DEF ThreadInv, Locking
<1> HIDE DEF k, r, tree
<1>6. Marked' = Marked \ {k}
  BY <1>1, <1>3 DEF Marked
<1>7. /\ thread' \in [Threads -> Clones] /\ thread'[t].at = "evict tree" /\ thread'[t].victim = k
      /\ thread'[t].key = thread[t].key /\ thread'[t].tries = thread[t].tries
      /\ thread'[t].list = thread[t].list
      /\ \A u \in Threads \ {t} : thread'[u] = thread[u]
  <2>1. /\ c \in Clones /\ c.at = "evict tree" /\ c.victim = k /\ c.key = thread[t].key
        /\ c.tries = thread[t].tries /\ c.list = thread[t].list
    BY <1>2 DEF Clones, Places
  <2> HIDE DEF c
  <2> QED BY <1>1, <2>1, CloneType
<1>8. /\ exclusive' \in [Keys -> Threads \cup {NoThread}] /\ exclusive'[k] = t
      /\ \A h \in Keys \ {k} : exclusive'[h] = exclusive[h]
  BY <1>1, <1>2, CloneType
<1>9. /\ entry' \in [Keys -> {"none", "partial", "tree"}]
      /\ \A h \in Keys \ {k} : entry'[h] = entry[h]
  BY <1>1, <1>2, <1>4, CloneType
<1>10. CacheTypeOK'
  <2>1. marked' \in Seq(Keys)
    BY <1>1, <1>3
  <2>2. orphans' \subseteq Keys /\ shared' \in [Keys -> SUBSET Threads] /\ kills' \in 0 .. MaxKills
    BY <1>1, CloneType
  <2> QED BY <1>7, <1>8, <1>9, <2>1, <2>2, NextType
<1>11. MarkedOnce'
  BY <1>1, <1>3 DEF MarkedOnce
<1>12. MarkedIsWhole'
  <2>1. Marked \subseteq Keys
    BY CloneType DEF Marked, ToSet
  <2> QED BY <2>1, <1>6, <1>9 DEF MarkedIsWhole
<1>13. ThreadInv(t)'
  <2>1. thread'[t].victim \in Keys \ ({thread'[t].key} \cup Marked')
    BY <1>1, <1>2, <1>6, <1>7
  <2>2. exclusive'[thread'[t].key] = t /\ exclusive'[thread'[t].victim] = t
    BY <1>1, <1>5, <1>7, <1>8
  <2> QED BY <1>1, <1>5, <1>7, <2>1, <2>2 DEF ThreadInv, Locking, Missing
<1>14. \A h \in Keys : exclusive'[h] # NoThread => shared'[h] = {}
  BY <1>1, <1>8
<1>15. \A h \in Keys, u \in Threads \ {t} : exclusive[h] = u => h # k
  BY <1>1, RepoCacheAssumption
<1>16. \A h \in Keys, u \in Threads \ {t} : u \in shared[h] => h # k
  BY <1>1
<1>17. \A h \in Keys \ {k} : CacheReady(h) => CacheReady(h)'
  BY <1>6, <1>9 DEF CacheReady
<1>18. \A h \in Keys, u \in Threads \ {t} : exclusive[h] = u =>
         exclusive'[h] = u /\ (h \in Marked' => h \in Marked) /\ (entry[h] = "tree" => entry'[h] = "tree")
  BY <1>6, <1>8, <1>9, <1>15
<1>19. \A h \in Keys, u \in Threads \ {t} : u \in shared[h] =>
         u \in shared'[h] /\ (CacheReady(h) => CacheReady(h)')
  BY <1>1, <1>16, <1>17
<1>20. CacheTypeOK' /\ \A u \in Threads \ {t} : thread'[u] = thread[u]
  BY <1>7, <1>10
<1> QED BY <1>11, <1>12, <1>13, <1>14, <1>18, <1>19, <1>20, StepOf

\* The tree of an entry without a marker goes, and the try-lock with it.
LEMMA EvictTreeKeeps ==
  ASSUME CacheIInv, NEW t \in Threads, EvictTree(t)
  PROVE  CacheIInv'
<1> USE Preceding
<1> DEFINE k == thread[t].victim
           rest == Tail(thread[t].list)
           fewer == thread[t].excess - 1
           c == [thread[t] EXCEPT !.at = "evict", !.victim = NoKey, !.list = rest, !.excess = fewer]
<1>1. /\ thread[t].at = "evict tree"
      /\ entry' = [entry EXCEPT ![k] = "none"] /\ exclusive' = [exclusive EXCEPT ![k] = NoThread]
      /\ thread' = [thread EXCEPT ![t] = c]
      /\ UNCHANGED <<marked, orphans, shared, kills>>
  BY DEF EvictTree, ThreadAt
<1>2. /\ k \in Keys \ ({thread[t].key} \cup Marked) /\ exclusive[k] = t
      /\ thread[t].key \in Keys /\ exclusive[thread[t].key] = t /\ thread[t].tries < Attempts
      /\ thread[t].list # <<>>
  BY <1>1 DEF ThreadInv, Locking
<1>3. rest \in Seq(Keys) /\ fewer \in Int
  <2>1. thread[t].list \in Seq(Keys) /\ thread[t].excess \in Int
    BY DEF Clones
  <2> QED BY <1>2, <2>1
<1> HIDE DEF k, rest, fewer
<1>4. /\ thread' \in [Threads -> Clones] /\ thread'[t].at = "evict"
      /\ thread'[t].key = thread[t].key /\ thread'[t].tries = thread[t].tries
      /\ \A u \in Threads \ {t} : thread'[u] = thread[u]
  <2>1. c \in Clones /\ c.at = "evict" /\ c.key = thread[t].key /\ c.tries = thread[t].tries
    BY <1>3 DEF Clones, Places
  <2> HIDE DEF c
  <2> QED BY <1>1, <2>1, CloneType
<1>5. /\ entry' \in [Keys -> {"none", "partial", "tree"}]
      /\ \A h \in Keys \ {k} : entry'[h] = entry[h]
  BY <1>1, <1>2, CloneType
<1>6. /\ exclusive' \in [Keys -> Threads \cup {NoThread}] /\ exclusive'[k] = NoThread
      /\ \A h \in Keys \ {k} : exclusive'[h] = exclusive[h]
  BY <1>1, <1>2, CloneType
<1>7. Marked' = Marked /\ Marked \subseteq Keys
  <2>1. marked \in Seq(Keys)
    BY CloneType
  <2>2. Marked \subseteq Keys
    BY <2>1 DEF Marked, ToSet
  <2> QED BY <1>1, <2>2 DEF Marked
<1>8. CacheTypeOK'
  BY <1>1, <1>4, <1>5, <1>6, CloneType, NextType
<1>9. MarkedOnce' /\ MarkedIsWhole'
  <2>1. MarkedOnce'
    BY <1>1 DEF MarkedOnce
  <2>2. MarkedIsWhole'
    BY <1>2, <1>5, <1>7 DEF MarkedIsWhole
  <2> QED BY <2>1, <2>2
<1>10. ThreadInv(t)'
  <2>1. exclusive'[thread'[t].key] = t
    BY <1>2, <1>4, <1>6
  <2> QED BY <1>2, <1>4, <2>1 DEF ThreadInv, Locking, Missing
<1>11. \A h \in Keys, u \in Threads \ {t} : exclusive[h] = u => h # k
  BY <1>2
<1>12. \A h \in Keys : CacheReady(h) => CacheReady(h)'
  BY <1>2, <1>5, <1>7 DEF CacheReady
<1>13. \A h \in Keys : exclusive'[h] # NoThread => shared'[h] = {}
  BY <1>1, <1>6
<1>14. \A h \in Keys, u \in Threads \ {t} : exclusive[h] = u =>
         exclusive'[h] = u /\ (h \in Marked' => h \in Marked) /\ (entry[h] = "tree" => entry'[h] = "tree")
  BY <1>5, <1>6, <1>7, <1>11
<1>15. shared' = shared /\ \A u \in Threads \ {t} : thread'[u] = thread[u]
  BY <1>1, <1>4
<1> QED BY <1>8, <1>9, <1>10, <1>12, <1>13, <1>14, <1>15, StepOf

LEMMA EvictionEndsKeeps ==
  ASSUME CacheIInv, NEW t \in Threads, EvictionEnds(t)
  PROVE  CacheIInv'
<1> USE Preceding
<1> DEFINE k == thread[t].key
           c == [thread[t] EXCEPT !.at = "share", !.list = <<>>, !.excess = 0]
<1>1. /\ thread[t].at = "evict" /\ exclusive' = [exclusive EXCEPT ![k] = NoThread]
      /\ thread' = [thread EXCEPT ![t] = c]
      /\ UNCHANGED <<entry, marked, orphans, shared, kills>>
  BY DEF EvictionEnds, ThreadAt, KeyOf
<1>2. k \in Keys /\ exclusive[k] = t /\ thread[t].tries < Attempts
  BY <1>1 DEF ThreadInv, Locking
<1>3. /\ thread' \in [Threads -> Clones] /\ thread'[t].at = "share"
      /\ thread'[t].key = k /\ thread'[t].tries = thread[t].tries
      /\ \A u \in Threads \ {t} : thread'[u] = thread[u]
  <2>1. c \in Clones /\ c.at = "share" /\ c.key = k /\ c.tries = thread[t].tries
    <3>1. <<>> \in Seq(Keys) /\ 0 \in Int
      OBVIOUS
    <3> QED BY <3>1 DEF Clones, Places
  <2> HIDE DEF c
  <2> QED BY <1>1, <2>1, CloneType
<1> HIDE DEF k
<1>4. /\ exclusive' \in [Keys -> Threads \cup {NoThread}] /\ exclusive'[k] = NoThread
      /\ \A h \in Keys \ {k} : exclusive'[h] = exclusive[h]
  BY <1>1, <1>2, CloneType
<1>5. Marked' = Marked /\ \A h \in Keys : CacheReady(h) => CacheReady(h)'
  BY <1>1 DEF Marked, CacheReady
<1>6. CacheTypeOK'
  BY <1>1, <1>3, <1>4, CloneType, NextType
<1>7. MarkedOnce' /\ MarkedIsWhole'
  BY <1>1, <1>5 DEF MarkedOnce, MarkedIsWhole
<1>8. ThreadInv(t)'
  BY <1>2, <1>3 DEF ThreadInv, Locking, Missing
<1>9. \A h \in Keys, u \in Threads \ {t} : exclusive[h] = u => exclusive'[h] = u
  BY <1>2, <1>4
<1>10. \A h \in Keys : exclusive'[h] # NoThread => shared'[h] = {}
  BY <1>1, <1>4
<1>11. entry' = entry /\ shared' = shared /\ \A u \in Threads \ {t} : thread'[u] = thread[u]
  BY <1>1, <1>3
<1> QED BY <1>5, <1>6, <1>7, <1>8, <1>9, <1>10, <1>11, StepOf

LEMMA ShareKeeps ==
  ASSUME CacheIInv, NEW t \in Threads, Share(t)
  PROVE  CacheIInv'
<1> USE Preceding
<1> DEFINE k == thread[t].key
<1>1. /\ thread[t].at = "share" /\ exclusive[k] = NoThread
      /\ UNCHANGED <<entry, marked, orphans, exclusive, kills>>
  BY DEF Share, ThreadAt, KeyOf
<1>2. k \in Keys /\ thread[t].tries < Attempts
  BY <1>1 DEF ThreadInv
<1>3. CASE CacheReady(k)
  <2>1. ThreadMoves(t, "copy") /\ shared' = [shared EXCEPT ![k] = @ \cup {t}]
    BY <1>3 DEF Share, KeyOf
  <2> HIDE DEF k
  <2>2. /\ shared' \in [Keys -> SUBSET Threads] /\ t \in shared'[k]
        /\ \A h \in Keys : shared[h] \subseteq shared'[h]
        /\ \A h \in Keys \ {k} : shared'[h] = shared[h]
    BY <1>2, <2>1, CloneType
  <2>3. Marked' = Marked /\ \A h \in Keys : CacheReady(h) => CacheReady(h)'
    BY <1>1 DEF Marked, CacheReady
  <2>4. /\ thread' \in [Threads -> Clones] /\ thread'[t].at = "copy" /\ thread'[t].key = k
        /\ thread'[t].tries = thread[t].tries /\ \A u \in Threads \ {t} : thread'[u] = thread[u]
    BY <2>1, MovesKeepTypes DEF Places, k
  <2>5. CacheTypeOK'
    BY <1>1, <2>2, <2>4, CloneType, NextType
  <2>6. MarkedOnce' /\ MarkedIsWhole'
    BY <1>1, <2>3 DEF MarkedOnce, MarkedIsWhole
  <2>7. ThreadInv(t)'
    BY <1>2, <1>3, <2>2, <2>3, <2>4 DEF ThreadInv, Locking, Missing
  <2>8. \A h \in Keys : exclusive'[h] # NoThread => shared'[h] = {}
    BY <1>1, <2>2 DEF k
  <2>9. exclusive' = exclusive /\ entry' = entry
    BY <1>1
  <2> QED BY <2>2, <2>3, <2>4, <2>5, <2>6, <2>7, <2>8, <2>9, StepOf
<1>4. CASE ~CacheReady(k)
  <2> DEFINE place == IF thread[t].tries + 1 < Attempts THEN "ensure" ELSE "await clone"
             tried == thread[t].tries + 1
             c == [thread[t] EXCEPT !.tries = tried, !.at = place]
  <2>1. thread' = [thread EXCEPT ![t] = c] /\ shared' = shared
    BY <1>4 DEF Share, KeyOf
  <2>2. /\ place \in {"ensure", "await clone"} /\ tried \in 0 .. Attempts
        /\ place = "ensure" => tried < Attempts
    BY <1>2, RepoCacheAssumption DEF Clones
  <2> HIDE DEF place, tried, k
  <2>3. c \in Clones /\ c.at = place /\ c.key = k /\ c.tries = tried
    BY <2>2 DEF Clones, Places, k
  <2> HIDE DEF c
  <2>4. /\ thread' \in [Threads -> Clones] /\ thread'[t] = c
        /\ \A u \in Threads \ {t} : thread'[u] = thread[u]
    BY <2>1, <2>3, CloneType
  <2>5. ThreadInv(t)'
    BY <1>2, <2>2, <2>3, <2>4 DEF ThreadInv, Locking, Missing
  <2>6. orphans' \subseteq Keys
    BY <1>1, CloneType
  <2> QED BY <1>1, <2>1, <2>4, <2>5, <2>6, OnlyThread
<1> QED BY <1>3, <1>4

LEMMA CopiedKeeps ==
  ASSUME CacheIInv, NEW t \in Threads, Copied(t)
  PROVE  CacheIInv'
<1> USE Preceding
<1> DEFINE k == thread[t].key
<1>1. /\ thread[t].at = "copy" /\ k \in Keys
      /\ thread' = [thread EXCEPT ![t] = NoClone] /\ shared' = [shared EXCEPT ![k] = @ \ {t}]
      /\ UNCHANGED <<entry, marked, orphans, exclusive, kills>>
  BY DEF Copied, ThreadAt, KeyOf, ThreadInv
<1> HIDE DEF k
<1>2. /\ thread' \in [Threads -> Clones] /\ thread'[t] = NoClone
      /\ \A u \in Threads \ {t} : thread'[u] = thread[u]
  BY <1>1, CloneType, IdleClone
<1>3. /\ shared' \in [Keys -> SUBSET Threads]
      /\ \A h \in Keys : shared'[h] \subseteq shared[h] /\ shared[h] \subseteq shared'[h] \cup {t}
  BY <1>1, CloneType
<1>4. CacheTypeOK'
  BY <1>1, <1>2, <1>3, CloneType, NextType
<1>5. Marked' = Marked /\ \A h \in Keys : CacheReady(h) => CacheReady(h)'
  BY <1>1 DEF Marked, CacheReady
<1>6. MarkedOnce' /\ MarkedIsWhole'
  BY <1>1, <1>5 DEF MarkedOnce, MarkedIsWhole
<1>7. ThreadInv(t)'
  BY <1>2, IdleClone DEF ThreadInv, Locking, Missing
<1>8. \A h \in Keys : exclusive'[h] # NoThread => shared'[h] = {}
  BY <1>1, <1>3
<1>9. exclusive' = exclusive /\ entry' = entry /\ \A h \in Keys, u \in Threads \ {t} : u \in shared[h] => u \in shared'[h]
  BY <1>1, <1>3
<1> QED BY <1>2, <1>4, <1>5, <1>6, <1>7, <1>8, <1>9, StepOf

\* CloneUncached, Cloned: a clone past the cache touches nothing that is shared.
LEMMA PastTheCacheKeeps ==
  ASSUME CacheIInv, NEW t \in Threads, CloneUncached(t) \/ Cloned(t)
  PROVE  CacheIInv'
<1> USE Preceding
<1>1. UNCHANGED <<entry, marked, orphans, exclusive, shared, kills>>
  BY DEF CloneUncached, Cloned
<1>2. CASE CloneUncached(t)
  <2>1. thread[t].key \in Keys /\ ThreadMoves(t, "clone")
    BY <1>2 DEF CloneUncached, ThreadAt, ThreadInv
  <2>2. ThreadInv(t)'
    BY <2>1, MovesKeepTypes DEF ThreadInv, Locking, Missing, Places
  <2>3. thread' \in [Threads -> Clones] /\ \A u \in Threads \ {t} : thread'[u] = thread[u]
    BY <2>1, MovesKeepTypes DEF Places
  <2> QED BY <1>1, <2>2, <2>3, CloneType, OnlyThread
<1>3. CASE Cloned(t)
  <2>1. thread' = [thread EXCEPT ![t] = NoClone]
    BY <1>3 DEF Cloned
  <2>2. /\ thread' \in [Threads -> Clones] /\ thread'[t] = NoClone
        /\ \A u \in Threads \ {t} : thread'[u] = thread[u]
    BY <2>1, CloneType, IdleClone
  <2>3. ThreadInv(t)'
    BY <2>2, IdleClone DEF ThreadInv, Locking, Missing
  <2> QED BY <1>1, <2>2, <2>3, CloneType, OnlyThread
<1> QED BY <1>2, <1>3

LEMMA HostKilledKeeps ==
  ASSUME CacheIInv, HostKilled
  PROVE  CacheIInv'
<1>1. /\ kills < MaxKills /\ kills' = kills + 1
      /\ thread' = [t \in Threads |-> NoClone]
      /\ exclusive' = [k \in Keys |-> NoThread] /\ shared' = [k \in Keys |-> {}]
      /\ UNCHANGED <<entry, marked>>
  BY DEF HostKilled
<1>2. CacheTypeOK /\ MarkedOnce /\ MarkedIsWhole /\ \A t \in Threads : ThreadInv(t)
  BY DEF CacheIInv
<1>3. orphans' \subseteq Keys
  <2>1. \A u \in Threads : thread[u].at \in {"populate", "rename"} => thread[u].key \in Keys
    BY <1>2 DEF ThreadInv
  <2> QED BY <1>2, <2>1, CloneType DEF HostKilled, KeyOf
<1>4. kills' \in 0 .. MaxKills
  BY <1>1, <1>2, CloneType, RepoCacheAssumption
<1>5. CacheTypeOK'
  BY <1>1, <1>2, <1>3, <1>4, CloneType, IdleClone, NextType
<1>6. MarkedOnce' /\ MarkedIsWhole' /\ LocksExclude'
  BY <1>1, <1>2 DEF MarkedOnce, MarkedIsWhole, Marked, LocksExclude
<1>7. \A t \in Threads : thread'[t] = NoClone
  BY <1>1
<1>8. \A t \in Threads : ThreadInv(t)'
  BY <1>7, IdleClone DEF ThreadInv, Locking, Missing
<1> QED BY <1>5, <1>6, <1>8 DEF CacheIInv

LEMMA CacheStep == CacheIInv /\ [CacheNext]_cacheVars => CacheIInv'
<1> SUFFICES ASSUME CacheIInv, [CacheNext]_cacheVars PROVE CacheIInv'
  OBVIOUS
<1>1. ASSUME NEW t \in Threads, NEW k \in Keys, BeginClone(t, k) PROVE CacheIInv'
  BY <1>1, BeginCloneKeeps
<1>2. ASSUME NEW t \in Threads, ThreadSteps(t) \/ FetchFails(t) PROVE CacheIInv'
  <2>1. CASE Ensure(t)
    BY <2>1, EnsureKeeps
  <2>2. CASE TakeSlot(t)
    BY <2>2, TakeSlotKeeps
  <2>3. CASE Fetched(t) \/ Rename(t)
    BY <2>3, FetchKeeps
  <2>4. CASE WriteMarker(t)
    BY <2>4, WriteMarkerKeeps
  <2>5. CASE FetchFails(t)
    BY <2>5, FetchFailsKeeps
  <2>6. CASE ListEntries(t)
    BY <2>6, ListEntriesKeeps
  <2>7. CASE Skip(t)
    BY <2>7, SkipKeeps
  <2>8. CASE EvictMarker(t)
    BY <2>8, EvictMarkerKeeps
  <2>9. CASE EvictTree(t)
    BY <2>9, EvictTreeKeeps
  <2>10. CASE EvictionEnds(t)
    BY <2>10, EvictionEndsKeeps
  <2>11. CASE Share(t)
    BY <2>11, ShareKeeps
  <2>12. CASE Copied(t)
    BY <2>12, CopiedKeeps
  <2>13. CASE CloneUncached(t) \/ Cloned(t)
    BY <2>13, PastTheCacheKeeps
  <2> QED BY <1>2, <2>1, <2>2, <2>3, <2>4, <2>5, <2>6, <2>7, <2>8, <2>9, <2>10, <2>11, <2>12, <2>13
          DEF ThreadSteps, FetchEntry, EvictEntries
<1>3. CASE HostKilled
  BY <1>3, HostKilledKeeps
<1>4. CASE UNCHANGED cacheVars
  <2>1. UNCHANGED <<entry, marked, orphans, exclusive, shared, thread, kills>>
    BY <1>4 DEF cacheVars
  <2>2. CacheTypeOK' /\ MarkedOnce' /\ MarkedIsWhole' /\ LocksExclude'
    BY <2>1, CloneType, NextType DEF CacheIInv, MarkedOnce, MarkedIsWhole, LocksExclude, Marked
  <2>3. \A t \in Threads : ThreadInv(t)'
    BY <2>1 DEF CacheIInv, ThreadInv, Marked, CacheReady
  <2> QED BY <2>2, <2>3 DEF CacheIInv
<1> QED BY <1>1, <1>2, <1>3, <1>4 DEF CacheNext

\* A marker stands only beside a whole tree and what a solve copies out is whole and
\* held by nobody else, for any number of threads, keys and hard kills
\* (clone_task_repo, _populate_cache_entry, _evict_excess_entries).
THEOREM CopiesAreNeverTorn == CacheSpec => []CacheInvariant
<1>1. CacheInit => CacheIInv
  BY CacheStarts
<1>2. CacheIInv /\ [CacheNext]_cacheVars => CacheIInv'
  BY CacheStep
<1>3. CacheIInv => CacheInvariant
  BY CacheImplied
<1> QED BY <1>1, <1>2, <1>3, PTL DEF CacheSpec

-----------------------------------------------------------------------------
(* The source of commits *)

LEMMA SourceParameters ==
  /\ Tokens \in Nat /\ Tokens > 0 /\ MaxAttempts \in Nat /\ MaxAttempts > 0 /\ RejectLimit \in Nat /\ RejectLimit > 0
  /\ HighWatermark \in Nat /\ SearchCooldown \in Nat /\ EventsTtl \in Nat
BY CommitSourceAssumption

\* Sets of commits are finite.
LEMMA ShaSets ==
  ASSUME NEW S \in SUBSET Shas
  PROVE  IsFiniteSet(S) /\ Cardinality(S) \in Nat
BY CommitSourceAssumption, FS_Subset, FS_CardinalityType

SourceIInv == SourceInvariant /\ (look = "fetch" => pick \in Shas)

LEMMA SourceStarts == SourceInit => SourceIInv
<1> SUFFICES ASSUME SourceInit PROVE SourceIInv
  OBVIOUS
<1>1. Cardinality({}) = 0
  BY FS_EmptySet
<1>2. cooling \in [0 .. Tokens - 1 -> Nat] /\ turn \in 0 .. Tokens - 1
  BY SourceParameters DEF SourceInit
<1>3. /\ buffer \subseteq Shas /\ Cardinality(buffer) <= 2 * HighWatermark
      /\ events \subseteq Shas /\ rejected \subseteq Shas /\ Cardinality(rejected) <= RejectLimit
  BY <1>1, SourceParameters DEF SourceInit
<1>4. searchCooling \in 0 .. SearchCooldown /\ eventsAge \in 0 .. EventsTtl /\ attempt \in 0 .. MaxAttempts
  BY SourceParameters DEF SourceInit
<1>5. look = "idle" /\ pick = NoSha /\ trouble = FALSE
  BY DEF SourceInit
<1> QED BY <1>2, <1>3, <1>4, <1>5 DEF SourceIInv, SourceInvariant, SourceTypeOK, NoRefetch

\* A request turns the rotation, and cools at most its token down.
LEMMA AskedIs ==
  ASSUME SourceIInv, NEW i, NEW ok, Asked(i, ok)
  PROVE  cooling' \in [0 .. Tokens - 1 -> Nat] /\ turn' \in 0 .. Tokens - 1
<1>1. cooling \in [0 .. Tokens - 1 -> Nat] /\ turn \in 0 .. Tokens - 1
  BY DEF SourceIInv, SourceInvariant, SourceTypeOK
<1>2. i \in Int /\ turn' = (i + 1) % Tokens
  BY <1>1, SourceParameters DEF Asked, NextTurn
<1>3. turn' \in 0 .. Tokens - 1
  BY <1>2, SourceParameters
<1>4. CoolingDown(i) \subseteq [0 .. Tokens - 1 -> Nat]
  <2> SUFFICES ASSUME NEW d \in Cooldowns PROVE [cooling EXCEPT ![i % Tokens] = d] \in [0 .. Tokens - 1 -> Nat]
    BY DEF CoolingDown
  <2>1. d \in Nat
    BY CommitSourceAssumption
  <2>2. PICK t : t = i % Tokens
    OBVIOUS
  <2>3. [cooling EXCEPT ![t] = d] \in [0 .. Tokens - 1 -> Nat]
    BY <1>1, <2>1
  <2> QED BY <2>2, <2>3
<1>5. cooling' = cooling \/ cooling' \in CoolingDown(i)
  BY DEF Asked
<1> QED BY <1>1, <1>3, <1>4, <1>5

\* What an attempt that is over leaves.
LEMMA CountedIs ==
  ASSUME SourceIInv, NEW barren, Counted(barren)
  PROVE  attempt' \in 0 .. MaxAttempts /\ look' \in {"idle", "refill"}
<1>1. attempt \in 0 .. MaxAttempts
  BY DEF SourceIInv, SourceInvariant, SourceTypeOK
<1> QED BY <1>1, SourceParameters DEF Counted

LEMMA SearchStep ==
  ASSUME SourceIInv, NEW i, NEW ok \in BOOLEAN, Search(i, ok)
  PROVE  SourceIInv'
<1>1. cooling' \in [0 .. Tokens - 1 -> Nat] /\ turn' \in 0 .. Tokens - 1
  BY AskedIs DEF Search
<1>2. SourceTypeOK
  BY DEF SourceIInv, SourceInvariant
<1>3. PICK page \in SUBSET Shas :
       LET fresh == page \ rejected IN
       /\ searchCooling' = IF fresh = {} THEN SearchCooldown ELSE searchCooling
       /\ buffer' \in {kept \in SUBSET (buffer \cup fresh) :
            Cardinality(kept) = IF Cardinality(buffer \cup fresh) > 2 * HighWatermark
                                THEN 2 * HighWatermark ELSE Cardinality(buffer \cup fresh)}
  BY DEF Search
<1>4. searchCooling' \in 0 .. SearchCooldown
  BY <1>2, <1>3, SourceParameters DEF SourceTypeOK
<1>5. PICK all \in SUBSET Shas :
        /\ all = buffer \cup (page \ rejected) /\ buffer' \subseteq all
        /\ Cardinality(buffer') = IF Cardinality(all) > 2 * HighWatermark THEN 2 * HighWatermark ELSE Cardinality(all)
  BY <1>2, <1>3 DEF SourceTypeOK
<1>6. Cardinality(all) \in Nat
  BY ShaSets
<1>7. Cardinality(buffer') <= 2 * HighWatermark
  BY <1>5, <1>6, SourceParameters
<1>8. buffer' \subseteq Shas
  BY <1>5
<1>9. look' = "pop" /\ UNCHANGED <<events, eventsAge, rejected, attempt, pick, trouble>>
  BY DEF Search
<1> QED BY <1>1, <1>2, <1>4, <1>7, <1>8, <1>9 DEF SourceIInv, SourceInvariant, SourceTypeOK, NoRefetch

LEMMA PopStep ==
  ASSUME SourceIInv, Pop
  PROVE  SourceIInv'
<1>1. SourceTypeOK
  BY DEF SourceIInv, SourceInvariant
<1>2. UNCHANGED <<cooling, turn, searchCooling, events, eventsAge, rejected, attempt, trouble>>
  BY DEF Pop
<1>3. CASE buffer \subseteq rejected
  <2>1. buffer' = {} /\ look' = "events" /\ pick' = pick
    BY <1>3 DEF Pop
  <2>2. Cardinality(buffer') <= 2 * HighWatermark
    BY <2>1, FS_EmptySet, SourceParameters
  <2> QED BY <1>1, <1>2, <2>1, <2>2 DEF SourceIInv, SourceInvariant, SourceTypeOK, NoRefetch
<1>4. CASE ~(buffer \subseteq rejected)
  <2>1. look' = "fetch"
    BY <1>4 DEF Pop
  <2>2. PICK c \in buffer \ rejected : pick' = c /\ buffer' \subseteq buffer
    BY <1>4 DEF Pop
  <2>3. Cardinality(buffer') <= 2 * HighWatermark
    <3>1. IsFiniteSet(buffer) /\ Cardinality(buffer) \in Nat
      BY <1>1, ShaSets DEF SourceTypeOK
    <3>2. Cardinality(buffer') <= Cardinality(buffer) /\ Cardinality(buffer') \in Nat
      BY <2>2, <3>1, FS_Subset, FS_CardinalityType
    <3> QED BY <1>1, <3>1, <3>2, SourceParameters DEF SourceTypeOK
  <2> QED BY <1>1, <1>2, <2>1, <2>2, <2>3 DEF SourceIInv, SourceInvariant, SourceTypeOK, NoRefetch
<1> QED BY <1>3, <1>4

LEMMA FetchEventsStep ==
  ASSUME SourceIInv, NEW i, NEW ok \in BOOLEAN, FetchEvents(i, ok)
  PROVE  SourceIInv'
<1>1. cooling' \in [0 .. Tokens - 1 -> Nat] /\ turn' \in 0 .. Tokens - 1
  BY AskedIs DEF FetchEvents
<1>2. events' \subseteq Shas
  BY DEF FetchEvents
<1>3. eventsAge' \in 0 .. EventsTtl
  BY SourceParameters DEF FetchEvents
<1>4. look' = "choose" /\ UNCHANGED <<buffer, searchCooling, rejected, attempt, pick, trouble>>
  BY DEF FetchEvents
<1> QED BY <1>1, <1>2, <1>3, <1>4 DEF SourceIInv, SourceInvariant, SourceTypeOK, NoRefetch

LEMMA PickEventStep ==
  ASSUME SourceIInv, PickEvent
  PROVE  SourceIInv'
<1>1. SourceTypeOK
  BY DEF SourceIInv, SourceInvariant
<1>2. UNCHANGED <<cooling, turn, buffer, searchCooling, events, eventsAge, rejected>>
  BY DEF PickEvent
<1>3. CASE Counted(TRUE) /\ trouble' = TRUE /\ UNCHANGED pick
  BY <1>1, <1>2, <1>3, CountedIs DEF SourceIInv, SourceInvariant, SourceTypeOK, NoRefetch
<1>4. CASE \E c \in events : Acceptable(c) /\ pick' = c /\ look' = "fetch" /\ UNCHANGED <<attempt, trouble>>
  BY <1>1, <1>2, <1>4 DEF SourceIInv, SourceInvariant, SourceTypeOK, NoRefetch, Acceptable
<1>5. CASE Counted(FALSE) /\ UNCHANGED <<pick, trouble>>
  BY <1>1, <1>2, <1>5, CountedIs DEF SourceIInv, SourceInvariant, SourceTypeOK, NoRefetch
<1> QED BY <1>3, <1>4, <1>5 DEF PickEvent

\* The reject cache keeps to its limit.
LEMMA RejectedIs ==
  ASSUME NEW c \in Shas, rejected \subseteq Shas, Cardinality(rejected) <= RejectLimit, Rejected(c)
  PROVE  rejected' \subseteq Shas /\ Cardinality(rejected') <= RejectLimit
<1>1. IsFiniteSet(rejected) /\ Cardinality(rejected) \in Nat
  BY ShaSets
<1>2. CASE Cardinality(rejected) >= RejectLimit
  <2>1. rejected' = {c}
    BY <1>2 DEF Rejected
  <2>2. Cardinality({c}) = 1
    BY FS_Singleton
  <2> QED BY <2>1, <2>2, SourceParameters
<1>3. CASE ~(Cardinality(rejected) >= RejectLimit)
  <2>1. rejected' = rejected \cup {c}
    BY <1>3 DEF Rejected
  <2>2. Cardinality(rejected \cup {c}) <= Cardinality(rejected) + 1 /\ Cardinality(rejected \cup {c}) \in Nat
    <3>1. /\ IsFiniteSet(rejected \cup {c})
          /\ Cardinality(rejected \cup {c}) = IF c \in rejected THEN Cardinality(rejected) ELSE Cardinality(rejected) + 1
      BY <1>1, FS_AddElement
    <3>2. CASE c \in rejected
      BY <1>1, <3>1, <3>2
    <3>3. CASE c \notin rejected
      BY <1>1, <3>1, <3>3
    <3> QED BY <3>2, <3>3
  <2> QED BY <1>1, <1>3, <2>1, <2>2, SourceParameters
<1> QED BY <1>2, <1>3

LEMMA FetchCommitStep ==
  ASSUME SourceIInv, NEW i, NEW ok \in BOOLEAN, FetchCommit(i, ok)
  PROVE  SourceIInv'
<1>1. cooling' \in [0 .. Tokens - 1 -> Nat] /\ turn' \in 0 .. Tokens - 1
  BY AskedIs DEF FetchCommit
<1>2. SourceTypeOK /\ pick \in Shas
  BY DEF SourceIInv, SourceInvariant, FetchCommit
<1>3. UNCHANGED <<buffer, searchCooling, events, eventsAge>> /\ pick' = NoSha /\ trouble' \in BOOLEAN
  BY <1>2 DEF FetchCommit, SourceTypeOK
<1>4. /\ rejected' \subseteq Shas /\ Cardinality(rejected') <= RejectLimit
      /\ attempt' \in 0 .. MaxAttempts /\ look' \in {"idle", "refill"}
  <2>1. CASE ok /\ Passes(pick)
    BY <1>2, <2>1, SourceParameters DEF FetchCommit, SourceTypeOK
  <2>2. CASE ~(ok /\ Passes(pick))
    <3>1. Rejected(pick) /\ Counted(FALSE)
      BY <2>2 DEF FetchCommit
    <3>2. rejected' \subseteq Shas /\ Cardinality(rejected') <= RejectLimit
      BY <1>2, <3>1, RejectedIs DEF SourceTypeOK
    <3> QED BY <3>1, <3>2, CountedIs
  <2> QED BY <2>1, <2>2
<1> QED BY <1>1, <1>2, <1>3, <1>4 DEF SourceIInv, SourceInvariant, SourceTypeOK, NoRefetch

LEMMA SecondPassesStep ==
  ASSUME SourceIInv, SecondPasses
  PROVE  SourceIInv'
<1>1. SourceTypeOK
  BY DEF SourceIInv, SourceInvariant
<1>2. \A n \in Nat : Less(n) \in Nat /\ Less(n) <= n
  BY DEF Less
<1>3. cooling' \in [0 .. Tokens - 1 -> Nat]
  BY <1>1, <1>2 DEF SecondPasses, SourceTypeOK
<1>4. searchCooling' \in 0 .. SearchCooldown /\ eventsAge' \in 0 .. EventsTtl
  <2>1. searchCooling \in Nat /\ searchCooling <= SearchCooldown /\ eventsAge \in 0 .. EventsTtl
    BY <1>1, SourceParameters DEF SourceTypeOK
  <2>2. searchCooling' = Less(searchCooling)
    BY DEF SecondPasses
  <2>3. Less(searchCooling) \in Nat /\ Less(searchCooling) <= searchCooling
    BY <1>2, <2>1
  <2>4. searchCooling' \in 0 .. SearchCooldown
    BY <2>1, <2>2, <2>3, SourceParameters
  <2>5. eventsAge' = IF eventsAge < EventsTtl THEN eventsAge + 1 ELSE eventsAge
    BY DEF SecondPasses
  <2>6. eventsAge' \in 0 .. EventsTtl
    BY <2>1, <2>5, SourceParameters
  <2> QED BY <2>4, <2>6
<1>5. UNCHANGED <<turn, buffer, events, rejected, attempt, look, pick, trouble>>
  BY DEF SecondPasses
<1> QED BY <1>1, <1>3, <1>4, <1>5 DEF SourceIInv, SourceInvariant, SourceTypeOK, NoRefetch

LEMMA SourceSteps == SourceIInv /\ [SourceNext]_sourceVars => SourceIInv'
<1> SUFFICES ASSUME SourceIInv, [SourceNext]_sourceVars PROVE SourceIInv'
  OBVIOUS
<1>1. CASE Sample
  <2>1. attempt' \in 0 .. MaxAttempts
    BY <1>1, SourceParameters DEF Sample
  <2> QED BY <1>1, <2>1 DEF Sample, SourceIInv, SourceInvariant, SourceTypeOK, NoRefetch
<1>2. CASE NoSearch \/ CachedEvents
  BY <1>2 DEF NoSearch, CachedEvents, SourceIInv, SourceInvariant, SourceTypeOK, NoRefetch
<1>3. CASE \E i \in Turns, ok \in BOOLEAN : Search(i, ok) \/ FetchEvents(i, ok) \/ FetchCommit(i, ok)
  BY <1>3, SearchStep, FetchEventsStep, FetchCommitStep
<1>4. CASE UNCHANGED sourceVars
  BY <1>4 DEF sourceVars, SourceIInv, SourceInvariant, SourceTypeOK, NoRefetch
<1> QED BY <1>1, <1>2, <1>3, <1>4, PopStep, PickEventStep, SecondPassesStep DEF SourceNext, Sampler

\* A commit known as rejected is not fetched again, and the buffer, the reject cache and
\* the attempts keep to their limits, for any limits and any number of tokens
\* (GitHubCommitSampler, GitHubTokenRotator).
THEOREM SourceIsSound == SourceSpec => []SourceInvariant
<1>1. SourceIInv => SourceInvariant
  BY DEF SourceIInv
<1> QED BY <1>1, SourceStarts, SourceSteps, PTL DEF SourceSpec

-----------------------------------------------------------------------------
(* From the chain to the queue *)

Neuron == [pair : Pairs, since : 1 .. MaxBlock]
Neurons == [Uids -> Neuron]
Rows == [uid : Uids, block : 1 .. MaxBlock, pair : Pairs]

\* A neuron of a later block has the earlier one's registration or was registered after it.
ChainInv ==
  /\ Tip \in 1 .. MaxBlock
  /\ \A b \in 1 .. Tip, u \in Uids : chain[b][u].since <= b
  /\ \A a, b \in 1 .. Tip, u \in Uids : a <= b => chain[b][u].since = chain[a][u].since \/ chain[b][u].since > a

\* A uid has one row for a block.
KeysInv == \A q, r \in history : q.uid = r.uid /\ q.block = r.block => q = r

\* Snapshot i had the pair of row r, registered where the row says or earlier.
Saw(r, i) ==
  /\ chain[published[i]][r.uid].pair = r.pair
  /\ chain[published[i]][r.uid].since <= r.block /\ r.block <= published[i]

\* From snapshot i on uid u has pair p or at least the registration it had in i.
Stood(u, p, i) ==
  \A j \in i .. Len(published) :
    chain[published[j]][u].pair = p \/ chain[published[j]][u].since = chain[published[i]][u].since

\* Every row was seen, and the latest one of a uid stood in every snapshot since.
Seen(r) == \E i \in DOMAIN published : Saw(r, i)
Standing(r) == \E i \in DOMAIN published : Saw(r, i) /\ Stood(r.uid, r.pair, i)

LogInv ==
  /\ \A r \in history : Seen(r)
  /\ \A r \in history : r \in Latest(r.uid) => Standing(r)

\* Rows that follow one another differ, the latest ones and all of a uid without a swap.
Follows(q, r) ==
  /\ q \in Latest(r.uid) \/ ~EverSwapped(r.uid)
  /\ q.block > r.block
  /\ \A o \in RowsOf(r.uid) : o.block <= r.block \/ o.block >= q.block
ChangesInv == \A r \in history : \A q \in RowsOf(r.uid) : Follows(q, r) => q.pair # r.pair

IntakeIInv == IntakeTypeOK /\ ChainInv /\ KeysInv /\ LogInv /\ ChangesInv

LEMMA IntakeTypes ==
  ASSUME IntakeTypeOK
  PROVE  /\ \A b \in 1 .. Tip : chain[b] \in Neurons
         /\ \A b \in 1 .. Tip, u \in Uids : chain[b][u].pair \in Pairs /\ chain[b][u].since \in 1 .. MaxBlock
         /\ Tip \in Nat /\ Len(published) \in Nat /\ DOMAIN published = 1 .. Len(published)
         /\ \A i \in 1 .. Len(published) : published[i] \in 1 .. Tip
         /\ \A r \in history : r.uid \in Uids /\ r.block \in 1 .. MaxBlock /\ r.pair \in Pairs
<1>1. chain \in Seq(Neurons)
  BY DEF IntakeTypeOK, Neurons, Neuron
<1>2. Tip \in Nat /\ \A b \in 1 .. Tip : chain[b] \in Neurons
  BY <1>1 DEF Tip
<1>3. \A b \in 1 .. Tip, u \in Uids : chain[b][u].pair \in Pairs /\ chain[b][u].since \in 1 .. MaxBlock
  BY <1>2 DEF Neurons, Neuron
<1>4. Len(published) \in Nat /\ DOMAIN published = 1 .. Len(published) /\ \A i \in 1 .. Len(published) : published[i] \in 1 .. Tip
  <2>1. PICK E : E = 1 .. Tip
    OBVIOUS
  <2>2. published \in Seq(E)
    BY <2>1 DEF IntakeTypeOK
  <2>3. Len(published) \in Nat /\ DOMAIN published = 1 .. Len(published) /\ \A i \in 1 .. Len(published) : published[i] \in E
    BY <2>2
  <2> QED BY <2>1, <2>3
<1>5. \A r \in history : r.uid \in Uids /\ r.block \in 1 .. MaxBlock /\ r.pair \in Pairs
  BY DEF IntakeTypeOK
<1> QED BY <1>2, <1>3, <1>4, <1>5

LEMMA LongerSequences ==
  ASSUME NEW E, NEW F, E \subseteq F, NEW s \in Seq(E)
  PROVE  s \in Seq(F)
<1>1. Len(s) \in Nat /\ s \in [1 .. Len(s) -> E]
  OBVIOUS
<1>2. s \in [1 .. Len(s) -> F]
  BY <1>1
<1> QED BY <1>1, <1>2

LEMMA LogIsALog ==
  ASSUME IntakeIInv
  PROVE  HistoryIsALog
<1> SUFFICES ASSUME NEW r \in history
             PROVE  /\ \E i \in DOMAIN published :
                         LET seen == chain[published[i]][r.uid]
                         IN seen.pair = r.pair /\ r.block \in seen.since .. published[i]
                    /\ \A q \in RowsOf(r.uid) : Follows(q, r) => q.pair # r.pair
  BY DEF HistoryIsALog, Follows
<1>1. IntakeTypeOK
  BY DEF IntakeIInv
<1>2. PICK i \in DOMAIN published : Saw(r, i)
  BY DEF IntakeIInv, LogInv, Seen
<1>3. PICK seen : seen = chain[published[i]][r.uid]
  OBVIOUS
<1>4. seen.since \in Nat /\ published[i] \in Nat /\ r.block \in Nat
  BY <1>1, <1>2, <1>3, IntakeTypes
<1>5. seen.pair = r.pair /\ r.block \in seen.since .. published[i]
  BY <1>2, <1>3, <1>4 DEF Saw
<1>6. \A q \in RowsOf(r.uid) : Follows(q, r) => q.pair # r.pair
  BY DEF IntakeIInv, ChangesInv
<1> QED BY <1>2, <1>3, <1>5, <1>6

\* A uid with rows has a latest one.
LEMMA LatestExists ==
  ASSUME IntakeTypeOK, NEW u \in Uids, NEW o \in RowsOf(u)
  PROVE  \E r \in Latest(u) : o.block <= r.block
<1>1. \A q \in RowsOf(u) : q.block \in 1 .. MaxBlock
  BY IntakeTypes DEF RowsOf
<1>2. MaxBlock \in Nat
  BY IntakeAssumption
<1>3. PICK S : S = {MaxBlock - q.block : q \in RowsOf(u)}
  OBVIOUS
<1>4. S \subseteq Nat /\ MaxBlock - o.block \in S
  BY <1>1, <1>2, <1>3
<1>5. PICK m \in S : \A n \in S : m <= n
  BY <1>4, LeastNatural
<1>6. PICK r \in RowsOf(u) : m = MaxBlock - r.block
  BY <1>3, <1>5
<1>7. \A q \in RowsOf(u) : q.block <= r.block
  <2> SUFFICES ASSUME NEW q \in RowsOf(u) PROVE q.block <= r.block
    OBVIOUS
  <2>1. m <= MaxBlock - q.block
    BY <1>3, <1>5
  <2>2. q.block \in Nat /\ r.block \in Nat
    BY <1>1
  <2> QED BY <1>2, <1>6, <2>1, <2>2
<1> QED BY <1>7 DEF Latest

LEMMA IntakeStarts == IntakeInit => IntakeIInv
<1> SUFFICES ASSUME IntakeInit PROVE IntakeIInv
  OBVIOUS
<1>1. PICK on \in [Uids -> Pairs] : chain = <<[u \in Uids |-> [pair |-> on[u], since |-> 1]]>>
  BY DEF IntakeInit
<1>2. PICK first : first = [u \in Uids |-> [pair |-> on[u], since |-> 1]]
  OBVIOUS
<1>3. MaxBlock \in Nat /\ MaxBlock >= 1 /\ 1 \in 1 .. MaxBlock
  BY IntakeAssumption
<1>4. first \in Neurons
  BY <1>1, <1>2, <1>3 DEF Neurons, Neuron
<1>5. chain = <<first>> /\ chain \in Seq(Neurons) /\ Tip = 1 /\ chain[1] = first
  BY <1>1, <1>2, <1>4 DEF Tip
<1>6. IntakeTypeOK
  <2>1. history = {} /\ lastBlock = 0 /\ published = <<>> /\ unreadable = {} /\ taken = {} /\ candidate = NoBundle
    BY DEF IntakeInit
  <2>2. committed \in [Bundles -> 0 .. MaxBlock]
    BY <1>3 DEF IntakeInit
  <2>3. status \in [Bundles -> {"absent", "unverified"} \cup Decisions]
    BY DEF IntakeInit
  <2>4. lastBlock \in 0 .. Tip /\ published \in Seq(1 .. Tip)
    BY <1>5, <2>1
  <2> QED BY <1>5, <2>1, <2>2, <2>3, <2>4 DEF IntakeTypeOK, Neurons, Neuron
<1>7. ChainInv
  <2>1. \A u \in Uids : first[u].since = 1
    BY <1>2
  <2>2. \A b \in 1 .. Tip : b = 1
    BY <1>5
  <2>3. \A b \in 1 .. Tip, u \in Uids : chain[b][u].since <= b
    BY <1>5, <2>1, <2>2
  <2>4. \A a, b \in 1 .. Tip, u \in Uids : chain[b][u] = chain[a][u]
    BY <2>2
  <2> QED BY <1>3, <1>5, <2>3, <2>4 DEF ChainInv
<1>8. KeysInv /\ LogInv /\ ChangesInv
  BY DEF IntakeInit, KeysInv, LogInv, ChangesInv
<1> QED BY <1>6, <1>7, <1>8 DEF IntakeIInv

-----------------------------------------------------------------------------
\* The tables do not move: what was said of them stands.
LEMMA TablesStand ==
  ASSUME UNCHANGED <<history, published>>, IntakeTypeOK, Tip' \in Nat, Tip <= Tip',
         \A b \in 1 .. Tip : chain'[b] = chain[b], KeysInv, LogInv, ChangesInv
  PROVE  KeysInv' /\ LogInv' /\ ChangesInv'
<1>1. \A r : \A i \in DOMAIN published : Saw(r, i) <=> Saw(r, i)'
  BY IntakeTypes DEF Saw
<1>2. \A r : \A i \in DOMAIN published : chain'[published[i]][r.uid] = chain[published[i]][r.uid]
  BY IntakeTypes
<1>3. \A r : Seen(r) => Seen(r)'
  BY <1>1 DEF Seen
<1>4. \A r : Standing(r) => Standing(r)'
  <2> SUFFICES ASSUME NEW r, Standing(r) PROVE Standing(r)'
    OBVIOUS
  <2>1. PICK i \in DOMAIN published : Saw(r, i) /\ Stood(r.uid, r.pair, i)
    BY DEF Standing
  <2>2. \A j \in i .. Len(published) : j \in DOMAIN published
    BY <2>1, IntakeTypes
  <2>3. Stood(r.uid, r.pair, i)'
    BY <1>2, <2>1, <2>2 DEF Stood
  <2>4. Saw(r, i)'
    BY <1>1, <2>1
  <2> QED BY <2>1, <2>3, <2>4 DEF Standing
<1>5. \A u : Latest(u)' = Latest(u) /\ RowsOf(u)' = RowsOf(u)
  BY DEF Latest, RowsOf
<1>6. LogInv'
  BY <1>3, <1>4, <1>5 DEF LogInv
<1>7. KeysInv'
  BY DEF KeysInv
<1>8. \A u \in Uids : EverSwapped(u) => EverSwapped(u)'
  <2> SUFFICES ASSUME NEW u \in Uids, EverSwapped(u) PROVE EverSwapped(u)'
    OBVIOUS
  <2>1. PICK b \in 1 .. Tip : Swapped(u, b)
    BY DEF EverSwapped
  <2>2. PICK c \in chain[b][u].since .. b : chain[c][u].pair # chain[b][u].pair
    BY <2>1 DEF Swapped
  <2>3. c \in 1 .. Tip
    BY <2>1, <2>2, IntakeTypes
  <2>4. c \in chain'[b][u].since .. b /\ chain'[c][u].pair # chain'[b][u].pair
    BY <2>1, <2>2, <2>3
  <2>5. Swapped(u, b)'
    BY <2>4 DEF Swapped
  <2>6. b \in 1 .. Tip'
    BY <2>1, IntakeTypes
  <2> QED BY <2>5, <2>6 DEF EverSwapped
<1>9. ChangesInv'
  <2> SUFFICES ASSUME NEW r \in history', NEW q \in RowsOf(r.uid)', Follows(q, r)' PROVE q.pair # r.pair
    BY DEF ChangesInv
  <2>1. r \in history /\ r.uid \in Uids /\ q \in RowsOf(r.uid)
    BY <1>5, IntakeTypes
  <2>2. Follows(q, r)
    BY <1>5, <1>8, <2>1 DEF Follows
  <2> QED BY <2>1, <2>2 DEF ChangesInv
<1> QED BY <1>6, <1>7, <1>9

LEMMA NextBlockStep ==
  ASSUME IntakeIInv, NextBlock
  PROVE  IntakeIInv'
<1>1. IntakeTypeOK /\ ChainInv
  BY DEF IntakeIInv
<1>2. Tip \in Nat /\ Tip >= 1 /\ Tip < MaxBlock /\ MaxBlock \in Nat /\ chain \in Seq(Neurons) /\ chain[Tip] \in Neurons
  BY <1>1, IntakeTypes, IntakeAssumption DEF ChainInv, NextBlock, IntakeTypeOK, Neurons, Neuron
<1>3. PICK next \in Neurons :
        /\ chain' = Append(chain, next)
        /\ \A u \in Uids : next[u].since = chain[Tip][u].since \/ next[u].since = Tip + 1
  <2>1. PICK on \in [Uids -> Pairs], anew \in SUBSET Uids :
          chain' = Append(chain, [u \in Uids |->
            [pair |-> on[u], since |-> IF u \in anew THEN Tip + 1 ELSE chain[Tip][u].since]])
    BY DEF NextBlock
  <2>2. PICK next : next = [u \in Uids |->
            [pair |-> on[u], since |-> IF u \in anew THEN Tip + 1 ELSE chain[Tip][u].since]]
    OBVIOUS
  <2>3. \A u \in Uids : on[u] \in Pairs /\ chain[Tip][u].since \in 1 .. MaxBlock /\ Tip + 1 \in 1 .. MaxBlock
    BY <1>2, <2>1 DEF Neurons, Neuron
  <2>4. next \in Neurons
    BY <2>2, <2>3 DEF Neurons, Neuron
  <2>5. \A u \in Uids : next[u].since = chain[Tip][u].since \/ next[u].since = Tip + 1
    BY <2>2
  <2>6. chain' = Append(chain, next)
    BY <2>1, <2>2
  <2> QED BY <2>4, <2>5, <2>6
<1>4. /\ Tip' = Tip + 1 /\ chain'[Tip + 1] = next /\ chain' \in Seq(Neurons)
      /\ \A b \in 1 .. Tip : chain'[b] = chain[b]
  BY <1>2, <1>3 DEF Tip
<1>5. UNCHANGED <<history, lastBlock, published, committed, status, unreadable, taken, candidate>>
  BY DEF NextBlock, watcherVars, submissionVars
<1>6. IntakeTypeOK'
  <2>1. published \in Seq(1 .. Tip) /\ lastBlock \in 0 .. Tip
    BY <1>1 DEF IntakeTypeOK
  <2>2. 1 .. Tip \subseteq 1 .. Tip'
    BY <1>2, <1>4
  <2>3. published \in Seq(1 .. Tip')
    BY <2>1, <2>2, LongerSequences
  <2>4. lastBlock \in 0 .. Tip'
    BY <1>2, <1>4, <2>1
  <2> QED BY <1>1, <1>4, <1>5, <2>3, <2>4 DEF IntakeTypeOK, Neurons, Neuron
<1>7. ChainInv'
  <2>1. \A b \in 1 .. Tip + 1 : b \in 1 .. Tip \/ b = Tip + 1
    BY <1>2
  <2>2. \A b \in 1 .. Tip, u \in Uids : chain[b][u].since <= b
    BY <1>1 DEF ChainInv
  <2>3. \A a, b \in 1 .. Tip, u \in Uids : a <= b => chain[b][u].since = chain[a][u].since \/ chain[b][u].since > a
    BY <1>1 DEF ChainInv
  <2>4. \A b \in 1 .. Tip + 1, u \in Uids : chain'[b][u].since <= b
    <3> SUFFICES ASSUME NEW b \in 1 .. Tip + 1, NEW u \in Uids PROVE chain'[b][u].since <= b
      OBVIOUS
    <3>1. CASE b \in 1 .. Tip
      BY <1>4, <2>2, <3>1
    <3>2. CASE b = Tip + 1
      <4>1. chain'[b][u] = next[u]
        BY <1>4, <3>2
      <4>2. chain[Tip][u].since <= Tip /\ chain[Tip][u].since \in Nat
        BY <1>1, <1>2, <2>2, IntakeTypes
      <4> QED BY <1>2, <1>3, <3>2, <4>1, <4>2
    <3> QED BY <2>1, <3>1, <3>2
  <2>5. \A a, b \in 1 .. Tip + 1, u \in Uids : a <= b => chain'[b][u].since = chain'[a][u].since \/ chain'[b][u].since > a
    <3> SUFFICES ASSUME NEW a \in 1 .. Tip + 1, NEW b \in 1 .. Tip + 1, NEW u \in Uids, a <= b
                 PROVE  chain'[b][u].since = chain'[a][u].since \/ chain'[b][u].since > a
      OBVIOUS
    <3>1. CASE b \in 1 .. Tip
      <4>1. a \in 1 .. Tip
        BY <1>2, <3>1
      <4> QED BY <1>4, <2>3, <3>1, <4>1
    <3>2. CASE b = Tip + 1 /\ a = Tip + 1
      BY <3>2
    <3>3. CASE b = Tip + 1 /\ a \in 1 .. Tip
      <4>1. chain'[b][u] = next[u] /\ chain'[a][u] = chain[a][u]
        BY <1>4, <3>3
      <4>2. chain[Tip][u].since = chain[a][u].since \/ chain[Tip][u].since > a
        BY <1>2, <2>3, <3>3
      <4>3. CASE next[u].since = chain[Tip][u].since
        BY <4>1, <4>2, <4>3
      <4>4. CASE next[u].since = Tip + 1
        BY <1>2, <3>3, <4>1, <4>4
      <4> QED BY <1>3, <4>3, <4>4
    <3> QED BY <2>1, <3>1, <3>2, <3>3
  <2>6. Tip + 1 \in 1 .. MaxBlock
    BY <1>2
  <2> QED BY <1>4, <2>4, <2>5, <2>6 DEF ChainInv
<1>8. KeysInv' /\ LogInv' /\ ChangesInv'
  BY <1>1, <1>2, <1>4, <1>5, TablesStand DEF IntakeIInv
<1> QED BY <1>6, <1>7, <1>8 DEF IntakeIInv

-----------------------------------------------------------------------------
\* A poll.

\* A pair that is not recorded has the registration of a swap, or is later than all
\* rows of its uid.
LEMMA RowsAreLater ==
  ASSUME IntakeIInv, NEW u \in Changed(Tip), NEW o \in RowsOf(u), ~EverSwapped(u)
  PROVE  o.block < chain[Tip][u].since
<1>1. IntakeTypeOK /\ ChainInv /\ LogInv /\ u \in Uids
  BY DEF IntakeIInv, Changed
<1>2. PICK r \in Latest(u) : o.block <= r.block
  BY <1>1, LatestExists
<1>3. r \in history /\ r.uid = u /\ r.pair # chain[Tip][u].pair /\ o \in history
  BY <1>2 DEF Latest, RowsOf, Changed
<1>4. PICK i \in DOMAIN published : Saw(r, i)
  BY <1>1, <1>3 DEF LogInv, Seen
<1>5. published[i] \in 1 .. Tip /\ Tip \in 1 .. Tip /\ published[i] <= Tip
  BY <1>1, <1>4, IntakeTypes DEF ChainInv
<1>6. chain[published[i]][u].since <= published[i] /\ chain[published[i]][u].since \in Nat
  BY <1>1, <1>5, IntakeTypes DEF ChainInv
<1>7. chain[Tip][u].since > published[i]
  <2> SUFFICES ASSUME chain[Tip][u].since = chain[published[i]][u].since PROVE FALSE
    BY <1>1, <1>5 DEF ChainInv
  <2>1. published[i] \in chain[Tip][u].since .. Tip
    BY <1>5, <1>6
  <2>2. chain[published[i]][u].pair # chain[Tip][u].pair
    BY <1>3, <1>4 DEF Saw
  <2>3. Swapped(u, Tip)
    BY <2>1, <2>2 DEF Swapped
  <2> QED BY <1>5, <2>3 DEF EverSwapped
<1>8. r.block <= published[i]
  BY <1>4 DEF Saw
<1>9. r.block \in Nat /\ o.block \in Nat /\ chain[Tip][u].since \in Nat /\ published[i] \in Nat
  BY <1>1, <1>3, <1>5, IntakeTypes
<1> QED BY <1>2, <1>7, <1>8, <1>9

\* What a poll writes: for each changed pair one row, where the registration was or was seen.
RowOf(u, complete) == Row(u, IF complete THEN chain[Tip][u].since ELSE Tip, chain[Tip][u].pair)

LEMMA RowOfIs ==
  ASSUME IntakeIInv, NEW u \in Uids, NEW complete \in BOOLEAN
  PROVE  /\ RowOf(u, complete) \in Rows
         /\ RowOf(u, complete).uid = u /\ RowOf(u, complete).pair = chain[Tip][u].pair
         /\ RowOf(u, complete).block \in chain[Tip][u].since .. Tip
<1>1. /\ chain[Tip][u].since \in 1 .. MaxBlock /\ chain[Tip][u].pair \in Pairs /\ chain[Tip][u].since <= Tip
      /\ Tip \in 1 .. MaxBlock
  BY IntakeTypes DEF IntakeIInv, ChainInv
<1>2. PICK b : b = IF complete THEN chain[Tip][u].since ELSE Tip
  OBVIOUS
<1>3. b \in 1 .. MaxBlock /\ b \in chain[Tip][u].since .. Tip
  BY <1>1, <1>2, IntakeAssumption
<1>4. RowOf(u, complete) = [uid |-> u, block |-> b, pair |-> chain[Tip][u].pair]
  BY <1>2 DEF RowOf, Row
<1> QED BY <1>1, <1>3, <1>4 DEF Rows

\* The rows of a uid after a poll: those before, and the row of a changed pair unless
\* its block has one.
LEMMA RowsAfter ==
  ASSUME IntakeIInv, NEW complete \in BOOLEAN, history' = Inserted(ChangedRows(Tip, complete)), NEW u \in Uids
  PROVE  /\ RowsOf(u) \subseteq RowsOf(u)'
         /\ \A r \in RowsOf(u)' : r \in RowsOf(u) \/ (u \in Changed(Tip) /\ r = RowOf(u, complete))
         /\ \A r \in RowsOf(u)' \ RowsOf(u) : \A o \in RowsOf(u) : o.block # r.block
         /\ u \in Changed(Tip) => \E r \in RowsOf(u)' : r.block = RowOf(u, complete).block
<1>1. ChangedRows(Tip, complete) = {RowOf(v, complete) : v \in Changed(Tip)}
  BY DEF ChangedRows, RowOf
<1>2. Changed(Tip) \subseteq Uids
  BY DEF Changed
<1>3. \A v \in Changed(Tip) : RowOf(v, complete).uid = v
  BY <1>2, RowOfIs
<1>4. RowsOf(u)' = {r \in history' : r.uid = u} /\ RowsOf(u) = {r \in history : r.uid = u}
  BY DEF RowsOf
<1>5. \A r : r \in history' <=>
        \/ r \in history
        \/ /\ \E v \in Changed(Tip) : r = RowOf(v, complete)
           /\ \A q \in history : <<q.uid, q.block>> # <<r.uid, r.block>>
  BY <1>1 DEF Inserted
<1>6. RowsOf(u) \subseteq RowsOf(u)'
  BY <1>4, <1>5
<1>7. \A r \in RowsOf(u)' : r \in RowsOf(u) \/ (u \in Changed(Tip) /\ r = RowOf(u, complete))
  BY <1>3, <1>4, <1>5
<1>8. \A r \in RowsOf(u)' \ RowsOf(u) : \A o \in RowsOf(u) : o.block # r.block
  BY <1>4, <1>5
<1>9. u \in Changed(Tip) => \E r \in RowsOf(u)' : r.block = RowOf(u, complete).block
  BY <1>3, <1>4, <1>5
<1> QED BY <1>6, <1>7, <1>8, <1>9

\* The snapshots in the database after a poll: those before, and the tip's at the end.
LEMMA PublishedAfter ==
  ASSUME IntakeTypeOK, ChainInv, Poll
  PROVE  /\ published' \in Seq(1 .. Tip) /\ Len(published') \in DOMAIN published' /\ published'[Len(published')] = Tip
         /\ Len(published') \in Nat /\ DOMAIN published' = 1 .. Len(published')
         /\ DOMAIN published \subseteq DOMAIN published'
         /\ \A i \in DOMAIN published : published'[i] = published[i]
         /\ \A i \in DOMAIN published' : i \in DOMAIN published \/ published'[i] = Tip
<1>1. PICK E : E = 1 .. Tip
  OBVIOUS
<1>2. published \in Seq(E) /\ Tip \in E
  BY <1>1, IntakeTypes DEF IntakeTypeOK, ChainInv
<1>3. CASE published # <<>> /\ published[Len(published)] = Tip
  <2>1. published' = published
    BY <1>3 DEF Poll
  <2> QED BY <1>1, <1>2, <1>3, <2>1
<1>4. CASE ~(published # <<>> /\ published[Len(published)] = Tip)
  <2>1. published' = Append(published, Tip)
    BY <1>4 DEF Poll
  <2> QED BY <1>1, <1>2, <2>1
<1> QED BY <1>3, <1>4

LEMMA PollStep ==
  ASSUME IntakeIInv, Poll
  PROVE  IntakeIInv'
<1>1. IntakeTypeOK /\ ChainInv /\ KeysInv /\ LogInv /\ ChangesInv
  BY DEF IntakeIInv
<1>2. PICK complete \in BOOLEAN : history' = Inserted(ChangedRows(Tip, complete))
  BY DEF Poll
<1>3. UNCHANGED <<chain, committed, status, unreadable, taken, candidate>> /\ lastBlock' = Tip
  BY DEF Poll, submissionVars
<1>4. /\ published' \in Seq(1 .. Tip) /\ Len(published') \in DOMAIN published' /\ published'[Len(published')] = Tip
      /\ Len(published') \in Nat /\ DOMAIN published' = 1 .. Len(published')
      /\ DOMAIN published \subseteq DOMAIN published'
      /\ \A i \in DOMAIN published : published'[i] = published[i]
      /\ \A i \in DOMAIN published' : i \in DOMAIN published \/ published'[i] = Tip
  BY <1>1, PublishedAfter
<1>5. \A u \in Uids :
        /\ RowsOf(u) \subseteq RowsOf(u)'
        /\ \A r \in RowsOf(u)' : r \in RowsOf(u) \/ (u \in Changed(Tip) /\ r = RowOf(u, complete))
        /\ \A r \in RowsOf(u)' \ RowsOf(u) : \A o \in RowsOf(u) : o.block # r.block
        /\ u \in Changed(Tip) => \E r \in RowsOf(u)' : r.block = RowOf(u, complete).block
  BY <1>2, RowsAfter
<1>6. \A u \in Uids : /\ RowOf(u, complete) \in Rows
                      /\ RowOf(u, complete).uid = u /\ RowOf(u, complete).pair = chain[Tip][u].pair
                      /\ RowOf(u, complete).block \in chain[Tip][u].since .. Tip
  BY RowOfIs
<1>7. Changed(Tip) \subseteq Uids
  BY DEF Changed
<1>8. history' \subseteq Rows
  <2>1. ChangedRows(Tip, complete) \subseteq Rows
    BY <1>6, <1>7 DEF ChangedRows, RowOf
  <2> QED BY <1>1, <1>2, <2>1 DEF Inserted, IntakeTypeOK, Rows
<1>9. \A r \in history' : r.uid \in Uids /\ r \in RowsOf(r.uid)' /\ r.block \in Nat
  BY <1>8 DEF RowsOf, Rows
<1>10. IntakeTypeOK'
  <2>1. Tip' = Tip /\ Tip \in 0 .. Tip
    BY <1>1, <1>3 DEF Tip, ChainInv
  <2> QED BY <1>1, <1>3, <1>4, <1>8, <2>1 DEF IntakeTypeOK, Rows
<1>11. ChainInv'
  BY <1>1, <1>3 DEF ChainInv, Tip
<1>12. \A u \in Uids : \A r \in RowsOf(u) : r \in Latest(u)' => r \in Latest(u)
  BY <1>5 DEF Latest
<1>13. \A u \in Changed(Tip) : \A r \in Latest(u)' : chain[Tip][u].since <= r.block
  <2> SUFFICES ASSUME NEW u \in Changed(Tip), NEW r \in Latest(u)' PROVE chain[Tip][u].since <= r.block
    OBVIOUS
  <2>1. PICK q \in RowsOf(u)' : q.block = RowOf(u, complete).block
    BY <1>5, <1>7
  <2>2. q.block <= r.block /\ r \in history' /\ q \in history'
    BY <2>1 DEF Latest, RowsOf
  <2>3. q.block \in chain[Tip][u].since .. Tip
    BY <1>6, <1>7, <2>1
  <2>4. chain[Tip][u].since \in Nat /\ Tip \in Nat /\ r.block \in Nat /\ q.block \in Nat
    BY <1>1, <1>7, <1>9, <2>2, IntakeTypes DEF ChainInv
  <2> QED BY <2>2, <2>3, <2>4
<1>14. KeysInv'
  <2> SUFFICES ASSUME NEW q \in history', NEW r \in history', q.uid = r.uid, q.block = r.block PROVE q = r
    BY DEF KeysInv
  <2>1. PICK u \in Uids : u = r.uid /\ q \in RowsOf(u)' /\ r \in RowsOf(u)'
    BY <1>9
  <2>2. CASE q \in RowsOf(u) /\ r \in RowsOf(u)
    BY <1>1, <2>2 DEF RowsOf, KeysInv
  <2>3. CASE q \in RowsOf(u) /\ r \notin RowsOf(u)
    BY <1>5, <2>1, <2>3
  <2>4. CASE q \notin RowsOf(u) /\ r \in RowsOf(u)
    BY <1>5, <2>1, <2>4
  <2>5. CASE q \notin RowsOf(u) /\ r \notin RowsOf(u)
    BY <1>5, <2>1, <2>5
  <2> QED BY <2>2, <2>3, <2>4, <2>5
<1>15. \A r \in history : \A i \in DOMAIN published : Saw(r, i) => Saw(r, i)'
  BY <1>3, <1>4 DEF Saw
<1>20. PICK k : k = Len(published') /\ k \in DOMAIN published' /\ published'[k] = Tip
  BY <1>4
<1>16. \A u \in Uids : \A r : r = RowOf(u, complete) => Saw(r, k)'
  <2> SUFFICES ASSUME NEW u \in Uids, NEW r, r = RowOf(u, complete) PROVE Saw(r, k)'
    OBVIOUS
  <2>2. r.uid = u /\ r.pair = chain[Tip][u].pair /\ r.block \in chain[Tip][u].since .. Tip
    BY <1>6
  <2>3. chain[Tip][u].since \in Nat /\ Tip \in Nat
    BY <1>1, IntakeTypes DEF ChainInv
  <2>4. chain[Tip][u].since <= r.block /\ r.block <= Tip
    BY <2>2, <2>3
  <2>5. chain' = chain /\ published'[k] = Tip
    BY <1>3, <1>20
  <2>6. /\ chain'[published'[k]][r.uid].pair = r.pair
        /\ chain'[published'[k]][r.uid].since <= r.block /\ r.block <= published'[k]
    BY <2>2, <2>4, <2>5
  <2> QED BY <2>6 DEF Saw
<1>17. \A r \in history' : Seen(r)'
  <2> SUFFICES ASSUME NEW r \in history' PROVE \E i \in DOMAIN published' : Saw(r, i)'
    BY DEF Seen
  <2>1. r.uid \in Uids /\ r \in RowsOf(r.uid)'
    BY <1>9
  <2>2. CASE r \in RowsOf(r.uid)
    <3>1. r \in history
      BY <2>2 DEF RowsOf
    <3>2. PICK i \in DOMAIN published : Saw(r, i)
      BY <1>1, <3>1 DEF LogInv, Seen
    <3> QED BY <1>4, <1>15, <3>1, <3>2
  <2>3. CASE r = RowOf(r.uid, complete)
    <3>1. Saw(r, k)'
      BY <1>16, <2>1, <2>3
    <3> QED BY <1>20, <3>1
  <2> QED BY <1>5, <2>1, <2>2, <2>3
<1>18. \A r \in history' : r \in Latest(r.uid)' => Standing(r)'
  <2> SUFFICES ASSUME NEW r \in history', r \in Latest(r.uid)' PROVE Standing(r)'
    OBVIOUS
  <2>1. PICK u \in Uids : u = r.uid /\ r \in RowsOf(u)' /\ r \in Latest(u)'
    BY <1>9
  <2>2. CASE r \notin RowsOf(u)
    <3>1. Saw(r, k)'
      BY <1>5, <1>16, <2>1, <2>2
    <3>2. \A j \in k .. Len(published') : j = k
      BY <1>4, <1>20
    <3>3. Stood(r.uid, r.pair, k)'
      BY <3>2 DEF Stood
    <3> QED BY <1>20, <3>1, <3>3 DEF Standing
  <2>3. CASE r \in RowsOf(u)
    <3>1. r \in Latest(u) /\ r \in history
      BY <1>12, <2>1, <2>3 DEF RowsOf
    <3>2. PICK i \in DOMAIN published : Saw(r, i) /\ Stood(r.uid, r.pair, i)
      BY <1>1, <2>1, <3>1 DEF LogInv, Standing
    <3>3. chain[Tip][u].pair = r.pair \/ chain[Tip][u].since = chain[published[i]][u].since
      <4>1. CASE u \in Changed(Tip)
        <5>1. chain[Tip][u].since <= r.block /\ r.block <= published[i]
          BY <1>13, <2>1, <3>2, <4>1 DEF Saw
        <5>2. published[i] \in 1 .. Tip /\ Tip \in 1 .. Tip /\ published[i] <= Tip
          BY <1>1, <3>2, IntakeTypes DEF ChainInv
        <5>3. chain[Tip][u].since \in Nat /\ r.block \in Nat /\ published[i] \in Nat
          BY <1>1, <1>9, <2>1, <5>2, IntakeTypes
        <5>4. ~(chain[Tip][u].since > published[i])
          BY <5>1, <5>3
        <5> QED BY <1>1, <2>1, <5>2, <5>4 DEF ChainInv
      <4>2. CASE u \notin Changed(Tip)
        <5>1. PICK z \in Latest(u) : z.pair = chain[Tip][u].pair
          BY <2>1, <4>2 DEF Changed
        <5>2. z.block <= r.block /\ r.block <= z.block /\ z \in history /\ z.uid = u /\ r.uid = u
          BY <3>1, <5>1, <2>1 DEF Latest, RowsOf
        <5>3. z.block \in Nat /\ r.block \in Nat
          BY <1>1, <3>1, <5>2, IntakeTypes
        <5>4. z = r
          BY <1>1, <3>1, <5>2, <5>3 DEF KeysInv
        <5> QED BY <5>1, <5>4
      <4> QED BY <4>1, <4>2
    <3>4. Saw(r, i)' /\ i \in DOMAIN published'
      BY <1>4, <1>15, <3>1, <3>2
    <3>5. \A j \in i .. Len(published') :
            chain[published'[j]][u].pair = r.pair \/ chain[published'[j]][u].since = chain[published[i]][u].since
      <4> SUFFICES ASSUME NEW j \in i .. Len(published')
                   PROVE  chain[published'[j]][u].pair = r.pair \/ chain[published'[j]][u].since = chain[published[i]][u].since
        OBVIOUS
      <4>1. DOMAIN published = 1 .. Len(published) /\ Len(published) \in Nat
        BY <1>1, IntakeTypes
      <4>2. i \in Nat /\ i >= 1 /\ j \in DOMAIN published'
        BY <1>4, <3>2, <4>1
      <4>3. CASE j \in DOMAIN published
        <5>1. j \in i .. Len(published)
          BY <4>1, <4>2, <4>3
        <5>2. chain[published[j]][u].pair = r.pair \/ chain[published[j]][u].since = chain[published[i]][u].since
          BY <2>1, <3>2, <5>1 DEF Stood
        <5> QED BY <1>4, <4>3, <5>2
      <4>4. CASE published'[j] = Tip
        BY <3>3, <4>4
      <4> QED BY <1>4, <4>2, <4>3, <4>4
    <3>6. Stood(r.uid, r.pair, i)'
      <4>1. published'[i] = published[i] /\ chain' = chain
        BY <1>3, <1>4, <3>2
      <4> QED BY <2>1, <3>5, <4>1 DEF Stood
    <3> QED BY <3>4, <3>6 DEF Standing
  <2> QED BY <2>2, <2>3
<1>21. \A u : EverSwapped(u)' <=> EverSwapped(u)
  BY <1>3 DEF EverSwapped, Swapped, Tip
<1>19. ChangesInv'
  <2> SUFFICES ASSUME NEW r \in history', NEW q \in RowsOf(r.uid)', Follows(q, r)' PROVE q.pair # r.pair
    BY DEF ChangesInv
  <2>1. PICK u \in Uids : u = r.uid /\ r \in RowsOf(u)' /\ q \in RowsOf(u)'
    BY <1>9
  <2>2. /\ q \in Latest(u)' \/ ~EverSwapped(u)
        /\ q.block > r.block /\ \A o \in RowsOf(u)' : o.block <= r.block \/ o.block >= q.block
    BY <1>21, <2>1 DEF Follows
  <2>3. r.block \in Nat /\ q.block \in Nat /\ \A o \in RowsOf(u) : o.block \in Nat
    <3>1. q \in history' /\ \A o \in RowsOf(u) : o \in history
      BY <2>1 DEF RowsOf
    <3> QED BY <1>1, <1>9, <3>1, IntakeTypes
  <2>4. CASE r \in RowsOf(u) /\ q \in RowsOf(u)
    <3>1. q \in Latest(u) \/ ~EverSwapped(u)
      BY <1>12, <2>1, <2>2, <2>4
    <3>2. \A o \in RowsOf(u) : o.block <= r.block \/ o.block >= q.block
      BY <1>5, <2>1, <2>2
    <3>3. Follows(q, r)
      BY <2>1, <2>2, <3>1, <3>2 DEF Follows
    <3> QED BY <1>1, <2>1, <2>4, <3>3 DEF ChangesInv, RowsOf
  <2>5. CASE r \notin RowsOf(u) /\ q \in RowsOf(u)
    <3>1. u \in Changed(Tip) /\ r = RowOf(u, complete)
      BY <1>5, <2>1, <2>5
    <3>2. q \in Latest(u)
      <4>1. CASE q \in Latest(u)'
        BY <1>12, <2>1, <2>5, <4>1
      <4>2. CASE ~EverSwapped(u)
        <5>1. q.block < chain[Tip][u].since
          BY <2>5, <3>1, <4>2, RowsAreLater
        <5>2. r.block \in chain[Tip][u].since .. Tip
          BY <1>6, <2>1, <3>1
        <5>3. chain[Tip][u].since \in Nat /\ Tip \in Nat
          BY <1>1, <2>1, IntakeTypes DEF ChainInv
        <5> QED BY <2>2, <2>3, <5>1, <5>2, <5>3
      <4> QED BY <2>2, <4>1, <4>2
    <3>3. q.pair # chain[Tip][u].pair
      BY <3>1, <3>2 DEF Changed
    <3> QED BY <1>6, <2>1, <3>1, <3>3
  <2>6. CASE r \in RowsOf(u) /\ q \notin RowsOf(u)
    <3>1. u \in Changed(Tip) /\ q = RowOf(u, complete)
      BY <1>5, <2>1, <2>6
    <3>2. \A o \in RowsOf(u) : o.block <= q.block
      <4> SUFFICES ASSUME NEW o \in RowsOf(u) PROVE o.block <= q.block
        OBVIOUS
      <4>1. CASE q \in Latest(u)'
        BY <1>5, <2>1, <4>1 DEF Latest
      <4>2. CASE ~EverSwapped(u)
        <5>1. o.block < chain[Tip][u].since
          BY <3>1, <4>2, RowsAreLater
        <5>2. q.block \in chain[Tip][u].since .. Tip
          BY <1>6, <2>1, <3>1
        <5>3. chain[Tip][u].since \in Nat /\ Tip \in Nat
          BY <1>1, <2>1, IntakeTypes DEF ChainInv
        <5> QED BY <2>3, <5>1, <5>2, <5>3
      <4> QED BY <2>2, <4>1, <4>2
    <3>3. \A o \in RowsOf(u) : o.block <= r.block
      <4> SUFFICES ASSUME NEW o \in RowsOf(u) PROVE o.block <= r.block
        OBVIOUS
      <4>1. o.block # q.block /\ o.block <= q.block
        BY <1>5, <2>1, <2>6, <3>2
      <4>2. o.block <= r.block \/ o.block >= q.block
        BY <1>5, <2>1, <2>2
      <4> QED BY <2>3, <4>1, <4>2
    <3>4. r \in Latest(u)
      BY <2>6, <3>3 DEF Latest
    <3>5. r.pair # chain[Tip][u].pair
      BY <3>1, <3>4 DEF Changed
    <3> QED BY <1>6, <2>1, <3>1, <3>5
  <2>7. CASE r \notin RowsOf(u) /\ q \notin RowsOf(u)
    <3>1. r = q
      BY <1>5, <2>1, <2>7
    <3> QED BY <2>2, <2>3, <3>1
  <2> QED BY <2>4, <2>5, <2>6, <2>7
<1> QED BY <1>10, <1>11, <1>14, <1>17, <1>18, <1>19 DEF IntakeIInv, LogInv

-----------------------------------------------------------------------------
\* The other moves leave the chain's tables alone.

LEMMA QueueMoves ==
  ASSUME IntakeIInv, UNCHANGED <<chain, history, published>>, lastBlock' \in {0, lastBlock},
         committed' \in [Bundles -> 0 .. MaxBlock], status' \in [Bundles -> {"absent", "unverified"} \cup Decisions],
         unreadable' \subseteq Bundles, taken' \subseteq Bundles, candidate' \in Bundles \cup {NoBundle}
  PROVE  IntakeIInv'
<1>1. IntakeTypeOK /\ ChainInv /\ Tip' = Tip
  BY DEF IntakeIInv, Tip
<1>2. lastBlock' \in 0 .. Tip
  BY <1>1, IntakeTypes DEF IntakeTypeOK
<1>3. IntakeTypeOK'
  BY <1>1, <1>2 DEF IntakeTypeOK
<1>4. ChainInv'
  BY <1>1 DEF ChainInv
<1>5. KeysInv' /\ LogInv' /\ ChangesInv'
  <2>1. Tip \in Nat /\ Tip' \in Nat /\ Tip <= Tip'
    BY <1>1, IntakeTypes
  <2> QED BY <1>1, <2>1, TablesStand DEF IntakeIInv
<1> QED BY <1>3, <1>4, <1>5 DEF IntakeIInv

LEMMA OutcomesAreDecisions == \A a \in Answers : OutcomeOf(a) \in Decisions
BY DEF OutcomeOf, Decisions

LEMMA IntakeSteps == IntakeIInv /\ [IntakeNext]_intakeVars => IntakeIInv'
<1> SUFFICES ASSUME IntakeIInv, [IntakeNext]_intakeVars PROVE IntakeIInv'
  OBVIOUS
<1>1. /\ committed \in [Bundles -> 0 .. MaxBlock] /\ status \in [Bundles -> {"absent", "unverified"} \cup Decisions]
      /\ unreadable \subseteq Bundles /\ taken \subseteq Bundles /\ candidate \in Bundles \cup {NoBundle}
  BY DEF IntakeIInv, IntakeTypeOK
<1>2. CASE NextBlock
  BY <1>2, NextBlockStep
<1>3. CASE Poll
  BY <1>3, PollStep
<1>4. CASE WatcherRestarts \/ Look \/ QualificationFails \/ UNCHANGED intakeVars
  <2>1. /\ UNCHANGED <<chain, history, published, committed, status, unreadable, taken>> /\ lastBlock' \in {0, lastBlock}
        /\ candidate' \in Bundles \cup {NoBundle}
    BY <1>1, <1>4 DEF WatcherRestarts, Look, QualificationFails, intakeVars, watcherVars, submissionVars
  <2> QED BY <1>1, <2>1, QueueMoves
<1>5. CASE Qualify
  <2>1. PICK outcome \in Decisions : Qualified(outcome)
    BY <1>5, OutcomesAreDecisions DEF Qualify
  <2>2. UNCHANGED <<chain, history, published, lastBlock, committed, unreadable, taken>> /\ candidate' = NoBundle
    BY <2>1 DEF Qualified, watcherVars
  <2>3. status' \in [Bundles -> {"absent", "unverified"} \cup Decisions]
    BY <1>1, <2>1 DEF Qualified
  <2> QED BY <1>1, <2>2, <2>3, QueueMoves
<1>6. ASSUME NEW s \in Bundles, Submit(s) PROVE IntakeIInv'
  <2>1. UNCHANGED <<chain, history, published, lastBlock, taken, candidate>> /\ unreadable' \subseteq Bundles
    BY <1>1, <1>6 DEF Submit, watcherVars
  <2>2. Tip \in 0 .. MaxBlock
    BY IntakeAssumption DEF IntakeIInv, ChainInv
  <2>3. committed' \in [Bundles -> 0 .. MaxBlock]
    BY <1>1, <1>6, <2>2 DEF Submit
  <2>4. status' \in [Bundles -> {"absent", "unverified"} \cup Decisions]
    BY <1>1, <1>6 DEF Submit
  <2> QED BY <1>1, <2>1, <2>3, <2>4, QueueMoves
<1>7. ASSUME NEW s \in Bundles, Take(s) PROVE IntakeIInv'
  <2>1. UNCHANGED <<chain, history, published, lastBlock, committed, status, unreadable, candidate>> /\ taken' \subseteq Bundles
    BY <1>1, <1>7 DEF Take, watcherVars
  <2> QED BY <1>1, <2>1, QueueMoves
<1>8. ASSUME NEW s \in Bundles, OperatorDecides(s) PROVE IntakeIInv'
  <2>1. UNCHANGED <<chain, history, published, lastBlock, committed, taken, unreadable, candidate>>
    BY <1>8 DEF OperatorDecides, watcherVars
  <2>2. status' \in [Bundles -> {"absent", "unverified"} \cup Decisions]
    BY <1>1, <1>8 DEF OperatorDecides, Decisions
  <2> QED BY <1>1, <2>1, <2>2, QueueMoves
<1> QED BY <1>2, <1>3, <1>4, <1>5, <1>6, <1>7, <1>8 DEF IntakeNext

\* The history of registrations is a log of pairs the chain had, in which the current
\* row of a uid differs from the one before it and every row of a uid without a swap
\* does, for any subnet and any number of blocks, swaps, restarts and payloads without
\* registration blocks (publish_snapshot, _changed_rows).
THEOREM HistoryIsSound == IntakeSpec => []IntakeInvariant
<1>1. IntakeIInv => IntakeInvariant
  BY LogIsALog DEF IntakeIInv, IntakeInvariant
<1> QED BY <1>1, IntakeStarts, IntakeSteps, PTL DEF IntakeSpec

\* Snapshot i shows the registration of uid u that submission s was committed under,
\* and those since do.
Keeps(s, u, i) ==
  LET then == chain[published[i]][u]
  IN /\ Hotkey(then.pair) = HotkeyOf[s] /\ then.since <= committed[s]
     /\ \A j \in i .. Len(published) :
          LET now == chain[published[j]][u]
          IN Hotkey(now.pair) = HotkeyOf[s] \/ now.since = then.since

\* A submission in the queue was committed under a registration of its hotkey that
\* every snapshot since has seen, with that hotkey or swapped.
LEMMA QueueIsRegistered ==
  ASSUME IntakeIInv, NEW s \in Queue
  PROVE  \E u \in Uids, i \in DOMAIN published : Keeps(s, u, i)
<1>1. PICK r \in CurrentMetagraph : Hotkey(r.pair) = HotkeyOf[s] /\ r.block <= committed[s]
  BY DEF Queue, Fresh
<1>2. PICK u \in Uids : r \in Latest(u)
  BY <1>1 DEF CurrentMetagraph
<1>3. r \in history /\ r.uid = u
  BY <1>2 DEF Latest, RowsOf
<1>4. PICK i \in DOMAIN published : Saw(r, i) /\ Stood(r.uid, r.pair, i)
  BY <1>2, <1>3 DEF IntakeIInv, LogInv, Standing
<1>5. chain[published[i]][u].since <= r.block
  BY <1>3, <1>4 DEF Saw
<1>6. /\ chain[published[i]][u].since \in Nat /\ r.block \in Nat /\ committed[s] \in Nat
  <2>1. published[i] \in 1 .. Tip
    BY <1>4, IntakeTypes DEF IntakeIInv
  <2>2. chain[published[i]][u].since \in 1 .. MaxBlock /\ r.block \in 1 .. MaxBlock
    BY <1>3, <2>1, IntakeTypes DEF IntakeIInv
  <2>3. committed[s] \in 0 .. MaxBlock
    BY DEF IntakeIInv, IntakeTypeOK, Queue
  <2> QED BY <2>2, <2>3, IntakeAssumption
<1>7. chain[published[i]][u].since <= committed[s]
  BY <1>1, <1>5, <1>6
<1>8. Hotkey(chain[published[i]][u].pair) = HotkeyOf[s]
  BY <1>1, <1>3, <1>4 DEF Saw
<1>9. \A j \in i .. Len(published) :
        \/ Hotkey(chain[published[j]][u].pair) = HotkeyOf[s]
        \/ chain[published[j]][u].since = chain[published[i]][u].since
  BY <1>1, <1>3, <1>4 DEF Stood
<1>10. Keeps(s, u, i)
  BY <1>7, <1>8, <1>9 DEF Keeps
<1> QED BY <1>10

\* What is judged or becomes a challenger was committed under a registration of its
\* hotkey that every snapshot since has seen, with that hotkey or swapped, whatever the
\* chain, the watcher and the workers do in between (next_candidate, current_metagraph).
THEOREM TheQueueIsRegistered == IntakeSpec => QueuedAreRegistered
<1> DEFINE Judged == \A s \in Bundles :
       (candidate' = s /\ candidate # s) \/ (s \in taken' \ taken) =>
         \E u \in Uids, i \in DOMAIN published : Keeps(s, u, i)
<1>1. IntakeIInv /\ [IntakeNext]_intakeVars => [Judged]_intakeVars
  <2> SUFFICES ASSUME IntakeIInv, IntakeNext, NEW s \in Bundles,
                      (candidate' = s /\ candidate # s) \/ (s \in taken' \ taken)
               PROVE  \E u \in Uids, i \in DOMAIN published : Keeps(s, u, i)
    OBVIOUS
  <2>1. s \in Queue
    <3>1. CASE Look
      BY <3>1, IntakeAssumption DEF Look, NextCandidate, Unverified, QueueHead, submissionVars
    <3>2. CASE \E t \in Bundles : Take(t)
      BY <3>2 DEF Take
    <3>3. CASE Qualify \/ QualificationFails
      BY <3>3, IntakeAssumption DEF Qualify, Qualified, QualificationFails, submissionVars
    <3>4. CASE NextBlock \/ Poll \/ WatcherRestarts
      BY <3>4 DEF NextBlock, Poll, WatcherRestarts, submissionVars
    <3>5. CASE \E t \in Bundles : Submit(t) \/ OperatorDecides(t)
      BY <3>5 DEF Submit, OperatorDecides
    <3> QED BY <3>1, <3>2, <3>3, <3>4, <3>5 DEF IntakeNext
  <2> QED BY <2>1, QueueIsRegistered
<1> QED BY <1>1, IntakeStarts, IntakeSteps, PTL DEF IntakeSpec, QueuedAreRegistered, Keeps

=============================================================================
