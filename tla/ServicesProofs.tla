---------------------------- MODULE ServicesProofs ----------------------------
(***************************************************************************)
(* Proofs about the services around a duel: the publication of winners,    *)
(* the proxy's router, a solve in the sandbox, the calls to the models and *)
(* the weight setter, for any number of publishers, winners, files,        *)
(* endpoints, solves, handlers, connections, requests, tokens, routes,     *)
(* tries, uids, miners, tempos and kings.                                  *)
(***************************************************************************)
EXTENDS Promotion, UpstreamRouter, SolveRun, LlmCalls, WeightSetter, CountingLemmas

-----------------------------------------------------------------------------
(* The publication of winners *)

Bundled == UNION {FilesOf[s] : s \in Winners}

Commits == [of : Winners \cup {NoWinner}, files : SUBSET (RepoFiles \cup Bundled),
            manifest : SUBSET Bundled, blind : BOOLEAN]

\* The branch has its first commit, every later one is a publication that lists its files.
BranchInv ==
  /\ branch \in Seq(Commits) /\ Len(branch) >= 1
  /\ branch[1] = [of |-> NoWinner, files |-> RepoFiles, manifest |-> {}, blind |-> FALSE]
  /\ \A i \in 2 .. Len(branch) :
       /\ branch[i].of \in Winners
       /\ branch[i].manifest = FilesOf[branch[i].of]
       /\ FilesOf[branch[i].of] \subseteq branch[i].files

\* A publisher starts from a commit of the branch; what it removes is that commit's
\* manifest, or nothing if it could not be read.
PublisherInv ==
  \A p \in Publishers : publisher[p].step # "rest" =>
    /\ publisher[p].of \in Winners /\ publisher[p].base \in 1 .. Len(branch)
    /\ publisher[p].old =
         IF publisher[p].step = "ref" /\ ~publisher[p].blind
         THEN branch[publisher[p].base].manifest ELSE {}
    /\ publisher[p].step = "manifest" => ~publisher[p].blind

\* What a commit holds if nothing up to it was published blindly.
TreeInv ==
  \A i \in 2 .. Len(branch) :
    (\A j \in 1 .. i : ~branch[j].blind)
      => branch[i].files = FilesOf[branch[i].of] \cup (RepoFiles \ Written(i))

PromotionIInv == PromotionTypeOK /\ BranchInv /\ PublisherInv /\ TreeInv

LEMMA PromotionStarts == PromotionInit => PromotionIInv
<1> SUFFICES ASSUME PromotionInit PROVE PromotionIInv
  OBVIOUS
<1> DEFINE first == [of |-> NoWinner, files |-> RepoFiles, manifest |-> {}, blind |-> FALSE]
<1>1. branch = <<first>> /\ first \in Commits
  BY DEF PromotionInit, Commits
<1> HIDE DEF first
<1>2. branch \in Seq(Commits) /\ Len(branch) = 1 /\ branch[1] = first /\ DOMAIN branch = {1}
  BY <1>1
<1>3. publisher = [p \in Publishers |-> Resting]
  BY DEF PromotionInit
<1>4. PromotionTypeOK
  BY <1>2, <1>3 DEF PromotionTypeOK, Resting, first
<1> QED BY <1>2, <1>3, <1>4 DEF PromotionIInv, BranchInv, PublisherInv, TreeInv, Resting, first

LEMMA CommitsOfTheBranch ==
  BranchInv => /\ Len(branch) \in Nat /\ DOMAIN branch = 1 .. Len(branch)
               /\ \A i \in 1 .. Len(branch) : branch[i] \in Commits
<1> SUFFICES ASSUME BranchInv PROVE /\ Len(branch) \in Nat /\ DOMAIN branch = 1 .. Len(branch)
                                    /\ \A i \in 1 .. Len(branch) : branch[i] \in Commits
  OBVIOUS
<1>1. branch \in Seq(Commits)
  BY DEF BranchInv
<1> HIDE DEF Commits
<1> QED BY <1>1

\* Steps of a publisher before it moves the ref.
LEMMA PreparationsKeep ==
  ASSUME PromotionIInv, NEW p \in Publishers, UNCHANGED branch,
         \/ \E s \in Winners : FetchHead(p, s)
         \/ FetchManifest(p)
         \/ PublicationFails(p)
  PROVE  PromotionIInv'
<1> USE DEF PromotionIInv
<1>1. BranchInv' /\ TreeInv' /\ Len(branch) \in Nat
  BY DEF BranchInv, TreeInv, Written
<1>2. \A b \in 1 .. Len(branch) : branch[b].manifest \subseteq Bundled
  BY CommitsOfTheBranch DEF Commits
<1>3. publisher \in [Publishers ->
       [step : {"rest", "manifest", "ref"}, of : Winners \cup {NoWinner}, base : 0 .. Len(branch),
        old : SUBSET Bundled, blind : BOOLEAN]]
  BY DEF PromotionTypeOK, Bundled
<1>4. \A i \in DOMAIN branch : branch[i].of \in Winners \cup {NoWinner}
  BY DEF PromotionTypeOK
<1>5. CASE \E s \in Winners : FetchHead(p, s)
  <2>1. PICK s \in Winners : FetchHead(p, s)
    BY <1>5
  <2>2. publisher' = [publisher EXCEPT ![p] =
          [step |-> "manifest", of |-> s, base |-> Len(branch), old |-> {}, blind |-> FALSE]]
    BY <2>1 DEF FetchHead, PublisherGoes
  <2>3. PromotionTypeOK'
    BY <1>1, <1>3, <1>4, <2>2 DEF PromotionTypeOK, Bundled
  <2>4. PublisherInv'
    BY <1>1, <1>3, <2>2 DEF PublisherInv, BranchInv
  <2> QED BY <1>1, <2>3, <2>4
<1>6. CASE FetchManifest(p)
  <2>1. publisher[p].step = "manifest" /\ publisher[p].base \in 1 .. Len(branch)
        /\ publisher[p].of \in Winners /\ publisher[p].old = {} /\ ~publisher[p].blind
    BY <1>6 DEF FetchManifest, PublisherInv
  <2>2. PICK s \in Winners, b \in 1 .. Len(branch), m \in SUBSET Bundled :
          s = publisher[p].of /\ b = publisher[p].base /\ m = branch[b].manifest
    BY <1>2, <2>1
  <2>3. PICK old \in {m, {}}, blind \in BOOLEAN :
          /\ old = (IF blind THEN {} ELSE m)
          /\ publisher' = [publisher EXCEPT ![p] =
               [step |-> "ref", of |-> s, base |-> b, old |-> old, blind |-> blind]]
    BY <1>6, <2>2 DEF FetchManifest, PublisherGoes, Told
  <2>4. PromotionTypeOK'
    BY <1>1, <1>3, <1>4, <2>3 DEF PromotionTypeOK, Bundled
  <2>5. PublisherInv'
    <3> SUFFICES ASSUME NEW q \in Publishers, publisher'[q].step # "rest"
                 PROVE  /\ publisher'[q].of \in Winners /\ publisher'[q].base \in 1 .. Len(branch)
                        /\ publisher'[q].old =
                             IF publisher'[q].step = "ref" /\ ~publisher'[q].blind
                             THEN branch[publisher'[q].base].manifest ELSE {}
                        /\ publisher'[q].step = "manifest" => ~publisher'[q].blind
      BY DEF PublisherInv
    <3>1. CASE q = p
      BY <1>3, <2>2, <2>3, <3>1
    <3>2. CASE q # p
      <4>1. publisher'[q] = publisher[q]
        BY <1>3, <2>3, <3>2
      <4> QED BY <4>1 DEF PublisherInv
    <3> QED BY <3>1, <3>2
  <2> QED BY <1>1, <2>4, <2>5
<1>7. CASE PublicationFails(p)
  <2>1. publisher' = [publisher EXCEPT ![p] =
          [step |-> "rest", of |-> NoWinner, base |-> 0, old |-> {}, blind |-> FALSE]]
    BY <1>7 DEF PublicationFails, PublisherGoes, Resting
  <2>2. PromotionTypeOK'
    BY <1>1, <1>3, <1>4, <2>1 DEF PromotionTypeOK, Bundled
  <2>3. PublisherInv'
    BY <1>1, <1>3, <2>1 DEF PublisherInv
  <2> QED BY <1>1, <2>2, <2>3
<1> QED BY <1>5, <1>6, <1>7

\* The ref moves by one commit, or not at all.
LEMMA RefMoves ==
  ASSUME PromotionIInv, NEW p \in Publishers, UpdateRef(p)
  PROVE  /\ Commit(p) \in Commits /\ Commit(p).of \in Winners
         /\ branch' \in {branch, Append(branch, Commit(p))}
<1>1. publisher[p].step = "ref" /\ publisher[p].of \in Winners /\ publisher[p].base \in 1 .. Len(branch)
  BY DEF PromotionIInv, PublisherInv, UpdateRef
<1>2. publisher[p].blind \in BOOLEAN
  BY DEF PromotionIInv, PromotionTypeOK
<1>3. branch[publisher[p].base].files \subseteq RepoFiles \cup Bundled
  BY <1>1, CommitsOfTheBranch DEF PromotionIInv, Commits
<1>4. FilesOf[publisher[p].of] \subseteq Bundled
  BY <1>1 DEF Bundled
<1>5. Tree(p) \subseteq RepoFiles \cup Bundled
  BY <1>3, <1>4 DEF Tree
<1> QED BY <1>1, <1>2, <1>4, <1>5 DEF Commit, Commits, UpdateRef, Landed

\* A new commit at the end leaves the others what they were.
LEMMA AppendedCommit ==
  ASSUME BranchInv, NEW c \in Commits
  PROVE  LET longer == Append(branch, c)
         IN /\ longer \in Seq(Commits) /\ Len(longer) = Len(branch) + 1 /\ Len(branch) \in Nat
            /\ longer[Len(branch) + 1] = c
            /\ \A i \in 1 .. Len(branch) : longer[i] = branch[i]
BY DEF BranchInv

LEMMA UpdateKeeps ==
  ASSUME PromotionIInv, NEW p \in Publishers, UpdateRef(p)
  PROVE  PromotionIInv'
<1> USE DEF PromotionIInv
<1>1. publisher' = [publisher EXCEPT ![p] =
        [step |-> "rest", of |-> NoWinner, base |-> 0, old |-> {}, blind |-> FALSE]]
  BY DEF UpdateRef, PublisherGoes, Resting
<1>2. CASE branch' = branch
  <2>1. BranchInv' /\ TreeInv' /\ PublisherInv'
    <3>1. BranchInv' /\ TreeInv'
      BY <1>2 DEF BranchInv, TreeInv, Written
    <3>2. \A q \in Publishers : publisher'[q].step # "rest" => publisher'[q] = publisher[q]
      BY <1>1 DEF PromotionTypeOK
    <3> QED BY <1>2, <3>1, <3>2 DEF PublisherInv
  <2>2. PromotionTypeOK'
    BY <1>1, <1>2 DEF PromotionTypeOK, BranchInv
  <2> QED BY <2>1, <2>2
<1>3. CASE branch' # branch
  <2>0. PICK n \in Nat : n = Len(branch)
    BY CommitsOfTheBranch
  <2>c. PICK c : c = Commit(p)
    OBVIOUS
  <2>1. branch' = Append(branch, c) /\ c \in Commits /\ c.of \in Winners
    BY <1>3, <2>c, RefMoves
  <2>2. /\ branch' \in Seq(Commits) /\ Len(branch') = n + 1 /\ n \in Nat /\ n >= 1
        /\ branch'[n + 1] = c /\ \A i \in 1 .. n : branch'[i] = branch[i]
    BY <2>0, <2>1, AppendedCommit DEF BranchInv
  <2>3. publisher[p].base = n
    BY <1>3, <2>0 DEF UpdateRef, Landed
  <2>4. /\ publisher[p].step = "ref"
        /\ publisher[p].old = IF publisher[p].blind THEN {} ELSE branch[n].manifest
    BY <2>3 DEF UpdateRef, PublisherInv
  <2>5. /\ c.manifest = FilesOf[c.of] /\ c.blind = publisher[p].blind
        /\ c.files = (branch[n].files \ (publisher[p].old \ FilesOf[c.of])) \cup FilesOf[c.of]
    BY <2>3, <2>c DEF Commit, Tree
  <2>6. BranchInv'
    <3>1. \A i \in 2 .. n + 1 : i = n + 1 \/ (i \in 2 .. n /\ branch'[i] = branch[i])
      BY <2>2
    <3> QED BY <2>1, <2>2, <2>5, <2>0, <3>1 DEF BranchInv
  <2>7. PublisherInv'
    <3> SUFFICES ASSUME NEW q \in Publishers, publisher'[q].step # "rest"
                 PROVE  /\ q # p /\ publisher'[q] = publisher[q]
                        /\ publisher[q].base \in 1 .. n /\ branch'[publisher[q].base] = branch[publisher[q].base]
      BY <2>0, <2>2 DEF PublisherInv
    <3>1. q # p /\ publisher'[q] = publisher[q]
      BY <1>1 DEF PromotionTypeOK
    <3> QED BY <2>0, <2>2, <3>1 DEF PublisherInv
  <2>8. PromotionTypeOK'
    <3>1. publisher' \in [Publishers ->
            [step : {"rest", "manifest", "ref"}, of : Winners \cup {NoWinner}, base : 0 .. n + 1,
             old : SUBSET Bundled, blind : BOOLEAN]]
      BY <1>1, <2>0, <2>2 DEF PromotionTypeOK, Bundled
    <3>2. \A i \in DOMAIN branch' : branch'[i].of \in Winners \cup {NoWinner}
      <4>1. \A i \in 1 .. n + 1 : branch'[i] \in Commits
        <5> HIDE DEF Commits
        <5> QED BY <2>2
      <4> QED BY <2>2, <4>1 DEF Commits
    <3> QED BY <2>2, <3>1, <3>2 DEF PromotionTypeOK, Bundled
  <2>9. TreeInv'
    <3>1. \A i \in 1 .. n : Written(i)' = Written(i)
      BY <2>2 DEF Written
    <3>2. Written(n + 1)' = Written(n) \cup FilesOf[c.of]
      <4>1. \A j : j \in 2 .. n + 1 <=> j \in 2 .. n \/ j = n + 1
        BY <2>2
      <4>2. \A j \in 2 .. n : branch'[j] = branch[j]
        BY <2>2
      <4>3. \A f : (\E j \in 2 .. n + 1 : f \in FilesOf[branch'[j].of])
                   <=> (\E j \in 2 .. n : f \in FilesOf[branch[j].of]) \/ f \in FilesOf[c.of]
        BY <2>2, <4>1, <4>2
      <4> QED BY <4>3 DEF Written
    <3>3. ASSUME \A j \in 1 .. n + 1 : ~branch'[j].blind
          PROVE  c.files = FilesOf[c.of] \cup (RepoFiles \ (Written(n) \cup FilesOf[c.of]))
      <4>1. ~c.blind /\ \A j \in 1 .. n : ~branch[j].blind
        BY <2>2, <3>3
      <4>2. publisher[p].old = branch[n].manifest
        BY <2>4, <2>5, <4>1
      <4>3. CASE n = 1
        <5>1. branch[n].files = RepoFiles /\ branch[n].manifest = {}
          BY <4>3 DEF BranchInv
        <5>2. Written(n) = {}
          BY <4>3 DEF Written
        <5> QED BY <2>5, <4>2, <5>1, <5>2
      <4>4. CASE n # 1
        <5>1. n \in 2 .. n
          BY <2>2, <4>4
        <5>2. /\ branch[n].manifest = FilesOf[branch[n].of]
              /\ branch[n].files = FilesOf[branch[n].of] \cup (RepoFiles \ Written(n))
          BY <2>0, <4>1, <5>1 DEF BranchInv, TreeInv
        <5>3. FilesOf[branch[n].of] \subseteq Written(n)
          BY <5>1 DEF Written
        <5> QED BY <2>5, <4>2, <5>2, <5>3
      <4> QED BY <4>3, <4>4
    <3> SUFFICES ASSUME NEW i \in 2 .. n + 1, \A j \in 1 .. i : ~branch'[j].blind
                 PROVE  branch'[i].files = FilesOf[branch'[i].of] \cup (RepoFiles \ Written(i)')
      BY <2>2 DEF TreeInv
    <3>4. CASE i = n + 1
      <4>1. Written(i)' = Written(n) \cup FilesOf[c.of]
        BY <3>2, <3>4
      <4>2. branch'[i] = c
        BY <2>2, <3>4
      <4> QED BY <3>3, <3>4, <4>1, <4>2
    <3>5. CASE i # n + 1
      <4>1. i \in 2 .. n /\ i \in 1 .. n /\ \A j \in 1 .. i : ~branch[j].blind
        BY <2>2, <3>5
      <4> QED BY <2>0, <2>2, <3>1, <4>1 DEF TreeInv
    <3> QED BY <3>4, <3>5
  <2> QED BY <2>6, <2>7, <2>8, <2>9
<1> QED BY <1>2, <1>3

LEMMA PromotionStep == PromotionIInv /\ [PromotionNext]_promotionVars => PromotionIInv'
<1> SUFFICES ASSUME PromotionIInv, [PromotionNext]_promotionVars PROVE PromotionIInv'
  OBVIOUS
<1>1. CASE UNCHANGED promotionVars
  BY <1>1 DEF promotionVars, PromotionIInv, PromotionTypeOK, BranchInv, PublisherInv, TreeInv, Written
<1>2. ASSUME NEW p \in Publishers, UpdateRef(p) PROVE PromotionIInv'
  BY <1>2, UpdateKeeps
<1>3. ASSUME NEW p \in Publishers,
             (\E s \in Winners : FetchHead(p, s)) \/ FetchManifest(p) \/ PublicationFails(p)
      PROVE  PromotionIInv'
  <2>1. UNCHANGED branch
    BY <1>3 DEF FetchHead, FetchManifest, PublicationFails
  <2> QED BY <1>3, <2>1, PreparationsKeep
<1> QED BY <1>1, <1>2, <1>3 DEF PromotionNext

LEMMA PromotionAlways == PromotionSpec => []PromotionIInv
BY PromotionStarts, PromotionStep, PTL DEF PromotionSpec

\* The head of the branch holds its winner's bundle and the repository's own files,
\* and of the bundles before it nothing, unless a manifest could not be read
\* (publish_agent_files_commit).
THEOREM PublishedBundlesAreClean == PromotionSpec => []PromotionInvariant
<1>1. PromotionIInv => PromotionInvariant
  <2> SUFFICES ASSUME PromotionIInv, branch[Len(branch)].of # NoWinner
               PROVE  /\ FilesOf[branch[Len(branch)].of] \subseteq branch[Len(branch)].files
                      /\ (\A i \in DOMAIN branch : ~branch[i].blind)
                           => branch[Len(branch)].files =
                                FilesOf[branch[Len(branch)].of] \cup (RepoFiles \ Written(Len(branch)))
    BY DEF PromotionIInv, PromotionInvariant, HeadIsOneBundle
  <2>1. Len(branch) \in 2 .. Len(branch) /\ DOMAIN branch = 1 .. Len(branch)
    BY DEF PromotionIInv, BranchInv
  <2> QED BY <2>1 DEF PromotionIInv, BranchInv, TreeInv
<1> QED BY <1>1, PromotionAlways, PTL

\* No publication that landed is ever taken out of the branch's history by another
\* that started from an older head ("force": False).
THEOREM NoPublicationIsLost == PromotionSpec => PublicationsStay
<1>1. PromotionIInv /\ [PromotionNext]_promotionVars => [IsPrefix(branch, branch')]_promotionVars
  <2> SUFFICES ASSUME PromotionIInv, PromotionNext PROVE IsPrefix(branch, branch')
    OBVIOUS
  <2>1. branch \in Seq(Commits)
    BY DEF PromotionIInv, BranchInv
  <2>2. CASE branch' = branch
    BY <2>1, <2>2 DEF IsPrefix
  <2>3. CASE branch' # branch
    <3>1. PICK p \in Publishers : UpdateRef(p)
      BY <2>3 DEF PromotionNext, FetchHead, FetchManifest, PublicationFails
    <3>2. branch' = Append(branch, Commit(p)) /\ Commit(p) \in Commits
      BY <2>3, <3>1, RefMoves
    <3> QED BY <2>1, <3>2 DEF IsPrefix
  <2> QED BY <2>2, <2>3
<1> QED BY <1>1, PromotionAlways, PTL DEF PromotionSpec, PublicationsStay

-----------------------------------------------------------------------------
(* The proxy's router *)

LEMMA RouterParameters ==
  /\ IsFiniteSet(Endpoints) /\ Endpoints # {} /\ Nowhere \notin Endpoints
  /\ IsFiniteSet(Solves) /\ IsFiniteSet(Handlers)
  /\ PromptOf \in [Solves -> Prompts \cup {NoPrompt}]
  /\ MaxAffinities \in Nat \ {0} /\ MaxFailures \in Nat \ {0}
BY UpstreamRouterAssumption

\* A handler holds an endpoint from the acquisition to the adoption or the return, and knows
\* the endpoint to use from the adoption on.
HandlersInv ==
  \A s \in Solves, h \in Handlers :
    /\ Held(s, h) \in Endpoints <=> Step(s, h) \in {"adopt", "give back"}
    /\ Step(s, h) \in {"remember", "give back", "fetch"} => Used(s, h) \in Endpoints

\* While a proxy is on, its handlers that know their endpoint know the proxy's; while it
\* is off, none is at work.
ProxyInv ==
  \A s \in Solves :
    /\ proxy[s] = "off" => routed[s] = Nowhere /\ \A h \in Handlers : Step(s, h) = "idle"
    /\ proxy[s] = "on" =>
         \A h \in Handlers :
           Step(s, h) \in {"remember", "give back", "fetch"} => Used(s, h) = routed[s]

RouterIInv == RouterTypeOK /\ LastEndpointStays /\ LoadIsTrue /\ HandlersInv /\ ProxyInv

\* The record of a handler.
Handling == [step : {"idle", "route", "adopt", "remember", "give back", "fetch"},
             url : Endpoints \cup {Nowhere}, use : Endpoints \cup {Nowhere}]

\* A handler's move is its own.
LEMMA GoesIs ==
  ASSUME RouterTypeOK, NEW s \in Solves, NEW h \in Handlers,
         NEW st \in {"idle", "route", "adopt", "remember", "give back", "fetch"},
         NEW url \in Endpoints \cup {Nowhere}, NEW use \in Endpoints \cup {Nowhere},
         Goes(s, h, st, url, use)
  PROVE  /\ handler' \in [Solves -> [Handlers -> Handling]]
         /\ Step(s, h)' = st /\ Held(s, h)' = url /\ Used(s, h)' = use
         /\ \A r \in Solves, k \in Handlers : r # s \/ k # h => handler'[r][k] = handler[r][k]
<1>1. handler \in [Solves -> [Handlers -> Handling]]
  BY DEF RouterTypeOK, Handling
<1>2. PICK x \in Handling : x = [step |-> st, url |-> url, use |-> use]
  BY DEF Handling
<1>3. handler' = [handler EXCEPT ![s][h] = x]
  BY <1>2 DEF Goes
<1>4. handler' \in [Solves -> [Handlers -> Handling]]
  BY <1>1, <1>3
<1>5. handler'[s][h] = x
  BY <1>1, <1>3
<1>6. \A r \in Solves, k \in Handlers : r # s \/ k # h => handler'[r][k] = handler[r][k]
  BY <1>1, <1>3
<1>7. x.step = st /\ x.url = url /\ x.use = use
  BY <1>2
<1> QED BY <1>4, <1>5, <1>6, <1>7 DEF Step, Held, Used

LEMMA CountsAreFinite ==
  \A e : /\ IsFiniteSet(Holders(e)) /\ Cardinality(Holders(e)) \in Nat
         /\ IsFiniteSet(Hands(e)) /\ Cardinality(Hands(e)) \in Nat
<1> SUFFICES ASSUME NEW e
             PROVE  /\ IsFiniteSet(Holders(e)) /\ Cardinality(Holders(e)) \in Nat
                    /\ IsFiniteSet(Hands(e)) /\ Cardinality(Hands(e)) \in Nat
  OBVIOUS
<1>1. IsFiniteSet(Solves \X Handlers)
  BY RouterParameters, FS_Product
<1>2. Holders(e) \subseteq Solves /\ Hands(e) \subseteq Solves \X Handlers
  BY DEF Holders, Hands
<1> QED BY <1>1, <1>2, RouterParameters, FS_Subset, FS_CardinalityType

\* How the hands on an endpoint change when one handler moves.
LEMMA HandsChange ==
  ASSUME NEW s \in Solves, NEW h \in Handlers,
         \A r \in Solves, k \in Handlers : r # s \/ k # h => handler'[r][k] = handler[r][k],
         NEW e
  PROVE  Cardinality(Hands(e)') =
           Cardinality(Hands(e)) - (IF Held(s, h) = e THEN 1 ELSE 0) + (IF Held(s, h)' = e THEN 1 ELSE 0)
<1>1. PICK U : U = Solves \X Handlers
  OBVIOUS
<1>2. PICK f : f = [x \in U |-> handler[x[1]][x[2]].url]
  OBVIOUS
<1>3. PICK g : g = [x \in U |-> handler'[x[1]][x[2]].url]
  OBVIOUS
<1>4. PICK y : y = <<s, h>>
  OBVIOUS
<1>5. IsFiniteSet(U) /\ y \in U
  BY <1>1, <1>4, RouterParameters, FS_Product
<1>6. \A x \in U \ {y} : g[x] = f[x]
  <2> SUFFICES ASSUME NEW x \in U \ {y} PROVE g[x] = f[x]
    OBVIOUS
  <2>1. x[1] \in Solves /\ x[2] \in Handlers /\ x = <<x[1], x[2]>>
    BY <1>1
  <2>2. x[1] # s \/ x[2] # h
    BY <1>4, <2>1
  <2> QED BY <1>2, <1>3, <2>1, <2>2
<1>7. Cardinality(Members(g, U, {e})) =
        Cardinality(Members(f, U, {e})) - (IF f[y] \in {e} THEN 1 ELSE 0) + (IF g[y] \in {e} THEN 1 ELSE 0)
  BY <1>5, <1>6, MembersChange
<1>8. Members(f, U, {e}) = Hands(e)
  BY <1>1, <1>2 DEF Members, Hands, Held
<1>9. Members(g, U, {e}) = Hands(e)'
  BY <1>1, <1>3 DEF Members, Hands, Held
<1>10. f[y] = Held(s, h) /\ g[y] = Held(s, h)'
  BY <1>2, <1>3, <1>4, <1>5 DEF Held
<1> QED BY <1>7, <1>8, <1>9, <1>10

\* How the holders change when one proxy's endpoint does.
LEMMA HoldersChange ==
  ASSUME RouterTypeOK, NEW s \in Solves, NEW u \in Endpoints \cup {Nowhere}, NEW e \in Endpoints,
         routed' = [routed EXCEPT ![s] = u]
  PROVE  Cardinality(Holders(e)') =
           Cardinality(Holders(e)) - (IF routed[s] = e THEN 1 ELSE 0) + (IF u = e THEN 1 ELSE 0)
<1>1. routed \in [Solves -> Endpoints \cup {Nowhere}]
  BY DEF RouterTypeOK
<1>2. \A x \in Solves \ {s} : routed'[x] = routed[x]
  BY <1>1
<1>3. PICK f, g : f = routed /\ g = routed'
  OBVIOUS
<1>4. \A x \in Solves \ {s} : g[x] = f[x]
  BY <1>2, <1>3
<1>5. Cardinality(Members(g, Solves, {e})) =
        Cardinality(Members(f, Solves, {e})) - (IF f[s] \in {e} THEN 1 ELSE 0) + (IF g[s] \in {e} THEN 1 ELSE 0)
  <2>1. PICK T : T = {e}
    OBVIOUS
  <2>2. IsFiniteSet(Solves)
    BY RouterParameters
  <2>3. Cardinality(Members(g, Solves, T)) =
          Cardinality(Members(f, Solves, T)) - (IF f[s] \in T THEN 1 ELSE 0) + (IF g[s] \in T THEN 1 ELSE 0)
    BY <1>4, <2>2, MembersChange
  <2> QED BY <2>1, <2>3
<1>6. Members(f, Solves, {e}) = Holders(e)
  BY <1>3 DEF Members, Holders
<1>7. Members(g, Solves, {e}) = Holders(e)'
  BY <1>3 DEF Members, Holders
<1>8. f[s] = routed[s] /\ g[s] = u
  BY <1>1, <1>3
<1> QED BY <1>5, <1>6, <1>7, <1>8

\* An endpoint that someone holds has load: its release takes one unit.
LEMMA ReleasedIs ==
  ASSUME RouterTypeOK, NEW e \in Endpoints, inFlight[e] > 0, Released(e)
  PROVE  /\ inFlight' \in [Endpoints -> Nat]
         /\ \A x \in Endpoints : inFlight'[x] = inFlight[x] - (IF x = e THEN 1 ELSE 0)
<1>1. inFlight \in [Endpoints -> Nat]
  BY DEF RouterTypeOK
<1>2. inFlight' = [inFlight EXCEPT ![e] = inFlight[e] - 1]
  BY <1>1 DEF Released
<1> QED BY <1>1, <1>2

\* What a move has to show.
LEMMA HandlersKeep ==
  ASSUME HandlersInv, NEW s \in Solves, NEW h \in Handlers,
         \A r \in Solves, k \in Handlers : r # s \/ k # h => handler'[r][k] = handler[r][k],
         Held(s, h)' \in Endpoints <=> Step(s, h)' \in {"adopt", "give back"},
         Step(s, h)' \in {"remember", "give back", "fetch"} => Used(s, h)' \in Endpoints
  PROVE  HandlersInv'
BY DEF HandlersInv, Step, Held, Used

LEMMA ProxyKeeps ==
  ASSUME ProxyInv, NEW s \in Solves, NEW h \in Handlers,
         \A r \in Solves, k \in Handlers : r # s \/ k # h => handler'[r][k] = handler[r][k],
         proxy' = proxy, routed' = routed, proxy[s] # "off",
         proxy[s] = "on" /\ Step(s, h)' \in {"remember", "give back", "fetch"} => Used(s, h)' = routed[s]
  PROVE  ProxyInv'
<1> SUFFICES ASSUME NEW r \in Solves
             PROVE  /\ proxy[r] = "off" => routed[r] = Nowhere /\ \A k \in Handlers : Step(r, k)' = "idle"
                    /\ proxy[r] = "on" =>
                         \A k \in Handlers :
                           Step(r, k)' \in {"remember", "give back", "fetch"} => Used(r, k)' = routed[r]
  BY DEF ProxyInv
<1>1. \A k \in Handlers : r # s \/ k # h => Step(r, k)' = Step(r, k) /\ Used(r, k)' = Used(r, k)
  BY DEF Step, Used
<1>2. CASE r = s
  BY <1>1, <1>2 DEF ProxyInv
<1>3. CASE r # s
  BY <1>1, <1>3 DEF ProxyInv
<1> QED BY <1>2, <1>3

\* Where nobody takes or returns an endpoint, the load stays.
LEMMA LoadKeeps ==
  ASSUME LoadIsTrue, NEW s \in Solves, NEW h \in Handlers,
         \A r \in Solves, k \in Handlers : r # s \/ k # h => handler'[r][k] = handler[r][k],
         inFlight' = inFlight, routed' = routed,
         Held(s, h) \notin Endpoints, Held(s, h)' \notin Endpoints
  PROVE  LoadIsTrue'
<1> SUFFICES ASSUME NEW e \in Endpoints
             PROVE  inFlight'[e] = Cardinality(Holders(e)') + Cardinality(Hands(e)')
  BY DEF LoadIsTrue
<1>1. Cardinality(Hands(e)') =
        Cardinality(Hands(e)) - (IF Held(s, h) = e THEN 1 ELSE 0) + (IF Held(s, h)' = e THEN 1 ELSE 0)
  BY HandsChange
<1>2. Held(s, h) # e /\ Held(s, h)' # e
  OBVIOUS
<1>3. Cardinality(Hands(e)') = Cardinality(Hands(e))
  BY <1>1, <1>2, CountsAreFinite
<1>4. Holders(e)' = Holders(e)
  BY DEF Holders
<1> QED BY <1>3, <1>4 DEF LoadIsTrue

LEMMA RouterStarts == RouterInit => RouterIInv
<1> SUFFICES ASSUME RouterInit PROVE RouterIInv
  OBVIOUS
<1>1. RouterTypeOK
  <2>1. <<>> \in Seq((Prompts \cup {NoPrompt}) \X Endpoints) /\ Len(<<>>) = 0
    BY EmptySeq
  <2>2. Parked \in Handling
    BY DEF Parked, Handling
  <2>3. handler \in [Solves -> [Handlers -> Handling]]
    BY <2>2 DEF RouterInit
  <2>4. affinities \in Seq((Prompts \cup {NoPrompt}) \X Endpoints) /\ Len(affinities) <= MaxAffinities
    BY <2>1, RouterParameters DEF RouterInit
  <2>5. /\ inFlight \in [Endpoints -> Nat] /\ failures \in [Endpoints -> 0 .. MaxFailures]
        /\ disabled \subseteq Endpoints /\ file \subseteq Endpoints /\ configured \subseteq Endpoints
        /\ proxy \in [Solves -> {"off", "on", "stopped"}]
        /\ routed \in [Solves -> Endpoints \cup {Nowhere}]
    BY RouterParameters DEF RouterInit
  <2> QED BY <2>3, <2>4, <2>5 DEF RouterTypeOK, Handling
<1>2. LastEndpointStays
  BY RouterParameters DEF RouterInit, LastEndpointStays, Shunned
<1>3. LoadIsTrue
  <2> SUFFICES ASSUME NEW e \in Endpoints PROVE inFlight[e] = Cardinality(Holders(e)) + Cardinality(Hands(e))
    BY DEF LoadIsTrue
  <2>1. Holders(e) = {} /\ Hands(e) = {}
    BY RouterParameters DEF RouterInit, Holders, Hands, Held, Parked
  <2> QED BY <2>1, FS_EmptySet DEF RouterInit
<1>4. HandlersInv /\ ProxyInv
  BY RouterParameters DEF RouterInit, HandlersInv, ProxyInv, Step, Held, Used, Parked
<1> QED BY <1>1, <1>2, <1>3, <1>4 DEF RouterIInv

\* What does not move handlers, endpoints of proxies or load.
LEMMA RestKeeps ==
  ASSUME LoadIsTrue, HandlersInv, UNCHANGED <<inFlight, routed, handler>>
  PROVE  LoadIsTrue' /\ HandlersInv'
<1>1. \A e : Holders(e)' = Holders(e)
  BY DEF Holders
<1>2. \A e : Hands(e)' = Hands(e)
  BY DEF Hands, Held
<1>3. LoadIsTrue'
  <2> SUFFICES ASSUME NEW e \in Endpoints PROVE inFlight'[e] = Cardinality(Holders(e)') + Cardinality(Hands(e)')
    BY DEF LoadIsTrue
  <2>1. Holders(e)' = Holders(e) /\ Hands(e)' = Hands(e)
    BY <1>1, <1>2
  <2> QED BY <2>1 DEF LoadIsTrue
<1>4. HandlersInv'
  BY DEF HandlersInv, Held, Used, Step
<1> QED BY <1>3, <1>4

LEMMA StartProxyStep ==
  ASSUME RouterIInv, NEW s \in Solves, StartProxy(s)
  PROVE  RouterIInv'
<1>1. RouterTypeOK'
  BY DEF RouterIInv, RouterTypeOK, StartProxy, lists
<1>2. LastEndpointStays' /\ LoadIsTrue' /\ HandlersInv'
  BY RestKeeps DEF RouterIInv, LastEndpointStays, Shunned, StartProxy, lists
<1>3. ProxyInv'
  <2>1. proxy \in [Solves -> {"off", "on", "stopped"}]
    BY DEF RouterIInv, RouterTypeOK
  <2> QED BY <2>1 DEF RouterIInv, ProxyInv, StartProxy, Step, Used
<1> QED BY <1>1, <1>2, <1>3 DEF RouterIInv

LEMMA RequestStep ==
  ASSUME RouterIInv, NEW s \in Solves, NEW h \in Handlers, Request(s, h)
  PROVE  RouterIInv'
<1>1. PICK st, use : /\ Goes(s, h, st, Nowhere, use)
                     /\ \/ st = "fetch" /\ use = routed[s] /\ use # Nowhere
                        \/ st = "route" /\ use = Nowhere
  BY DEF Request
<1>2. use \in Endpoints \cup {Nowhere}
  BY <1>1 DEF RouterIInv, RouterTypeOK
<1>3. /\ handler' \in [Solves -> [Handlers -> Handling]]
      /\ Step(s, h)' = st /\ Held(s, h)' = Nowhere /\ Used(s, h)' = use
      /\ \A r \in Solves, k \in Handlers : r # s \/ k # h => handler'[r][k] = handler[r][k]
  <2>1. RouterTypeOK /\ Nowhere \in Endpoints \cup {Nowhere}
    BY DEF RouterIInv
  <2>2. st \in {"idle", "route", "adopt", "remember", "give back", "fetch"}
    BY <1>1
  <2> QED BY <1>1, <1>2, <2>1, <2>2, GoesIs
<1>4. RouterTypeOK'
  BY <1>3 DEF RouterIInv, RouterTypeOK, Handling, Request, lists
<1>5. LastEndpointStays'
  BY DEF RouterIInv, LastEndpointStays, Shunned, Request, lists
<1>6. Held(s, h) \notin Endpoints
  BY DEF RouterIInv, HandlersInv, Request
<1>7. LoadIsTrue'
  BY <1>3, <1>6, RouterParameters, LoadKeeps DEF RouterIInv, Request
<1>8. HandlersInv'
  BY <1>1, <1>2, <1>3, RouterParameters, HandlersKeep DEF RouterIInv
<1>9. ProxyInv'
  BY <1>1, <1>3, ProxyKeeps DEF RouterIInv, Request
<1> QED BY <1>4, <1>5, <1>7, <1>8, <1>9 DEF RouterIInv

\* Whatever the router selects is an endpoint.
LEMMA SelectableAre ==
  ASSUME RouterTypeOK, NEW candidates \in CandidateSets, NEW p, NEW e \in Selectable(p, candidates)
  PROVE  e \in Endpoints
<1>1. candidates \subseteq Endpoints
  BY DEF RouterTypeOK, CandidateSets, OrAll, Enabled
<1> QED BY <1>1 DEF Selectable, OrAll, Preferred, LeastLoaded

\* The affinities stay a bounded list of entries.
AffinitiesOK == affinities \in Seq((Prompts \cup {NoPrompt}) \X Endpoints) /\ Len(affinities) <= MaxAffinities

LEMMA RefreshedIs ==
  ASSUME RouterTypeOK, NEW p \in Prompts \cup {NoPrompt}, NEW e \in Endpoints, NEW candidates
  PROVE  /\ Refreshed(p, e, candidates) \in Seq((Prompts \cup {NoPrompt}) \X Endpoints)
         /\ Len(Refreshed(p, e, candidates)) <= MaxAffinities
<1>1. PICK E : E = (Prompts \cup {NoPrompt}) \X Endpoints
  OBVIOUS
<1>2. affinities \in Seq(E) /\ Len(affinities) <= MaxAffinities /\ Len(affinities) \in Nat
  <2>1. affinities \in Seq((Prompts \cup {NoPrompt}) \X Endpoints) /\ Len(affinities) <= MaxAffinities
    BY DEF RouterTypeOK
  <2>2. affinities \in Seq(E)
    BY <1>1, <2>1
  <2> QED BY <2>1, <2>2
<1>3. CASE e \notin Preferred(p, candidates)
  BY <1>1, <1>2, <1>3 DEF Refreshed
<1>4. CASE e \in Preferred(p, candidates)
  <2>1. PICK i \in DOMAIN affinities : affinities[i] = <<p, e>>
    BY <1>4 DEF Preferred
  <2>2. affinities[i] \in EntriesOf(p)
    BY <2>1 DEF EntriesOf
  <2>3. PICK w : w = Without(affinities, EntriesOf(p))
    OBVIOUS
  <2>4. w \in Seq(E)
    BY <1>2, <2>3, WithoutLeaves
  <2>5. Len(w) < Len(affinities)
    BY <1>2, <2>1, <2>2, <2>3, WithoutShortens
  <2>6. <<p, e>> \in E
    BY <1>1
  <2>7. Append(w, <<p, e>>) \in Seq(E) /\ Len(Append(w, <<p, e>>)) = Len(w) + 1
    BY <2>4, <2>6, AppendProperties
  <2>8. Len(w) \in Nat
    BY <2>4
  <2>9. Len(w) + 1 <= MaxAffinities
    BY <1>2, <2>5, <2>8, RouterParameters
  <2>10. Refreshed(p, e, candidates) = Append(w, <<p, e>>)
    BY <1>4, <2>3 DEF Refreshed
  <2> QED BY <1>1, <2>7, <2>9, <2>10
<1> QED BY <1>3, <1>4

LEMMA RememberedIs ==
  ASSUME RouterTypeOK, NEW p \in Prompts \cup {NoPrompt}, NEW e \in Endpoints
  PROVE  /\ Remembered(p, e) \in Seq((Prompts \cup {NoPrompt}) \X Endpoints)
         /\ Len(Remembered(p, e)) <= MaxAffinities
<1>1. PICK E : E = (Prompts \cup {NoPrompt}) \X Endpoints
  OBVIOUS
<1>2. affinities \in Seq(E) /\ Len(affinities) <= MaxAffinities /\ Len(affinities) \in Nat
  <2>1. affinities \in Seq((Prompts \cup {NoPrompt}) \X Endpoints) /\ Len(affinities) <= MaxAffinities
    BY DEF RouterTypeOK
  <2>2. affinities \in Seq(E)
    BY <1>1, <2>1
  <2> QED BY <2>1, <2>2
<1>3. PICK room : room = IF Len(affinities) >= MaxAffinities THEN Tail(affinities) ELSE affinities
  OBVIOUS
<1>4. room \in Seq(E) /\ Len(room) + 1 <= MaxAffinities
  <2>1. CASE Len(affinities) >= MaxAffinities
    <3>1. affinities # <<>>
      BY <1>2, <2>1, RouterParameters
    <3>2. Tail(affinities) \in Seq(E) /\ Len(Tail(affinities)) = Len(affinities) - 1
      BY <1>2, <3>1
    <3> QED BY <1>2, <1>3, <2>1, <3>2, RouterParameters
  <2>2. CASE ~(Len(affinities) >= MaxAffinities)
    BY <1>2, <1>3, <2>2, RouterParameters
  <2> QED BY <2>1, <2>2
<1>5. PICK w : w = Without(room, EntriesOf(p))
  OBVIOUS
<1>6. w \in Seq(E) /\ Len(w) <= Len(room)
  BY <1>4, <1>5, WithoutLeaves
<1>7. <<p, e>> \in E
  BY <1>1
<1>8. Append(w, <<p, e>>) \in Seq(E) /\ Len(Append(w, <<p, e>>)) = Len(w) + 1
  BY <1>6, <1>7, AppendProperties
<1>9. Len(w) \in Nat /\ Len(room) \in Nat
  BY <1>4, <1>6
<1>10. Len(w) + 1 <= MaxAffinities
  BY <1>4, <1>6, <1>9, RouterParameters
<1>11. Remembered(p, e) = Append(w, <<p, e>>)
  BY <1>3, <1>5 DEF Remembered
<1> QED BY <1>1, <1>8, <1>10, <1>11

LEMMA AcquireStep ==
  ASSUME RouterIInv, NEW s \in Solves, NEW h \in Handlers, Acquire(s, h)
  PROVE  RouterIInv'
<1>1. PICK candidates \in CandidateSets : \E e \in Selectable(PromptOf[s], candidates) :
         /\ inFlight' = [inFlight EXCEPT ![e] = @ + 1]
         /\ affinities' = Refreshed(PromptOf[s], e, candidates)
         /\ Goes(s, h, "adopt", e, Nowhere)
  BY DEF Acquire
<1>2. PICK e \in Endpoints :
         /\ inFlight' = [inFlight EXCEPT ![e] = @ + 1]
         /\ affinities' = Refreshed(PromptOf[s], e, candidates)
         /\ Goes(s, h, "adopt", e, Nowhere)
  BY <1>1, SelectableAre DEF RouterIInv
<1>3. /\ handler' \in [Solves -> [Handlers -> Handling]]
      /\ Step(s, h)' = "adopt" /\ Held(s, h)' = e /\ Used(s, h)' = Nowhere
      /\ \A r \in Solves, k \in Handlers : r # s \/ k # h => handler'[r][k] = handler[r][k]
  BY <1>2, GoesIs DEF RouterIInv
<1>4. PromptOf[s] \in Prompts \cup {NoPrompt}
  BY RouterParameters
<1>5. AffinitiesOK'
  BY <1>2, <1>4, RefreshedIs DEF RouterIInv, AffinitiesOK
<1>6. inFlight \in [Endpoints -> Nat]
  BY DEF RouterIInv, RouterTypeOK
<1>7. inFlight' \in [Endpoints -> Nat] /\ \A x \in Endpoints : inFlight'[x] = inFlight[x] + (IF x = e THEN 1 ELSE 0)
  BY <1>2, <1>6
<1>8. RouterTypeOK'
  BY <1>3, <1>5, <1>7 DEF RouterIInv, RouterTypeOK, Handling, AffinitiesOK, Acquire, lists
<1>9. LastEndpointStays'
  BY DEF RouterIInv, LastEndpointStays, Shunned, Acquire, lists
<1>10. LoadIsTrue'
  <2> SUFFICES ASSUME NEW x \in Endpoints
               PROVE  inFlight'[x] = Cardinality(Holders(x)') + Cardinality(Hands(x)')
    BY DEF LoadIsTrue
  <2>1. Cardinality(Hands(x)') =
          Cardinality(Hands(x)) - (IF Held(s, h) = x THEN 1 ELSE 0) + (IF Held(s, h)' = x THEN 1 ELSE 0)
    BY <1>3, HandsChange
  <2>2. Held(s, h) # x
    BY DEF RouterIInv, HandlersInv, Acquire
  <2>3. Holders(x)' = Holders(x)
    BY DEF Holders, Acquire
  <2>4. inFlight[x] = Cardinality(Holders(x)) + Cardinality(Hands(x))
    BY DEF RouterIInv, LoadIsTrue
  <2>5. Cardinality(Hands(x)) \in Nat /\ Cardinality(Holders(x)) \in Nat
    BY CountsAreFinite
  <2> QED BY <1>3, <1>7, <2>1, <2>2, <2>3, <2>4, <2>5
<1>11. HandlersInv'
  BY <1>3, HandlersKeep DEF RouterIInv
<1>12. ProxyInv'
  BY <1>3, ProxyKeeps DEF RouterIInv, ProxyInv, Acquire
<1> QED BY <1>8, <1>9, <1>10, <1>11, <1>12 DEF RouterIInv

LEMMA AdoptStep ==
  ASSUME RouterIInv, NEW s \in Solves, NEW h \in Handlers, Adopt(s, h)
  PROVE  RouterIInv'
<1>1. Step(s, h) = "adopt" /\ Held(s, h) \in Endpoints /\ Held(s, h) # Nowhere
  BY RouterParameters DEF RouterIInv, HandlersInv, Adopt
<1>2. routed \in [Solves -> Endpoints \cup {Nowhere}]
  BY DEF RouterIInv, RouterTypeOK
<1>3. proxy[s] # "off"
  BY <1>1 DEF RouterIInv, ProxyInv
<1>4. LastEndpointStays'
  BY DEF RouterIInv, LastEndpointStays, Shunned, Adopt, lists
<1>5. CASE routed[s] = Nowhere
  <2>1. PICK e \in Endpoints : e = Held(s, h)
    BY <1>1
  <2>2. routed' = [routed EXCEPT ![s] = e] /\ Goes(s, h, "remember", Nowhere, e)
    BY <1>5, <2>1 DEF Adopt
  <2>3. /\ handler' \in [Solves -> [Handlers -> Handling]]
        /\ Step(s, h)' = "remember" /\ Held(s, h)' = Nowhere /\ Used(s, h)' = e
        /\ \A r \in Solves, k \in Handlers : r # s \/ k # h => handler'[r][k] = handler[r][k]
    BY <2>2, GoesIs DEF RouterIInv
  <2>4. routed' \in [Solves -> Endpoints \cup {Nowhere}] /\ routed'[s] = e
        /\ \A r \in Solves : r # s => routed'[r] = routed[r]
    BY <1>2, <2>2
  <2>5. RouterTypeOK'
    BY <2>3, <2>4 DEF RouterIInv, RouterTypeOK, Handling, Adopt, lists
  <2>6. LoadIsTrue'
    <3> SUFFICES ASSUME NEW x \in Endpoints
                 PROVE  inFlight'[x] = Cardinality(Holders(x)') + Cardinality(Hands(x)')
      BY DEF LoadIsTrue
    <3>1. Cardinality(Hands(x)') =
            Cardinality(Hands(x)) - (IF Held(s, h) = x THEN 1 ELSE 0) + (IF Held(s, h)' = x THEN 1 ELSE 0)
      BY <2>3, HandsChange
    <3>2. Cardinality(Holders(x)') =
            Cardinality(Holders(x)) - (IF routed[s] = x THEN 1 ELSE 0) + (IF e = x THEN 1 ELSE 0)
      <4>1. RouterTypeOK /\ routed' = [routed EXCEPT ![s] = e]
        BY <2>2 DEF RouterIInv
      <4> QED BY <4>1, HoldersChange
    <3>3. routed[s] # x /\ Held(s, h)' # x
      BY <1>5, <2>3, RouterParameters
    <3>4. inFlight'[x] = Cardinality(Holders(x)) + Cardinality(Hands(x))
      BY DEF RouterIInv, LoadIsTrue, Adopt
    <3>5. Cardinality(Hands(x)) \in Nat /\ Cardinality(Holders(x)) \in Nat
      BY CountsAreFinite
    <3> QED BY <2>1, <3>1, <3>2, <3>3, <3>4, <3>5
  <2>7. HandlersInv'
    BY <2>3, RouterParameters, HandlersKeep DEF RouterIInv
  <2>8. ProxyInv'
    <3> SUFFICES ASSUME NEW r \in Solves
                 PROVE  /\ proxy'[r] = "off" => routed'[r] = Nowhere /\ \A k \in Handlers : Step(r, k)' = "idle"
                        /\ proxy'[r] = "on" =>
                             \A k \in Handlers :
                               Step(r, k)' \in {"remember", "give back", "fetch"} => Used(r, k)' = routed'[r]
      BY DEF ProxyInv
    <3>1. proxy' = proxy
      BY DEF Adopt
    <3>2. \A k \in Handlers : r # s \/ k # h => Step(r, k)' = Step(r, k) /\ Used(r, k)' = Used(r, k)
      BY <2>3 DEF Step, Used
    <3>3. CASE r = s
      <4>1. proxy[s] = "on" => \A k \in Handlers : Step(s, k) \notin {"remember", "give back", "fetch"}
        BY <1>5, RouterParameters DEF RouterIInv, ProxyInv, HandlersInv
      <4> QED BY <1>3, <2>3, <2>4, <3>1, <3>2, <3>3, <4>1
    <3>4. CASE r # s
      BY <2>4, <3>1, <3>2, <3>4 DEF RouterIInv, ProxyInv
    <3> QED BY <3>3, <3>4
  <2> QED BY <1>4, <2>5, <2>6, <2>7, <2>8 DEF RouterIInv
<1>6. CASE routed[s] # Nowhere
  <2>1. PICK e \in Endpoints : e = Held(s, h)
    BY <1>1
  <2>2. PICK u \in Endpoints : u = routed[s]
    BY <1>2, <1>6
  <2>3. routed' = routed /\ Goes(s, h, "give back", e, u)
    BY <1>6, <2>1, <2>2 DEF Adopt
  <2>4. /\ handler' \in [Solves -> [Handlers -> Handling]]
        /\ Step(s, h)' = "give back" /\ Held(s, h)' = e /\ Used(s, h)' = u
        /\ \A r \in Solves, k \in Handlers : r # s \/ k # h => handler'[r][k] = handler[r][k]
    BY <2>3, GoesIs DEF RouterIInv
  <2>5. RouterTypeOK'
    BY <2>3, <2>4 DEF RouterIInv, RouterTypeOK, Handling, Adopt, lists
  <2>6. LoadIsTrue'
    <3> SUFFICES ASSUME NEW x \in Endpoints
                 PROVE  inFlight'[x] = Cardinality(Holders(x)') + Cardinality(Hands(x)')
      BY DEF LoadIsTrue
    <3>1. Cardinality(Hands(x)') =
            Cardinality(Hands(x)) - (IF Held(s, h) = x THEN 1 ELSE 0) + (IF Held(s, h)' = x THEN 1 ELSE 0)
      BY <2>4, HandsChange
    <3>2. Holders(x)' = Holders(x)
      BY <2>3 DEF Holders
    <3>3. inFlight'[x] = Cardinality(Holders(x)) + Cardinality(Hands(x))
      BY DEF RouterIInv, LoadIsTrue, Adopt
    <3>4. Cardinality(Hands(x)) \in Nat
      BY CountsAreFinite
    <3>5. Cardinality(Hands(x)') = Cardinality(Hands(x))
      <4>1. Held(s, h) = e /\ Held(s, h)' = e
        BY <2>1, <2>4
      <4>2. CASE e = x
        BY <3>1, <3>4, <4>1, <4>2
      <4>3. CASE e # x
        BY <3>1, <3>4, <4>1, <4>3
      <4> QED BY <4>2, <4>3
    <3> QED BY <3>2, <3>3, <3>5
  <2>7. HandlersInv'
    BY <2>4, HandlersKeep DEF RouterIInv
  <2>8. ProxyInv'
    BY <1>3, <2>2, <2>3, <2>4, ProxyKeeps DEF RouterIInv, Adopt
  <2> QED BY <1>4, <2>5, <2>6, <2>7, <2>8 DEF RouterIInv
<1> QED BY <1>5, <1>6

LEMMA RememberStep ==
  ASSUME RouterIInv, NEW s \in Solves, NEW h \in Handlers, Remember(s, h)
  PROVE  RouterIInv'
<1>1. PICK u \in Endpoints : u = Used(s, h)
  BY DEF RouterIInv, HandlersInv, Remember
<1>2. Goes(s, h, "fetch", Nowhere, u)
  BY <1>1 DEF Remember
<1>3. /\ handler' \in [Solves -> [Handlers -> Handling]]
      /\ Step(s, h)' = "fetch" /\ Held(s, h)' = Nowhere /\ Used(s, h)' = u
      /\ \A r \in Solves, k \in Handlers : r # s \/ k # h => handler'[r][k] = handler[r][k]
  BY <1>2, GoesIs DEF RouterIInv
<1>4. AffinitiesOK'
  <2>1. PromptOf[s] \in Prompts \cup {NoPrompt}
    BY RouterParameters
  <2>2. AffinitiesOK
    BY DEF RouterIInv, RouterTypeOK, AffinitiesOK
  <2>3. affinities' = affinities \/ affinities' = Remembered(PromptOf[s], u)
    BY <1>1 DEF Remember
  <2> QED BY <2>1, <2>2, <2>3, RememberedIs DEF RouterIInv, AffinitiesOK
<1>5. RouterTypeOK'
  BY <1>3, <1>4 DEF RouterIInv, RouterTypeOK, Handling, AffinitiesOK, Remember, lists
<1>6. LastEndpointStays'
  BY DEF RouterIInv, LastEndpointStays, Shunned, Remember, lists
<1>7. Held(s, h) \notin Endpoints
  BY DEF RouterIInv, HandlersInv, Remember
<1>8. LoadIsTrue'
  BY <1>3, <1>7, RouterParameters, LoadKeeps DEF RouterIInv, Remember
<1>9. HandlersInv'
  BY <1>3, RouterParameters, HandlersKeep DEF RouterIInv
<1>10. ProxyInv'
  <2>1. ProxyInv /\ proxy[s] # "off" /\ (proxy[s] = "on" => u = routed[s])
    BY <1>1 DEF RouterIInv, ProxyInv, Remember
  <2>2. proxy' = proxy /\ routed' = routed
    BY DEF Remember
  <2> QED BY <1>3, <2>1, <2>2, ProxyKeeps
<1> QED BY <1>5, <1>6, <1>8, <1>9, <1>10 DEF RouterIInv

LEMMA GiveBackStep ==
  ASSUME RouterIInv, NEW s \in Solves, NEW h \in Handlers, GiveBack(s, h)
  PROVE  RouterIInv'
<1>1. PICK u \in Endpoints : u = Used(s, h)
  BY DEF RouterIInv, HandlersInv, GiveBack
<1>2. PICK e \in Endpoints : e = Held(s, h)
  BY DEF RouterIInv, HandlersInv, GiveBack
<1>3. Goes(s, h, "fetch", Nowhere, u) /\ Released(e)
  BY <1>1, <1>2 DEF GiveBack
<1>4. /\ handler' \in [Solves -> [Handlers -> Handling]]
      /\ Step(s, h)' = "fetch" /\ Held(s, h)' = Nowhere /\ Used(s, h)' = u
      /\ \A r \in Solves, k \in Handlers : r # s \/ k # h => handler'[r][k] = handler[r][k]
  BY <1>3, GoesIs DEF RouterIInv
<1>5. Cardinality(Hands(e)) > 0
  <2>1. <<s, h>> \in Hands(e)
    BY <1>2 DEF Hands
  <2>2. Cardinality(Hands(e)) # 0
    BY <2>1, CountsAreFinite, FS_EmptySet
  <2> QED BY <2>2, CountsAreFinite
<1>6. inFlight[e] > 0
  BY <1>5, CountsAreFinite DEF RouterIInv, LoadIsTrue
<1>7. inFlight' \in [Endpoints -> Nat] /\ \A x \in Endpoints : inFlight'[x] = inFlight[x] - (IF x = e THEN 1 ELSE 0)
  BY <1>3, <1>6, ReleasedIs DEF RouterIInv
<1>8. RouterTypeOK'
  BY <1>4, <1>7 DEF RouterIInv, RouterTypeOK, Handling, GiveBack, lists
<1>9. LastEndpointStays'
  BY DEF RouterIInv, LastEndpointStays, Shunned, GiveBack, lists
<1>10. LoadIsTrue'
  <2> SUFFICES ASSUME NEW x \in Endpoints
               PROVE  inFlight'[x] = Cardinality(Holders(x)') + Cardinality(Hands(x)')
    BY DEF LoadIsTrue
  <2>1. Cardinality(Hands(x)') =
          Cardinality(Hands(x)) - (IF Held(s, h) = x THEN 1 ELSE 0) + (IF Held(s, h)' = x THEN 1 ELSE 0)
    BY <1>4, HandsChange
  <2>2. Held(s, h)' # x
    BY <1>4, RouterParameters
  <2>3. Holders(x)' = Holders(x)
    BY DEF Holders, GiveBack
  <2>4. inFlight[x] = Cardinality(Holders(x)) + Cardinality(Hands(x))
    BY DEF RouterIInv, LoadIsTrue
  <2>5. Cardinality(Hands(x)) \in Nat /\ Cardinality(Holders(x)) \in Nat
    BY CountsAreFinite
  <2> QED BY <1>2, <1>7, <2>1, <2>2, <2>3, <2>4, <2>5
<1>11. HandlersInv'
  BY <1>4, RouterParameters, HandlersKeep DEF RouterIInv
<1>12. ProxyInv'
  <2>1. ProxyInv /\ proxy[s] # "off" /\ (proxy[s] = "on" => u = routed[s])
    BY <1>1 DEF RouterIInv, ProxyInv, GiveBack
  <2>2. proxy' = proxy /\ routed' = routed
    BY DEF GiveBack
  <2> QED BY <1>4, <2>1, <2>2, ProxyKeeps
<1> QED BY <1>8, <1>9, <1>10, <1>11, <1>12 DEF RouterIInv

\* An endpoint is only disabled while another one is enabled.
LEMMA AnswerLeavesOne ==
  ASSUME LastEndpointStays, NEW s \in Solves, NEW h \in Handlers, Answer(s, h)
  PROVE  LastEndpointStays'
<1>1. configured' = configured
  BY DEF Answer
<1>2. CASE disabled' = disabled /\ file' = file
  BY <1>1, <1>2 DEF LastEndpointStays, Shunned
<1>3. CASE /\ MayDisable(Used(s, h)) /\ disabled' = disabled \cup {Used(s, h)}
           /\ file' \in {file, file \cup {Used(s, h)}}
  <2>1. PICK e : e = Used(s, h)
    OBVIOUS
  <2>2. Shunned' = Shunned \cup {e}
    BY <1>3, <2>1 DEF Shunned
  <2>3. ~(configured \ Shunned \subseteq {e} /\ e \notin Shunned)
    BY <1>3, <2>1 DEF MayDisable
  <2>4. configured \ (Shunned \cup {e}) # {}
    BY <2>3 DEF LastEndpointStays
  <2> QED BY <1>1, <2>2, <2>4 DEF LastEndpointStays
<1> QED BY <1>2, <1>3 DEF Answer

LEMMA AnswerStep ==
  ASSUME RouterIInv, NEW s \in Solves, NEW h \in Handlers, Answer(s, h)
  PROVE  RouterIInv'
<1>1. PICK e \in Endpoints : e = Used(s, h)
  BY DEF RouterIInv, HandlersInv, Answer
<1>2. Goes(s, h, "idle", Nowhere, Nowhere)
  BY DEF Answer
<1>3. /\ handler' \in [Solves -> [Handlers -> Handling]]
      /\ Step(s, h)' = "idle" /\ Held(s, h)' = Nowhere /\ Used(s, h)' = Nowhere
      /\ \A r \in Solves, k \in Handlers : r # s \/ k # h => handler'[r][k] = handler[r][k]
  BY <1>2, GoesIs DEF RouterIInv
<1>4. failures' \in [Endpoints -> 0 .. MaxFailures]
  <2>1. failures \in [Endpoints -> 0 .. MaxFailures]
    BY DEF RouterIInv, RouterTypeOK
  <2>2. \/ failures' = [failures EXCEPT ![e] = 0]
        \/ failures' = [failures EXCEPT ![e] = IF @ < MaxFailures THEN @ + 1 ELSE @]
        \/ failures' = failures
    BY <1>1 DEF Answer
  <2> QED BY <2>1, <2>2, RouterParameters
<1>5. AffinitiesOK'
  <2>1. PICK E : E = (Prompts \cup {NoPrompt}) \X Endpoints
    OBVIOUS
  <2>2. affinities \in Seq(E) /\ Len(affinities) <= MaxAffinities /\ Len(affinities) \in Nat
    <3>1. affinities \in Seq((Prompts \cup {NoPrompt}) \X Endpoints) /\ Len(affinities) <= MaxAffinities
      BY DEF RouterIInv, RouterTypeOK
    <3>2. affinities \in Seq(E)
      BY <2>1, <3>1
    <3> QED BY <3>1, <3>2
  <2>3. PICK w : w = Without(affinities, EntriesTo(e))
    OBVIOUS
  <2>4. w \in Seq(E) /\ Len(w) <= Len(affinities)
    BY <2>2, <2>3, WithoutLeaves
  <2>5. Len(w) \in Nat
    BY <2>4
  <2>6. Len(w) <= MaxAffinities
    BY <2>2, <2>4, <2>5, RouterParameters
  <2>7. affinities' = affinities \/ affinities' = w
    BY <1>1, <2>3 DEF Answer
  <2>8. affinities' \in Seq(E) /\ Len(affinities') <= MaxAffinities
    BY <2>2, <2>4, <2>6, <2>7
  <2> QED BY <2>1, <2>8 DEF AffinitiesOK
<1>6. disabled' \subseteq Endpoints /\ file' \subseteq Endpoints
  BY <1>1 DEF RouterIInv, RouterTypeOK, Answer
<1>7. RouterTypeOK'
  BY <1>3, <1>4, <1>5, <1>6 DEF RouterIInv, RouterTypeOK, Handling, AffinitiesOK, Answer
<1>8. LastEndpointStays'
  BY AnswerLeavesOne DEF RouterIInv
<1>9. Held(s, h) \notin Endpoints
  BY DEF RouterIInv, HandlersInv, Answer
<1>10. LoadIsTrue'
  <2>1. LoadIsTrue /\ inFlight' = inFlight /\ routed' = routed /\ Held(s, h)' \notin Endpoints
    BY <1>3, RouterParameters DEF RouterIInv, Answer
  <2> QED BY <1>3, <1>9, <2>1, LoadKeeps
<1>11. HandlersInv'
  <2>1. HandlersInv /\ Held(s, h)' \notin Endpoints /\ Step(s, h)' \notin {"adopt", "give back", "remember", "fetch"}
    BY <1>3, RouterParameters DEF RouterIInv
  <2> QED BY <1>3, <2>1, HandlersKeep
<1>12. ProxyInv'
  BY <1>3, ProxyKeeps DEF RouterIInv, ProxyInv, Answer
<1> QED BY <1>7, <1>8, <1>10, <1>11, <1>12 DEF RouterIInv

LEMMA StopProxyStep ==
  ASSUME RouterIInv, NEW s \in Solves, StopProxy(s)
  PROVE  RouterIInv'
<1>1. routed \in [Solves -> Endpoints \cup {Nowhere}] /\ proxy \in [Solves -> {"off", "on", "stopped"}]
  BY DEF RouterIInv, RouterTypeOK
<1>2. routed' = [routed EXCEPT ![s] = Nowhere] /\ proxy' = [proxy EXCEPT ![s] = "stopped"] /\ handler' = handler
  BY DEF StopProxy
<1>3. /\ routed' \in [Solves -> Endpoints \cup {Nowhere}] /\ proxy' \in [Solves -> {"off", "on", "stopped"}]
      /\ proxy'[s] = "stopped" /\ \A r \in Solves : r # s => routed'[r] = routed[r] /\ proxy'[r] = proxy[r]
  BY <1>1, <1>2
<1>4. inFlight \in [Endpoints -> Nat]
  BY DEF RouterIInv, RouterTypeOK
<1>5. /\ inFlight' \in [Endpoints -> Nat]
      /\ \A x \in Endpoints : inFlight'[x] = inFlight[x] - (IF routed[s] = x THEN 1 ELSE 0)
  <2>1. CASE routed[s] = Nowhere
    <3>1. inFlight' = inFlight /\ \A x \in Endpoints : routed[s] # x
      BY <2>1, RouterParameters DEF StopProxy
    <3> QED BY <1>4, <3>1
  <2>2. CASE routed[s] # Nowhere
    <3>1. PICK e \in Endpoints : e = routed[s]
      BY <1>1, <2>2
    <3>2. Released(e)
      BY <2>2, <3>1 DEF StopProxy
    <3>3. Cardinality(Holders(e)) > 0
      <4>1. s \in Holders(e)
        BY <3>1 DEF Holders
      <4>2. Cardinality(Holders(e)) # 0
        BY <4>1, CountsAreFinite, FS_EmptySet
      <4> QED BY <4>2, CountsAreFinite
    <3>4. inFlight[e] > 0
      BY <3>3, CountsAreFinite DEF RouterIInv, LoadIsTrue
    <3> QED BY <3>1, <3>2, <3>4, ReleasedIs DEF RouterIInv
  <2> QED BY <2>1, <2>2
<1>6. RouterTypeOK'
  BY <1>3, <1>5 DEF RouterIInv, RouterTypeOK, StopProxy, lists
<1>7. LastEndpointStays' /\ HandlersInv'
  BY DEF RouterIInv, LastEndpointStays, Shunned, HandlersInv, Held, Used, Step, StopProxy, lists
<1>8. LoadIsTrue'
  <2> SUFFICES ASSUME NEW x \in Endpoints
               PROVE  inFlight'[x] = Cardinality(Holders(x)') + Cardinality(Hands(x)')
    BY DEF LoadIsTrue
  <2>1. Cardinality(Holders(x)') =
          Cardinality(Holders(x)) - (IF routed[s] = x THEN 1 ELSE 0) + (IF Nowhere = x THEN 1 ELSE 0)
    <3>1. RouterTypeOK /\ routed' = [routed EXCEPT ![s] = Nowhere]
      BY <1>2 DEF RouterIInv
    <3> QED BY <3>1, HoldersChange
  <2>2. Nowhere # x
    BY RouterParameters
  <2>3. Hands(x)' = Hands(x)
    BY <1>2 DEF Hands, Held
  <2>4. inFlight[x] = Cardinality(Holders(x)) + Cardinality(Hands(x))
    BY DEF RouterIInv, LoadIsTrue
  <2>5. Cardinality(Hands(x)) \in Nat /\ Cardinality(Holders(x)) \in Nat
    BY CountsAreFinite
  <2> QED BY <1>5, <2>1, <2>2, <2>3, <2>4, <2>5
<1>9. ProxyInv'
  <2>1. ProxyInv
    BY DEF RouterIInv
  <2>2. \A r \in Solves, h \in Handlers : Step(r, h)' = Step(r, h) /\ Used(r, h)' = Used(r, h)
    BY <1>2 DEF Step, Used
  <2>3. ASSUME NEW r \in Solves, r # s
        PROVE  proxy'[r] = proxy[r] /\ routed'[r] = routed[r]
    BY <1>3, <2>3
  <2>4. proxy'[s] # "off" /\ proxy'[s] # "on"
    BY <1>3
  <2> QED BY <2>1, <2>2, <2>3, <2>4 DEF ProxyInv
<1> QED BY <1>6, <1>7, <1>8, <1>9 DEF RouterIInv

LEMMA NextSolveStep ==
  ASSUME RouterIInv, NEW s \in Solves, NextSolve(s)
  PROVE  RouterIInv'
<1>1. RouterTypeOK'
  BY DEF RouterIInv, RouterTypeOK, NextSolve, lists
<1>2. LastEndpointStays' /\ LoadIsTrue' /\ HandlersInv'
  BY RestKeeps DEF RouterIInv, LastEndpointStays, Shunned, NextSolve, lists
<1>3. ProxyInv'
  <2>1. proxy \in [Solves -> {"off", "on", "stopped"}]
    BY DEF RouterIInv, RouterTypeOK
  <2> QED BY <2>1 DEF RouterIInv, ProxyInv, NextSolve, Step, Used
<1> QED BY <1>1, <1>2, <1>3 DEF RouterIInv

LEMMA AffinityExpiresStep ==
  ASSUME RouterIInv, AffinityExpires
  PROVE  RouterIInv'
<1>1. AffinitiesOK'
  <2>1. PICK E : E = (Prompts \cup {NoPrompt}) \X Endpoints
    OBVIOUS
  <2>2. affinities \in Seq(E) /\ Len(affinities) <= MaxAffinities /\ Len(affinities) \in Nat
    <3>1. affinities \in Seq((Prompts \cup {NoPrompt}) \X Endpoints) /\ Len(affinities) <= MaxAffinities
      BY DEF RouterIInv, RouterTypeOK
    <3>2. affinities \in Seq(E)
      BY <2>1, <3>1
    <3> QED BY <3>1, <3>2
  <2>3. affinities # <<>> /\ affinities' = Tail(affinities)
    BY DEF AffinityExpires
  <2>4. Tail(affinities) \in Seq(E) /\ Len(Tail(affinities)) = Len(affinities) - 1
    BY <2>2, <2>3
  <2>5. Len(Tail(affinities)) <= MaxAffinities
    BY <2>2, <2>4, RouterParameters
  <2>6. affinities' \in Seq(E) /\ Len(affinities') <= MaxAffinities
    BY <2>3, <2>4, <2>5
  <2> QED BY <2>1, <2>6 DEF AffinitiesOK
<1>2. RouterTypeOK'
  BY <1>1 DEF RouterIInv, RouterTypeOK, AffinitiesOK, AffinityExpires, lists
<1>3. LastEndpointStays' /\ LoadIsTrue' /\ HandlersInv'
  BY RestKeeps DEF RouterIInv, LastEndpointStays, Shunned, AffinityExpires, lists
<1>4. ProxyInv'
  BY DEF RouterIInv, ProxyInv, Used, Step, AffinityExpires
<1> QED BY <1>2, <1>3, <1>4 DEF RouterIInv

LEMMA RestartStep ==
  ASSUME RouterIInv, Restart
  PROVE  RouterIInv'
<1>1. RouterTypeOK'
  <2>1. <<>> \in Seq((Prompts \cup {NoPrompt}) \X Endpoints) /\ Len(<<>>) = 0
    BY EmptySeq
  <2>2. Parked \in Handling
    BY DEF Parked, Handling
  <2>3. handler' \in [Solves -> [Handlers -> Handling]]
    BY <2>2 DEF Restart
  <2>4. affinities' \in Seq((Prompts \cup {NoPrompt}) \X Endpoints) /\ Len(affinities') <= MaxAffinities
    BY <2>1, RouterParameters DEF Restart
  <2>5. /\ inFlight' \in [Endpoints -> Nat] /\ failures' \in [Endpoints -> 0 .. MaxFailures]
        /\ disabled' \subseteq Endpoints /\ file' \subseteq Endpoints /\ configured' \subseteq Endpoints
        /\ proxy' \in [Solves -> {"off", "on", "stopped"}]
        /\ routed' \in [Solves -> Endpoints \cup {Nowhere}]
    <3>1. 0 \in Nat /\ 0 \in 0 .. MaxFailures
      BY RouterParameters
    <3>2. file' = file /\ configured' = configured \ file /\ disabled' = {}
      BY DEF Restart
    <3>3. file \subseteq Endpoints /\ configured \subseteq Endpoints
      BY DEF RouterIInv, RouterTypeOK
    <3> QED BY <3>1, <3>2, <3>3 DEF Restart
  <2> QED BY <2>3, <2>4, <2>5 DEF RouterTypeOK, Handling
<1>2. LastEndpointStays'
  BY DEF Restart, LastEndpointStays, Shunned
<1>3. LoadIsTrue'
  <2> SUFFICES ASSUME NEW e \in Endpoints PROVE inFlight'[e] = Cardinality(Holders(e)') + Cardinality(Hands(e)')
    BY DEF LoadIsTrue
  <2>1. Holders(e)' = {} /\ Hands(e)' = {}
    BY RouterParameters DEF Restart, Holders, Hands, Held, Parked
  <2> QED BY <2>1, FS_EmptySet DEF Restart
<1>4. HandlersInv' /\ ProxyInv'
  BY RouterParameters DEF Restart, HandlersInv, ProxyInv, Step, Held, Used, Parked
<1> QED BY <1>1, <1>2, <1>3, <1>4 DEF RouterIInv

LEMMA RouterSteps == RouterIInv /\ [RouterNext]_routerVars => RouterIInv'
<1> SUFFICES ASSUME RouterIInv, [RouterNext]_routerVars PROVE RouterIInv'
  OBVIOUS
<1>1. CASE \E s \in Solves : StartProxy(s) \/ StopProxy(s) \/ NextSolve(s)
  BY <1>1, StartProxyStep, StopProxyStep, NextSolveStep
<1>2. CASE \E s \in Solves : \E h \in Handlers : Handles(s, h)
  BY <1>2, RequestStep, AcquireStep, AdoptStep, RememberStep, GiveBackStep, AnswerStep DEF Handles
<1>3. CASE AffinityExpires \/ Restart
  BY <1>3, AffinityExpiresStep, RestartStep
<1>4. CASE UNCHANGED routerVars
  <2>1. RouterTypeOK' /\ LastEndpointStays' /\ ProxyInv'
    BY <1>4 DEF routerVars, lists, RouterIInv, RouterTypeOK, LastEndpointStays, Shunned, ProxyInv, Used, Step
  <2>2. LoadIsTrue' /\ HandlersInv'
    BY <1>4, RestKeeps DEF routerVars, RouterIInv
  <2> QED BY <2>1, <2>2 DEF RouterIInv
<1> QED BY <1>1, <1>2, <1>3, <1>4 DEF RouterNext

\* The load of every endpoint is what proxies and handlers hold of it, no solve goes to
\* two endpoints and the last endpoint is never disabled, for any number of endpoints,
\* solves, handler threads and affinities (SmartUpstreamRouter, _next_upstream_base_url).
THEOREM RouterIsSound == RouterSpec => []RouterInvariant
<1>1. RouterIInv => RouterInvariant
  BY DEF RouterIInv, RouterInvariant, ProxyInv, SolveSticks
<1> QED BY <1>1, RouterStarts, RouterSteps, PTL DEF RouterSpec

-----------------------------------------------------------------------------
(* A solve in the sandbox *)

LEMMA RunParameters ==
  /\ IsFiniteSet(Connections) /\ Cardinality(Connections) \in Nat
  /\ MaxRequests \in Nat /\ MaxTokens \in Nat /\ PerRequest \in Nat /\ Prompt \in Nat /\ Excess \in Nat
BY SolveRunAssumption, FS_CardinalityType

Usages == [requests : Nat, successes : Nat, errors : Nat, upstream : Nat, raised : Nat, tokens : Nat,
           firstTokens : 0 .. 1, reason : {"none", "token_limit_exceeded", "request_limit_exceeded", "proxy_error"}]
Requests == [step : {"none", "arrived", "upstream"}, grant : 0 .. PerRequest, streamed : BOOLEAN, token : BOOLEAN]

\* An admitted request was promised no more than was left of the tokens, and the excess.
PromisesInv == \A c \in Connections : Promised(c) <= MaxTokens + Excess

RunIInv == RunTypeOK /\ usage \in Usages /\ SpendIsBounded /\ AccountsBalance /\ PromisesInv

\* A handler's move is its own.
LEMMA RequestMoves ==
  ASSUME RunTypeOK, NEW c \in Connections, NEW x \in Requests, request' = [request EXCEPT ![c] = x]
  PROVE  /\ request' \in [Connections -> Requests] /\ request'[c] = x
         /\ \A d \in Connections \ {c} : request'[d] = request[d] /\ Promised(d)' = Promised(d)
<1>1. request \in [Connections -> Requests]
  BY DEF RunTypeOK, Requests
<1> QED BY <1>1 DEF Promised

LEMMA PromisedIs ==
  ASSUME RunTypeOK
  PROVE  \A c \in Connections : Promised(c) \in Nat
<1>1. request \in [Connections -> Requests]
  BY DEF RunTypeOK, Requests
<1> QED BY <1>1, RunParameters DEF Promised, Requests

\* How the books change when one handler moves.
LEMMA BooksMove ==
  ASSUME RunTypeOK, NEW c \in Connections, NEW x \in Requests, request' = [request EXCEPT ![c] = x]
  PROVE  /\ Outstanding \in Nat /\ Outstanding' \in Nat /\ Promised(c) \in Nat /\ Promised(c)' \in Nat
         /\ Outstanding' = Outstanding - Promised(c) + Promised(c)'
         /\ Cardinality(AtUpstream) \in Nat /\ Cardinality(AtUpstream') \in Nat
         /\ Cardinality(AtUpstream') = Cardinality(AtUpstream) - (IF request[c].step = "upstream" THEN 1 ELSE 0)
                                         + (IF x.step = "upstream" THEN 1 ELSE 0)
<1>1. /\ request' \in [Connections -> Requests] /\ request'[c] = x
      /\ \A d \in Connections \ {c} : request'[d] = request[d] /\ Promised(d)' = Promised(d)
  BY RequestMoves
<1>2. PICK f : f = [d \in Connections |-> Promised(d)]
  OBVIOUS
<1>3. PICK g : g = [d \in Connections |-> Promised(d)']
  OBVIOUS
<1>4. \A d \in Connections : Promised(d) \in Nat /\ Promised(d)' \in Nat
  <2>1. \A d \in Connections : Promised(d)' \in Nat
    BY <1>1, RunParameters DEF Promised, Requests
  <2> QED BY <2>1, PromisedIs
<1>5. f \in [Connections -> Nat] /\ g \in [Connections -> Nat] /\ f \in [Connections -> Int] /\ g \in [Connections -> Int]
  BY <1>2, <1>3, <1>4
<1>6. IsFiniteSet(Connections)
  BY RunParameters
<1>7. \A d \in Connections \ {c} : g[d] = f[d]
  BY <1>1, <1>2, <1>3
<1>8. SumFunction(g) = SumFunction(f) - f[c] + g[c]
  BY <1>5, <1>6, <1>7, SumChange
<1>9. SumFunction(f) \in Nat /\ SumFunction(g) \in Nat
  BY <1>5, <1>6, SumNat
<1>10. Outstanding = SumFunction(f) /\ Outstanding' = SumFunction(g)
  BY <1>2, <1>3 DEF Outstanding
<1>11. f[c] = Promised(c) /\ g[c] = Promised(c)'
  BY <1>2, <1>3
<1>12. PICK u : u = [d \in Connections |-> request[d].step]
  OBVIOUS
<1>13. PICK v : v = [d \in Connections |-> request'[d].step]
  OBVIOUS
<1>14. \A d \in Connections \ {c} : v[d] = u[d]
  BY <1>1, <1>12, <1>13
<1>15. PICK T : T = {"upstream"}
  OBVIOUS
<1>16. Cardinality(Members(v, Connections, T)) =
         Cardinality(Members(u, Connections, T)) - (IF u[c] \in T THEN 1 ELSE 0) + (IF v[c] \in T THEN 1 ELSE 0)
  BY <1>6, <1>14, MembersChange
<1>17. Members(u, Connections, T) = AtUpstream
  BY <1>12, <1>15 DEF Members, AtUpstream
<1>18. Members(v, Connections, T) = AtUpstream'
  BY <1>13, <1>15 DEF Members, AtUpstream
<1>19. Cardinality(Members(v, Connections, T)) \in Nat /\ Cardinality(Members(u, Connections, T)) \in Nat
  BY <1>6, MembersFinite
<1>20. u[c] = request[c].step /\ v[c] = x.step
  BY <1>1, <1>12, <1>13
<1>21. Cardinality(AtUpstream') = Cardinality(AtUpstream) - (IF request[c].step = "upstream" THEN 1 ELSE 0)
                                         + (IF x.step = "upstream" THEN 1 ELSE 0)
  BY <1>15, <1>16, <1>17, <1>18, <1>20
<1> QED BY <1>4, <1>8, <1>9, <1>10, <1>11, <1>17, <1>18, <1>19, <1>21

\* A connection that has no promise leaves the others at most a full limit each.
LEMMA OthersAreBounded ==
  ASSUME RunIInv, NEW c \in Connections, Promised(c) = 0
  PROVE  Outstanding + (MaxTokens + Excess) <= Cardinality(Connections) * (MaxTokens + Excess)
<1>0. PICK L \in Nat : L = MaxTokens + Excess
  BY RunParameters
<1>1. PICK f : f = [d \in Connections |-> Promised(d)]
  OBVIOUS
<1>2. PICK g : g = [d \in Connections |-> IF d = c THEN L ELSE Promised(d)]
  OBVIOUS
<1>3. \A d \in Connections : Promised(d) \in Nat /\ Promised(d) <= L
  BY <1>0, PromisedIs DEF RunIInv, PromisesInv
<1>4. f \in [Connections -> Int] /\ g \in [Connections -> Int] /\ f \in [Connections -> Nat]
  BY <1>1, <1>2, <1>3, RunParameters
<1>5. IsFiniteSet(Connections) /\ L \in Nat
  BY RunParameters
<1>6. \A d \in Connections \ {c} : g[d] = f[d]
  BY <1>1, <1>2
<1>7. SumFunction(g) = SumFunction(f) - f[c] + g[c]
  BY <1>4, <1>5, <1>6, SumChange
<1>8. \A d \in Connections : g[d] <= L
  BY <1>2, <1>3, <1>5
<1>9. SumFunction(g) <= Cardinality(Connections) * L
  BY <1>4, <1>5, <1>8, SumAtMost
<1>10. f[c] = 0 /\ g[c] = L /\ Outstanding = SumFunction(f)
  BY <1>1, <1>2 DEF Outstanding
<1>11. SumFunction(f) \in Nat
  BY <1>4, <1>5, SumNat
<1>12. SumFunction(g) = SumFunction(f) + L
  BY <1>5, <1>7, <1>10, <1>11
<1> QED BY <1>0, <1>9, <1>10, <1>12

\* Without a request nothing is promised.
LEMMA NothingPromised ==
  ASSUME \A c \in Connections : request[c].step # "upstream"
  PROVE  Outstanding = 0 /\ AtUpstream = {} /\ Cardinality(AtUpstream) = 0
<1>1. PICK f : f = [d \in Connections |-> Promised(d)]
  OBVIOUS
<1>2. f \in [Connections -> Int] /\ \A d \in Connections : f[d] = 0
  BY <1>1 DEF Promised
<1>3. SumFunction(f) = 0
  BY <1>2, RunParameters, SumZero
<1>4. Outstanding = 0
  BY <1>1, <1>3 DEF Outstanding
<1>5. AtUpstream = {}
  BY DEF AtUpstream
<1> QED BY <1>4, <1>5, FS_EmptySet

LEMMA RunStarts == RunInit => RunIInv
<1> SUFFICES ASSUME RunInit PROVE RunIInv
  OBVIOUS
<1>1. NoRequest \in Requests /\ NoUsage \in Usages /\ NoOutcome \in RunOutcomes
  BY RunParameters DEF NoRequest, NoUsage, NoOutcome, Requests, Usages, RunOutcomes
<1>2. request = [c \in Connections |-> NoRequest] /\ usage = NoUsage
  BY DEF RunInit
<1>3. RunTypeOK
  <2>1. request \in [Connections -> Requests] /\ usage \in Usages
    BY <1>1, <1>2
  <2>2. harness \in RunOutcomes /\ result \in RunOutcomes
    BY <1>1 DEF RunInit
  <2>3. /\ stage = "prepare" /\ clock = 0 /\ container = "none" /\ edited = FALSE /\ killed = "none"
    BY DEF RunInit
  <2>4. usage.reason \in {"none", "token_limit_exceeded", "request_limit_exceeded", "proxy_error"} /\ usage.firstTokens \in 0 .. 1
    BY <2>1 DEF Usages
  <2>5. /\ stage \in {"prepare", "running", "joining", "classify", "cleanup", "done"}
        /\ clock \in 0 .. 3 /\ container \in {"none", "up", "dead"} /\ edited \in BOOLEAN
        /\ killed \in {"none", "time_limit_exceeded", "no_activity_timeout"}
    <3>1. edited \in BOOLEAN
      BY <2>3
    <3>2. clock \in 0 .. 3
      BY <2>3
    <3>3. /\ stage \in {"prepare", "running", "joining", "classify", "cleanup", "done"}
          /\ container \in {"none", "up", "dead"} /\ killed \in {"none", "time_limit_exceeded", "no_activity_timeout"}
      BY <2>3
    <3> QED BY <3>1, <3>2, <3>3
  <2> QED BY <2>1, <2>2, <2>4, <2>5 DEF RunTypeOK, Requests
<1>4. \A c \in Connections : request[c].step # "upstream"
  BY <1>2 DEF NoRequest
<1>5. Outstanding = 0 /\ Cardinality(AtUpstream) = 0
  BY <1>4, NothingPromised
<1>6. SpendIsBounded
  <2>1. usage.requests = 0 /\ usage.tokens = 0
    BY <1>2 DEF NoUsage
  <2>2. Cardinality(Connections) * (MaxTokens + Excess) \in Nat
    BY RunParameters
  <2> QED BY <1>5, <2>1, <2>2, RunParameters DEF SpendIsBounded
<1>7. AccountsBalance
  BY <1>2, <1>5 DEF AccountsBalance, NoUsage
<1>8. PromisesInv
  BY <1>4, RunParameters DEF PromisesInv, Promised
<1> QED BY <1>1, <1>2, <1>3, <1>6, <1>7, <1>8 DEF RunIInv

\* The proxy at rest: the books stand.
LEMMA BooksKeep ==
  ASSUME RunIInv, UNCHANGED <<request, usage>>
  PROVE  usage' \in Usages /\ SpendIsBounded' /\ AccountsBalance' /\ PromisesInv'
<1>1. Outstanding' = Outstanding /\ AtUpstream' = AtUpstream
  BY DEF Outstanding, Promised, AtUpstream
<1> QED BY <1>1 DEF RunIInv, SpendIsBounded, AccountsBalance, PromisesInv, Promised

\* A handler's move from a request to x that admits none: the usage it leaves is u.
Moves(c, x, u) ==
  /\ request' = [request EXCEPT ![c] = x] /\ usage' = u
  /\ u.tokens + (IF x.step = "upstream" THEN Prompt + x.grant + Excess ELSE 0) <= usage.tokens + Promised(c)
  /\ x.step = "upstream" => request[c].step = "upstream" /\ x.grant = request[c].grant
  /\ u.requests = usage.requests
  /\ u.requests - u.successes - u.errors - u.raised =
       usage.requests - usage.successes - usage.errors - usage.raised
         - (IF request[c].step = "upstream" THEN 1 ELSE 0) + (IF x.step = "upstream" THEN 1 ELSE 0)
  /\ u.upstream - u.errors <= usage.upstream - usage.errors
  /\ RunnerIdle

LEMMA MoveKeeps ==
  ASSUME RunIInv, NEW c \in Connections, NEW x \in Requests, NEW u \in Usages, Moves(c, x, u)
  PROVE  RunIInv'
<1>1. request' = [request EXCEPT ![c] = x] /\ usage' = u /\ RunnerIdle
  BY DEF Moves
<1>2. /\ request' \in [Connections -> Requests] /\ request'[c] = x
      /\ \A d \in Connections \ {c} : request'[d] = request[d] /\ Promised(d)' = Promised(d)
  BY <1>1, RequestMoves DEF RunIInv
<1>3. /\ Outstanding \in Nat /\ Outstanding' \in Nat /\ Promised(c) \in Nat /\ Promised(c)' \in Nat
      /\ Outstanding' = Outstanding - Promised(c) + Promised(c)'
      /\ Cardinality(AtUpstream) \in Nat /\ Cardinality(AtUpstream') \in Nat
      /\ Cardinality(AtUpstream') = Cardinality(AtUpstream) - (IF request[c].step = "upstream" THEN 1 ELSE 0)
                                      + (IF x.step = "upstream" THEN 1 ELSE 0)
  BY <1>1, BooksMove DEF RunIInv
<1>4. /\ usage.tokens \in Nat /\ u.tokens \in Nat /\ u.requests \in Nat /\ usage.requests \in Nat
      /\ u.errors \in Nat /\ u.successes \in Nat /\ u.upstream \in Nat
      /\ usage.errors \in Nat /\ usage.successes \in Nat /\ usage.upstream \in Nat
      /\ u.raised \in Nat /\ usage.raised \in Nat
  BY DEF RunIInv, Usages
<1>5. RunTypeOK'
  BY <1>1, <1>2 DEF RunIInv, RunTypeOK, RunnerIdle, Requests, Usages
<1>6. Promised(c)' = IF x.step = "upstream" THEN Prompt + x.grant + Excess ELSE 0
  BY <1>2 DEF Promised
<1>7. u.tokens + Promised(c)' <= usage.tokens + Promised(c)
  BY <1>6 DEF Moves
<1>8. SpendIsBounded'
  <2>1. u.tokens + Outstanding' <= usage.tokens + Outstanding
    BY <1>3, <1>4, <1>7
  <2>2. usage.tokens + Outstanding <= Cardinality(Connections) * (MaxTokens + Excess) /\ usage.requests <= MaxRequests
    BY DEF RunIInv, SpendIsBounded
  <2>3. Cardinality(Connections) * (MaxTokens + Excess) \in Nat
    BY RunParameters
  <2>4. u.tokens + Outstanding' <= Cardinality(Connections) * (MaxTokens + Excess)
    BY <1>3, <1>4, <2>1, <2>2, <2>3
  <2>5. u.requests = usage.requests
    BY DEF Moves
  <2> QED BY <1>1, <2>2, <2>4, <2>5 DEF SpendIsBounded
<1>9. AccountsBalance'
  <2>1. /\ usage.requests = usage.successes + usage.errors + usage.raised + Cardinality(AtUpstream)
        /\ usage.upstream <= usage.errors
    BY DEF RunIInv, AccountsBalance
  <2>2. /\ u.requests - u.successes - u.errors - u.raised =
             usage.requests - usage.successes - usage.errors - usage.raised
               - (IF request[c].step = "upstream" THEN 1 ELSE 0) + (IF x.step = "upstream" THEN 1 ELSE 0)
        /\ u.upstream - u.errors <= usage.upstream - usage.errors
    BY DEF Moves
  <2>3. u.upstream <= u.errors
    BY <1>4, <2>1, <2>2
  <2>4. u.requests = u.successes + u.errors + u.raised + Cardinality(AtUpstream')
    BY <1>3, <1>4, <2>1, <2>2
  <2> QED BY <1>1, <2>3, <2>4 DEF AccountsBalance
<1>10. PromisesInv'
  <2> SUFFICES ASSUME NEW d \in Connections PROVE Promised(d)' <= MaxTokens + Excess
    BY DEF PromisesInv
  <2>1. CASE d # c
    BY <1>2, <2>1 DEF RunIInv, PromisesInv
  <2>2. CASE d = c
    <3>1. CASE x.step = "upstream"
      <4>1. Promised(c)' = Promised(c)
        BY <1>6, <3>1 DEF Moves, Promised
      <4> QED BY <2>2, <4>1 DEF RunIInv, PromisesInv
    <3>2. CASE x.step # "upstream"
      BY <1>6, <2>2, <3>2, RunParameters
    <3> QED BY <3>1, <3>2
  <2> QED BY <2>1, <2>2
<1> QED BY <1>1, <1>5, <1>8, <1>9, <1>10 DEF RunIInv

LEMMA HandlerIs ==
  ASSUME RunTypeOK
  PROVE  \A st \in {"none", "arrived", "upstream"} :
           /\ [NoRequest EXCEPT !.step = st] \in Requests
           /\ [NoRequest EXCEPT !.step = st].step = st
<1> SUFFICES ASSUME NEW st \in {"none", "arrived", "upstream"}
             PROVE  /\ [NoRequest EXCEPT !.step = st] \in Requests
                    /\ [NoRequest EXCEPT !.step = st].step = st
  OBVIOUS
<1>1. PICK n \in Requests : n = NoRequest
  <2>1. 0 \in 0 .. PerRequest
    BY RunParameters
  <2> QED BY <2>1 DEF NoRequest, Requests
<1>2. [n EXCEPT !.step = st] \in Requests /\ [n EXCEPT !.step = st].step = st
  BY DEF Requests
<1> QED BY <1>1, <1>2

LEMMA ArriveStep ==
  ASSUME RunIInv, NEW c \in Connections, Arrive(c)
  PROVE  RunIInv'
<1>1. PICK x \in Requests : x = [NoRequest EXCEPT !.step = "arrived"] /\ x.step = "arrived"
  BY HandlerIs DEF RunIInv
<1>2. usage \in Usages
  BY DEF RunIInv
<1>3. request' = [request EXCEPT ![c] = x] /\ usage' = usage /\ RunnerIdle /\ request[c].step = "none"
  BY <1>1 DEF Arrive, Handler
<1>4. Promised(c) \in Nat /\ usage.tokens \in Nat /\ usage.requests \in Nat /\ usage.successes \in Nat /\ usage.errors \in Nat
      /\ usage.upstream \in Nat /\ usage.raised \in Nat
  BY <1>2, PromisedIs DEF RunIInv, Usages
<1>5. Moves(c, x, usage)
  BY <1>1, <1>3, <1>4 DEF Moves
<1> QED BY <1>2, <1>5, MoveKeeps

LEMMA RejectStep ==
  ASSUME RunIInv, NEW c \in Connections, Reject(c)
  PROVE  RunIInv'
<1>1. PICK x \in Requests : x = [NoRequest EXCEPT !.step = "none"] /\ x.step = "none"
  BY HandlerIs DEF RunIInv
<1>2. usage \in Usages
  BY DEF RunIInv
<1>3. PICK reason \in {Exceeded, "proxy_error"} \ {"none"} : usage' = [usage EXCEPT !.reason = reason]
  BY DEF Reject
<1>4. reason \in {"token_limit_exceeded", "request_limit_exceeded", "proxy_error"}
  BY <1>2, <1>3 DEF Exceeded, Usages
<1>5. PICK u \in Usages : u = [usage EXCEPT !.reason = reason]
  BY <1>2, <1>4 DEF Usages
<1>6. /\ u.tokens = usage.tokens /\ u.requests = usage.requests /\ u.successes = usage.successes
      /\ u.errors = usage.errors /\ u.upstream = usage.upstream /\ u.raised = usage.raised
  BY <1>2, <1>5 DEF Usages
<1>7. request' = [request EXCEPT ![c] = x] /\ usage' = u /\ RunnerIdle /\ request[c].step = "arrived"
  BY <1>1, <1>3, <1>5 DEF Reject, Handler
<1>8. Promised(c) \in Nat /\ usage.tokens \in Nat /\ usage.requests \in Nat /\ usage.successes \in Nat /\ usage.errors \in Nat
      /\ usage.upstream \in Nat /\ usage.raised \in Nat
  BY <1>2, PromisedIs DEF RunIInv, Usages
<1>9. Moves(c, x, u)
  BY <1>1, <1>6, <1>7, <1>8 DEF Moves
<1> QED BY <1>9, MoveKeeps

LEMMA FirstTokenStep ==
  ASSUME RunIInv, NEW c \in Connections, FirstToken(c)
  PROVE  RunIInv'
<1>1. request[c] \in Requests
  BY DEF RunIInv, RunTypeOK, Requests
<1>2. PICK x \in Requests : /\ x = [request[c] EXCEPT !.token = TRUE]
                            /\ x.step = request[c].step /\ x.grant = request[c].grant
  <2>1. PICK q \in Requests : q = request[c]
    BY <1>1
  <2>2. PICK y : y = [q EXCEPT !.token = TRUE]
    OBVIOUS
  <2>3. y \in Requests
    BY <2>2 DEF Requests
  <2>4. y.step = q.step /\ y.grant = q.grant
    BY <2>2 DEF Requests
  <2> QED BY <2>1, <2>2, <2>3, <2>4
<1>3. usage \in Usages
  BY DEF RunIInv
<1>4. PICK n \in 0 .. 1 : n = Minimum(usage.firstTokens + 1, 1)
  BY <1>3 DEF Minimum, Usages
<1>5. PICK u \in Usages : u = [usage EXCEPT !.firstTokens = n]
  BY <1>3 DEF Usages
<1>6. /\ u.tokens = usage.tokens /\ u.requests = usage.requests /\ u.successes = usage.successes
      /\ u.errors = usage.errors /\ u.upstream = usage.upstream /\ u.raised = usage.raised
  BY <1>3, <1>5 DEF Usages
<1>7. request' = [request EXCEPT ![c] = x] /\ usage' = u /\ RunnerIdle /\ request[c].step = "upstream"
  <2>1. usage' = [usage EXCEPT !.firstTokens = Minimum(usage.firstTokens + 1, 1)]
    BY DEF FirstToken
  <2>2. request' = [request EXCEPT ![c] = [request[c] EXCEPT !.token = TRUE]]
    BY DEF FirstToken
  <2> QED BY <1>2, <1>4, <1>5, <2>1, <2>2 DEF FirstToken
<1>8. Promised(c) = Prompt + request[c].grant + Excess
  BY <1>7 DEF Promised
<1>9. Promised(c) \in Nat /\ usage.tokens \in Nat /\ usage.requests \in Nat /\ usage.successes \in Nat /\ usage.errors \in Nat
      /\ usage.upstream \in Nat /\ usage.raised \in Nat
  BY <1>3, PromisedIs DEF RunIInv, Usages
<1>10. Moves(c, x, u)
  BY <1>2, <1>6, <1>7, <1>8, <1>9 DEF Moves
<1> QED BY <1>10, MoveKeeps

LEMMA SuccessesChange ==
  \A v \in Usages, n \in Nat :
    /\ [v EXCEPT !.successes = n] \in Usages /\ [v EXCEPT !.successes = n].successes = n
    /\ [v EXCEPT !.successes = n].requests = v.requests
    /\ [v EXCEPT !.successes = n].errors = v.errors
    /\ [v EXCEPT !.successes = n].upstream = v.upstream
    /\ [v EXCEPT !.successes = n].tokens = v.tokens
    /\ [v EXCEPT !.successes = n].raised = v.raised
BY DEF Usages

LEMMA ErrorsChange ==
  \A v \in Usages, n \in Nat :
    /\ [v EXCEPT !.errors = n] \in Usages /\ [v EXCEPT !.errors = n].errors = n
    /\ [v EXCEPT !.errors = n].requests = v.requests
    /\ [v EXCEPT !.errors = n].successes = v.successes
    /\ [v EXCEPT !.errors = n].upstream = v.upstream
    /\ [v EXCEPT !.errors = n].tokens = v.tokens
    /\ [v EXCEPT !.errors = n].raised = v.raised
BY DEF Usages

LEMMA UpstreamChange ==
  \A v \in Usages, n \in Nat :
    /\ [v EXCEPT !.upstream = n] \in Usages /\ [v EXCEPT !.upstream = n].upstream = n
    /\ [v EXCEPT !.upstream = n].requests = v.requests
    /\ [v EXCEPT !.upstream = n].successes = v.successes
    /\ [v EXCEPT !.upstream = n].errors = v.errors
    /\ [v EXCEPT !.upstream = n].tokens = v.tokens
    /\ [v EXCEPT !.upstream = n].raised = v.raised
BY DEF Usages

LEMMA TokensChange ==
  \A v \in Usages, n \in Nat :
    /\ [v EXCEPT !.tokens = n] \in Usages /\ [v EXCEPT !.tokens = n].tokens = n
    /\ [v EXCEPT !.tokens = n].requests = v.requests
    /\ [v EXCEPT !.tokens = n].successes = v.successes
    /\ [v EXCEPT !.tokens = n].errors = v.errors
    /\ [v EXCEPT !.tokens = n].upstream = v.upstream
    /\ [v EXCEPT !.tokens = n].raised = v.raised
BY DEF Usages

LEMMA RecordedIs ==
  ASSUME NEW u \in Usages
  PROVE  /\ Recorded(u) \in Usages /\ Recorded(u).tokens = u.tokens /\ Recorded(u).requests = u.requests
         /\ Recorded(u).successes = u.successes /\ Recorded(u).errors = u.errors /\ Recorded(u).upstream = u.upstream
         /\ Recorded(u).raised = u.raised
BY DEF Recorded, Usages

\* u is the usage with the request of c entered: its tokens, and whether it is a
\* success or an error, the latter perhaps of the upstream.
Entered(c, u, used, success, fault) ==
  /\ used \in 0 .. Promised(c) /\ success \in 0 .. 1 /\ fault \in 0 .. 1 - success
  /\ u.tokens = usage.tokens + used /\ u.requests = usage.requests
  /\ u.successes = usage.successes + success /\ u.errors = usage.errors + (1 - success)
  /\ u.upstream = usage.upstream + fault /\ u.raised = usage.raised

\* A request that ends, charged no more than it was promised, as one success or one error.
LEMMA RecordKeeps ==
  ASSUME RunIInv, NEW c \in Connections, request[c].step = "upstream", Handler(c, "none"), RunnerIdle,
         NEW u \in Usages, NEW used, NEW success, NEW fault, Entered(c, u, used, success, fault),
         usage' = Recorded(u)
  PROVE  RunIInv'
<1>0. /\ used \in 0 .. Promised(c) /\ success \in 0 .. 1 /\ fault \in 0 .. 1 - success
      /\ u.tokens = usage.tokens + used /\ u.requests = usage.requests
      /\ u.successes = usage.successes + success /\ u.errors = usage.errors + (1 - success)
      /\ u.upstream = usage.upstream + fault /\ u.raised = usage.raised
  BY DEF Entered
<1>1. PICK x \in Requests : x = [NoRequest EXCEPT !.step = "none"] /\ x.step = "none"
  BY HandlerIs DEF RunIInv
<1>2. PICK r \in Usages : /\ r = Recorded(u) /\ r.tokens = u.tokens /\ r.requests = u.requests
                          /\ r.successes = u.successes /\ r.errors = u.errors /\ r.upstream = u.upstream
                          /\ r.raised = u.raised
  BY RecordedIs
<1>3. request' = [request EXCEPT ![c] = x] /\ usage' = r
  BY <1>1, <1>2 DEF Handler
<1>4. Promised(c) \in Nat /\ usage.tokens \in Nat /\ usage.requests \in Nat /\ usage.successes \in Nat /\ usage.errors \in Nat
      /\ usage.upstream \in Nat /\ usage.raised \in Nat
  BY PromisedIs DEF RunIInv, Usages
<1>5. used \in Nat /\ used <= Promised(c) /\ success \in {0, 1} /\ fault \in Nat /\ fault <= 1 - success
  BY <1>0, <1>4
<1>6. /\ r.tokens <= usage.tokens + Promised(c)
      /\ r.requests - r.successes - r.errors - r.raised =
           usage.requests - usage.successes - usage.errors - usage.raised - 1
      /\ r.upstream - r.errors <= usage.upstream - usage.errors
  BY <1>0, <1>2, <1>4, <1>5
<1>7. Moves(c, x, r)
  <2>1. r.tokens + 0 <= usage.tokens + Promised(c)
    BY <1>0, <1>2, <1>4, <1>5
  <2>2. r.requests - r.successes - r.errors - r.raised =
          usage.requests - usage.successes - usage.errors - usage.raised - 1 + 0
    BY <1>0, <1>2, <1>4, <1>5
  <2>3. /\ (IF x.step = "upstream" THEN Prompt + x.grant + Excess ELSE 0) = 0
        /\ (IF x.step = "upstream" THEN 1 ELSE 0) = 0 /\ x.step # "upstream"
        /\ (IF request[c].step = "upstream" THEN 1 ELSE 0) = 1
    BY <1>1
  <2>4. r.requests = usage.requests
    BY <1>0, <1>2
  <2> QED BY <1>3, <1>6, <2>1, <2>2, <2>3, <2>4 DEF Moves
<1> QED BY <1>7, MoveKeeps

LEMMA AnsweredStep ==
  ASSUME RunIInv, NEW c \in Connections, Answered(c)
  PROVE  RunIInv'
<1>1. usage \in Usages
  BY DEF RunIInv
<1>2. PICK used \in Charges(c) : usage' = Recorded([usage EXCEPT !.successes = @ + 1, !.tokens = @ + used])
  BY DEF Answered
<1>3. used \in 0 .. Promised(c) /\ used \in Nat
  <2>1. Promised(c) = Prompt + request[c].grant + Excess /\ Promised(c) \in Nat
    BY PromisedIs DEF RunIInv, Promised, Answered
  <2> QED BY <1>2, <2>1 DEF Charges
<1>4. PICK s \in Nat, t \in Nat : s = usage.successes + 1 /\ t = usage.tokens + used
  BY <1>1, <1>3 DEF Usages
<1>5. usage.errors \in Nat /\ usage.upstream \in Nat
  BY <1>1 DEF Usages
<1>11. PICK v \in Usages :
         /\ v = [usage EXCEPT !.successes = s] /\ v.requests = usage.requests /\ v.successes = s
         /\ v.errors = usage.errors /\ v.upstream = usage.upstream
         /\ v.raised = usage.raised
  BY <1>1, <1>4, SuccessesChange
<1>10. PICK u \in Usages :
         /\ u = [v EXCEPT !.tokens = t]
         /\ u.requests = usage.requests /\ u.successes = s /\ u.errors = usage.errors /\ u.upstream = usage.upstream
         /\ u.tokens = t /\ u.raised = usage.raised
  <2>1. /\ [v EXCEPT !.tokens = t] \in Usages /\ [v EXCEPT !.tokens = t].tokens = t
        /\ [v EXCEPT !.tokens = t].requests = v.requests /\ [v EXCEPT !.tokens = t].successes = v.successes
        /\ [v EXCEPT !.tokens = t].errors = v.errors /\ [v EXCEPT !.tokens = t].upstream = v.upstream
        /\ [v EXCEPT !.tokens = t].raised = v.raised
    BY <1>4, TokensChange
  <2>2. PICK w : w = [v EXCEPT !.tokens = t]
    OBVIOUS
  <2>3. v.requests = usage.requests /\ v.successes = s /\ v.errors = usage.errors /\ v.upstream = usage.upstream
         /\ v.raised = usage.raised
    BY <1>11
  <2>4. w \in Usages /\ w.tokens = t /\ w.requests = v.requests /\ w.successes = v.successes
        /\ w.errors = v.errors /\ w.upstream = v.upstream /\ w.raised = v.raised
    BY <2>1, <2>2
  <2> QED BY <2>2, <2>3, <2>4
<1>6. usage' = Recorded(u)
  <2>1. usage' = Recorded([usage EXCEPT !.successes = usage.successes + 1, !.tokens = usage.tokens + used])
    BY <1>2
  <2>2. usage' = Recorded([usage EXCEPT !.successes = s, !.tokens = t])
    BY <1>4, <2>1
  <2>3. [usage EXCEPT !.successes = s, !.tokens = t] = u
    BY <1>1, <1>10, <1>11 DEF Usages
  <2> QED BY <2>2, <2>3
<1>7. u.errors = usage.errors + (1 - 1) /\ u.upstream = usage.upstream + 0 /\ 0 \in 0 .. 1 - 1
  BY <1>5, <1>10
<1>8. request[c].step = "upstream" /\ Handler(c, "none") /\ RunnerIdle
  BY DEF Answered
<1>9. Entered(c, u, used, 1, 0)
  BY <1>3, <1>4, <1>7, <1>10 DEF Entered
<1> QED BY <1>6, <1>8, <1>9, RecordKeeps

LEMMA ErrorsStep ==
  ASSUME RunIInv, NEW c \in Connections, Refused(c) \/ Faulted(c)
  PROVE  RunIInv'
<1>1. usage \in Usages
  BY DEF RunIInv
<1>2. request[c].step = "upstream" /\ Handler(c, "none") /\ RunnerIdle
  BY DEF Refused, Faulted
<1>3. PICK fault \in 0 .. 1, e \in Nat, f \in Nat : /\ e = usage.errors + 1 /\ f = usage.upstream + fault
                                                    /\ fault = IF Refused(c) THEN 0 ELSE 1
  BY <1>1 DEF Usages
<1>7. usage.successes \in Nat /\ usage.tokens \in Nat /\ usage.upstream \in Nat
  BY <1>1 DEF Usages
<1>9. PICK v \in Usages :
        /\ v = [usage EXCEPT !.errors = e] /\ v.requests = usage.requests /\ v.successes = usage.successes
        /\ v.errors = e /\ v.upstream = usage.upstream /\ v.tokens = usage.tokens /\ v.raised = usage.raised
  BY <1>1, <1>3, ErrorsChange
<1>4. PICK u \in Usages :
        /\ u = IF Refused(c) THEN v ELSE [v EXCEPT !.upstream = f]
        /\ u.requests = usage.requests /\ u.successes = usage.successes /\ u.errors = e /\ u.upstream = f
        /\ u.tokens = usage.tokens /\ u.raised = usage.raised
  <2>1. CASE Refused(c)
    <3>1. f = usage.upstream
      BY <1>1, <1>3, <2>1 DEF Usages
    <3> QED BY <1>9, <2>1, <3>1
  <2>2. CASE ~Refused(c)
    <3>1. PICK u \in Usages :
        /\ u = [v EXCEPT !.upstream = f]
        /\ u.requests = v.requests /\ u.successes = v.successes /\ u.errors = e /\ u.upstream = f
        /\ u.tokens = v.tokens /\ u.raised = v.raised
      <4>1. /\ [v EXCEPT !.upstream = f] \in Usages /\ [v EXCEPT !.upstream = f].upstream = f
            /\ [v EXCEPT !.upstream = f].requests = v.requests /\ [v EXCEPT !.upstream = f].successes = v.successes
            /\ [v EXCEPT !.upstream = f].errors = v.errors /\ [v EXCEPT !.upstream = f].tokens = v.tokens
            /\ [v EXCEPT !.upstream = f].raised = v.raised
        BY <1>3, UpstreamChange
      <4>2. PICK w : w = [v EXCEPT !.upstream = f]
        OBVIOUS
      <4>3. w \in Usages /\ w.upstream = f /\ w.requests = v.requests /\ w.successes = v.successes
            /\ w.errors = v.errors /\ w.tokens = v.tokens /\ w.raised = v.raised
        BY <4>1, <4>2
      <4>4. v.errors = e
        BY <1>9
      <4> QED BY <4>2, <4>3, <4>4
    <3> QED BY <1>9, <2>2, <3>1
  <2> QED BY <2>1, <2>2
<1>5. usage' = Recorded(u)
  <2>1. CASE Refused(c)
    <3>1. usage' = Recorded([usage EXCEPT !.errors = usage.errors + 1])
      BY <2>1 DEF Refused
    <3> QED BY <1>3, <1>4, <1>9, <2>1, <3>1
  <2>2. CASE ~Refused(c)
    <3>1. usage' = Recorded([usage EXCEPT !.errors = usage.errors + 1, !.upstream = usage.upstream + 1])
      BY <2>2 DEF Faulted
    <3>2. e = usage.errors + 1 /\ f = usage.upstream + 1
      BY <1>3, <2>2
    <3>3. usage' = Recorded([usage EXCEPT !.errors = e, !.upstream = f])
      BY <3>1, <3>2
    <3>4. [usage EXCEPT !.errors = e, !.upstream = f] = u
      BY <1>1, <1>4, <1>9, <2>2 DEF Usages
    <3> QED BY <3>3, <3>4
  <2> QED BY <2>1, <2>2
<1>6. Promised(c) \in Nat
  BY PromisedIs DEF RunIInv
<1>8. Entered(c, u, 0, 0, fault)
  BY <1>3, <1>4, <1>6, <1>7 DEF Entered
<1> QED BY <1>2, <1>5, <1>8, RecordKeeps

LEMMA RaisesStep ==
  ASSUME RunIInv, NEW c \in Connections, Raises(c)
  PROVE  RunIInv'
<1>1. PICK x \in Requests : x = [NoRequest EXCEPT !.step = "none"] /\ x.step = "none"
  BY HandlerIs DEF RunIInv
<1>2. usage \in Usages /\ usage' = [usage EXCEPT !.raised = usage.raised + 1]
  BY DEF RunIInv, Raises
<1>3. PICK u \in Usages :
        /\ u = usage' /\ u.raised = usage.raised + 1 /\ u.tokens = usage.tokens /\ u.requests = usage.requests
        /\ u.successes = usage.successes /\ u.errors = usage.errors /\ u.upstream = usage.upstream
  BY <1>2 DEF Usages
<1>4. request' = [request EXCEPT ![c] = x] /\ usage' = u /\ RunnerIdle /\ request[c].step = "upstream"
  BY <1>1, <1>3 DEF Raises, Handler
<1>5. Promised(c) \in Nat /\ usage.tokens \in Nat /\ usage.requests \in Nat /\ usage.successes \in Nat /\ usage.errors \in Nat
      /\ usage.upstream \in Nat /\ usage.raised \in Nat
  BY <1>2, PromisedIs DEF RunIInv, Usages
<1>6. Moves(c, x, u)
  BY <1>1, <1>3, <1>4, <1>5 DEF Moves
<1> QED BY <1>6, MoveKeeps

\* What admission has checked.
LEMMA AdmitIs ==
  ASSUME RunIInv, Exceeded = "none"
  PROVE  /\ usage.requests < MaxRequests
         /\ Grant \in 0 .. PerRequest /\ usage.tokens + Prompt + Grant <= MaxTokens
<1>1. usage.tokens \in Nat /\ usage.requests \in Nat
  BY DEF RunIInv, Usages
<1>2. usage.reason = "none" /\ usage.tokens < MaxTokens /\ usage.requests < MaxRequests /\ Prompt < Remaining
  <2>1. Remaining \in Nat
    BY <1>1, RunParameters DEF Remaining
  <2>2. usage.reason = "none"
    BY DEF Exceeded
  <2>3. ~(usage.tokens >= MaxTokens)
    BY <2>2 DEF Exceeded
  <2>4. ~(usage.requests >= MaxRequests)
    BY <2>2, <2>3 DEF Exceeded
  <2>5. ~(Prompt >= Remaining)
    BY <2>2, <2>3, <2>4 DEF Exceeded
  <2> QED BY <1>1, <2>1, <2>2, <2>3, <2>4, <2>5, RunParameters
<1>3. Remaining = MaxTokens - usage.tokens
  BY <1>1, <1>2, RunParameters DEF Remaining
<1> QED BY <1>1, <1>2, <1>3, RunParameters DEF Grant, Minimum

LEMMA AdmitStep ==
  ASSUME RunIInv, NEW c \in Connections, Admit(c)
  PROVE  RunIInv'
<1>1. request[c].step = "arrived" /\ Exceeded = "none" /\ RunnerIdle
  BY DEF Admit
<1>2. /\ usage.requests < MaxRequests
      /\ Grant \in 0 .. PerRequest /\ usage.tokens + Prompt + Grant <= MaxTokens
  BY <1>1, AdmitIs
<1>3. PICK streamed \in BOOLEAN :
        request' = [request EXCEPT ![c] = [step |-> "upstream", grant |-> Grant, streamed |-> streamed, token |-> FALSE]]
  BY DEF Admit
<1>4. PICK x \in Requests : /\ x = [step |-> "upstream", grant |-> Grant, streamed |-> streamed, token |-> FALSE]
                            /\ x.step = "upstream" /\ x.grant = Grant
  <2>1. PICK g \in 0 .. PerRequest : g = Grant
    BY <1>2
  <2>2. PICK y : y = [step |-> "upstream", grant |-> g, streamed |-> streamed, token |-> FALSE]
    OBVIOUS
  <2>3. y \in Requests
    BY <2>2 DEF Requests
  <2>4. y.step = "upstream" /\ y.grant = g
    BY <2>2
  <2> QED BY <2>1, <2>2, <2>3, <2>4
<1>5. request' = [request EXCEPT ![c] = x]
  BY <1>3, <1>4
<1>6. usage \in Usages /\ usage' = [usage EXCEPT !.requests = usage.requests + 1]
  BY DEF RunIInv, Admit
<1>7. PICK u \in Usages : /\ u = usage' /\ u.requests = usage.requests + 1 /\ u.tokens = usage.tokens
                          /\ u.successes = usage.successes /\ u.errors = usage.errors /\ u.upstream = usage.upstream
                          /\ u.raised = usage.raised
  BY <1>6 DEF Usages
<1>8. /\ request' \in [Connections -> Requests] /\ request'[c] = x
      /\ \A d \in Connections \ {c} : request'[d] = request[d] /\ Promised(d)' = Promised(d)
  BY <1>5, RequestMoves DEF RunIInv
<1>9. /\ Outstanding \in Nat /\ Outstanding' \in Nat /\ Promised(c) \in Nat /\ Promised(c)' \in Nat
      /\ Outstanding' = Outstanding - Promised(c) + Promised(c)'
      /\ Cardinality(AtUpstream) \in Nat /\ Cardinality(AtUpstream') \in Nat
      /\ Cardinality(AtUpstream') = Cardinality(AtUpstream) - (IF request[c].step = "upstream" THEN 1 ELSE 0)
                                      + (IF x.step = "upstream" THEN 1 ELSE 0)
  BY <1>5, BooksMove DEF RunIInv
<1>10. Promised(c) = 0 /\ Promised(c)' = Prompt + Grant + Excess
  BY <1>1, <1>4, <1>8 DEF Promised
<1>11. /\ usage.tokens \in Nat /\ usage.requests \in Nat /\ usage.successes \in Nat /\ usage.errors \in Nat
       /\ usage.upstream \in Nat /\ usage.raised \in Nat /\ Grant \in Nat
  BY <1>2, <1>6 DEF Usages
<1>12. RunTypeOK'
  BY <1>1, <1>7, <1>8 DEF RunIInv, RunTypeOK, RunnerIdle, Requests, Usages
<1>13. SpendIsBounded'
  <2>1. Outstanding + (MaxTokens + Excess) <= Cardinality(Connections) * (MaxTokens + Excess)
    BY <1>10, OthersAreBounded
  <2>2. Cardinality(Connections) * (MaxTokens + Excess) \in Nat
    BY RunParameters
  <2>3. u.tokens + Outstanding' <= Outstanding + (MaxTokens + Excess)
    BY <1>2, <1>7, <1>9, <1>10, <1>11, RunParameters
  <2>4. u.tokens + Outstanding' <= Cardinality(Connections) * (MaxTokens + Excess)
    BY <1>7, <1>9, <1>11, <2>1, <2>2, <2>3, RunParameters
  <2>5. u.requests <= MaxRequests
    BY <1>2, <1>7, <1>11, RunParameters
  <2> QED BY <1>7, <2>4, <2>5 DEF SpendIsBounded
<1>14. AccountsBalance'
  <2>1. /\ usage.requests = usage.successes + usage.errors + usage.raised + Cardinality(AtUpstream)
        /\ usage.upstream <= usage.errors
    BY DEF RunIInv, AccountsBalance
  <2>2. Cardinality(AtUpstream') = Cardinality(AtUpstream) + 1
    BY <1>1, <1>4, <1>9
  <2>3. u.requests = u.successes + u.errors + u.raised + Cardinality(AtUpstream')
    BY <1>7, <1>9, <1>11, <2>1, <2>2
  <2> QED BY <1>7, <2>1, <2>3 DEF AccountsBalance
<1>15. PromisesInv'
  <2>1. Prompt + Grant + Excess <= MaxTokens + Excess
    BY <1>2, <1>11, RunParameters
  <2> QED BY <1>8, <1>10, <2>1 DEF RunIInv, PromisesInv
<1> QED BY <1>7, <1>12, <1>13, <1>14, <1>15 DEF RunIInv

\* What a run that is classified comes to.
LEMMA OutcomeIs ==
  ASSUME RunTypeOK
  PROVE  Outcome \in RunOutcomes
<1>1. harness \in RunOutcomes /\ edited \in BOOLEAN
  BY DEF RunTypeOK
<1>2. usage.reason \in {"none", "token_limit_exceeded", "request_limit_exceeded", "proxy_error"}
  BY DEF RunTypeOK
<1>3. [harness EXCEPT !.exit = usage.reason] \in RunOutcomes
  BY <1>1, <1>2 DEF RunOutcomes
<1>4. [harness EXCEPT !.exit = "upstream_error"] \in RunOutcomes
  BY <1>1 DEF RunOutcomes
<1>5. [harness EXCEPT !.patch = edited] \in RunOutcomes
  BY <1>1 DEF RunOutcomes
<1> QED BY <1>1, <1>3, <1>4, <1>5 DEF Outcome

LEMMA LiteralOutcomes ==
  \A e \in {"completed", "agent_error", "sandbox_error"}, p \in BOOLEAN : [exit |-> e, patch |-> p] \in RunOutcomes
BY DEF RunOutcomes

\* The runner and the container, next to the proxy at rest.
RunnerMoves == Start \/ StartFails \/ Edit \/ HarnessEnds \/ ExecFails \/ TimePasses \/ WatchdogFires \/ Kill
                 \/ Expire \/ Join \/ Classify \/ Cleanup

LEMMA RunnerStep ==
  ASSUME RunIInv, RunnerMoves
  PROVE  RunIInv'
<1>1. request' = request /\ usage' = usage
  BY DEF RunnerMoves, ProxyIdle, Start, StartFails, Edit, HarnessEnds, ExecFails, TimePasses, WatchdogFires, Kill,
         Expire, Join, Classify, Cleanup
<1>2. usage' \in Usages /\ SpendIsBounded' /\ AccountsBalance' /\ PromisesInv'
  BY <1>1, BooksKeep
<1>3. RunTypeOK'
  <2>6. CASE Start \/ Edit
    BY <1>1, <2>6 DEF Start, Edit, RunIInv, RunTypeOK
  <2>7. CASE StartFails
    <3>1. result' \in RunOutcomes
      BY <2>7, LiteralOutcomes DEF StartFails
    <3> QED BY <1>1, <2>7, <3>1 DEF StartFails, RunIInv, RunTypeOK
  <2>1. CASE HarnessEnds \/ ExecFails
    <3>1. harness' \in RunOutcomes
      BY <2>1, LiteralOutcomes DEF HarnessEnds, ExecFails
    <3> QED BY <1>1, <2>1, <3>1 DEF HarnessEnds, ExecFails, RunIInv, RunTypeOK
  <2>2. CASE TimePasses \/ WatchdogFires \/ Kill \/ Expire
    BY <1>1, <2>2 DEF TimePasses, WatchdogFires, Kill, Expire, RunIInv, RunTypeOK
  <2>3. CASE Join
    BY <1>1, <2>3 DEF Join, RunIInv, RunTypeOK, RunOutcomes
  <2>4. CASE Classify
    <3>1. Outcome \in RunOutcomes
      BY OutcomeIs DEF RunIInv
    <3>2. [Outcome EXCEPT !.patch = FALSE] \in RunOutcomes
      BY <3>1 DEF RunOutcomes
    <3>3. result' \in RunOutcomes
      BY <2>4, <3>1, <3>2 DEF Classify
    <3> QED BY <1>1, <2>4, <3>3 DEF Classify, RunIInv, RunTypeOK
  <2>5. CASE Cleanup
    BY <1>1, <2>5 DEF Cleanup, RunIInv, RunTypeOK
  <2> QED BY <2>1, <2>2, <2>3, <2>4, <2>5, <2>6, <2>7 DEF RunnerMoves
<1> QED BY <1>2, <1>3 DEF RunIInv

LEMMA NextRunStep ==
  ASSUME RunIInv, NextRun
  PROVE  RunIInv'
<1>1. RunInit'
  BY DEF NextRun, RunInit
<1>2. (RunInit => RunIInv)'
  BY RunStarts, PTL
<1> QED BY <1>1, <1>2

LEMMA RunSteps == RunIInv /\ [RunNext]_runVars => RunIInv'
<1> SUFFICES ASSUME RunIInv, [RunNext]_runVars PROVE RunIInv'
  OBVIOUS
<1>1. CASE \E c \in Connections : HandlerSteps(c)
  BY <1>1, ArriveStep, AdmitStep, RejectStep, FirstTokenStep, AnsweredStep, ErrorsStep, RaisesStep
  DEF HandlerSteps
<1>2. CASE RunnerMoves
  BY <1>2, RunnerStep
<1>3. CASE NextRun
  BY <1>3, NextRunStep
<1>4. CASE UNCHANGED runVars
  <2>1. UNCHANGED <<request, usage>> /\ RunTypeOK'
    BY <1>4 DEF runVars, RunIInv, RunTypeOK
  <2>2. usage' \in Usages /\ SpendIsBounded' /\ AccountsBalance' /\ PromisesInv'
    BY <2>1, BooksKeep
  <2> QED BY <2>1, <2>2 DEF RunIInv
<1> QED BY <1>1, <1>2, <1>3, <1>4 DEF RunNext, Runs, RunnerMoves

\* Every admitted request is in flight, recorded once or lost to an exception nothing
\* records, requests keep to their limit, and spent and promised tokens to one token limit
\* and one excess per connection, for any number of connections, any limits and any excess
\* (SolveBudget, SolveUsageSummary).
THEOREM RunIsAccounted == RunSpec => []RunInvariant
<1>1. RunIInv => RunInvariant
  BY DEF RunIInv, RunInvariant
<1> QED BY <1>1, RunStarts, RunSteps, PTL DEF RunSpec

\* A run that saw an outage and has no patch ends as one to try again, unless it
\* overspent, whatever else went wrong (run_agent_in_container).
THEOREM OutagesLeadToRetries == RunSpec => OutagesAreRetried
<1> DEFINE Kept == result.exit = "none" /\ result'.exit # "none" /\ usage.upstream > 0 /\ ~result'.patch
                     => \/ result'.exit \in Retryable
                        \/ usage.reason # "none" /\ harness.exit = "completed"
<1>1. RunIInv /\ [RunNext]_runVars => [Kept]_runVars
  <2> SUFFICES ASSUME RunIInv, RunNext, result.exit = "none", result'.exit # "none", usage.upstream > 0, ~result'.patch
               PROVE  \/ result'.exit \in Retryable
                      \/ usage.reason # "none" /\ harness.exit = "completed"
    OBVIOUS
  <2>1. CASE StartFails
    BY <2>1 DEF StartFails, Retryable
  <2>2. CASE Classify
    <3>1. harness \in RunOutcomes /\ killed \in {"none", "time_limit_exceeded", "no_activity_timeout"}
      BY DEF RunIInv, RunTypeOK
    <3>2. Outcome \in RunOutcomes
      BY OutcomeIs DEF RunIInv
    <3>3. result' = Outcome \/ (Outcome.exit = killed /\ result' = [Outcome EXCEPT !.patch = FALSE])
      BY <2>2 DEF Classify
    <3>4. result'.exit = Outcome.exit
      BY <3>2, <3>3 DEF RunOutcomes
    <3>5. CASE usage.reason # "none" /\ harness.exit = "completed"
      BY <3>5
    <3>6. CASE ~(usage.reason # "none" /\ harness.exit = "completed") /\ ~UsablePatch
      <4>1. Outcome = [harness EXCEPT !.exit = "upstream_error"]
        BY <3>6 DEF Outcome
      <4>2. Outcome.exit = "upstream_error"
        BY <3>1, <4>1 DEF RunOutcomes
      <4> QED BY <3>4, <4>2 DEF Retryable
    <3>7. CASE ~(usage.reason # "none" /\ harness.exit = "completed") /\ UsablePatch
      <4>1. harness.exit = "completed" /\ harness.patch /\ harness.exit # killed
        BY <3>1, <3>7 DEF UsablePatch
      <4>2. Outcome = harness
        BY <3>7, <4>1 DEF Outcome
      <4> QED BY <3>1, <3>3, <4>1, <4>2
    <3> QED BY <3>5, <3>6, <3>7
  <2>3. CASE NextRun
    BY <2>3 DEF NextRun, NoOutcome
  <2>4. CASE ~StartFails /\ ~Classify /\ ~NextRun
    <3>1. result' = result
      BY <2>4 DEF RunNext, Runs, HandlerSteps, Arrive, Admit, Reject, FirstToken, Answered, Refused, Faulted, Raises,
                  RunnerIdle, Start, Edit, HarnessEnds, ExecFails, TimePasses, WatchdogFires, Kill, Expire, Join, Cleanup
    <3> QED BY <3>1
  <2> QED BY <2>1, <2>2, <2>3, <2>4
<1> QED BY <1>1, RunStarts, RunSteps, PTL DEF RunSpec, OutagesAreRetried

-----------------------------------------------------------------------------
(* Asking the models *)

\* The row under way: it has no answer yet, and the next attempt is one to make.
\* The screener's first round asks the routes one after the other, and spends no
\* more than a slow call on each.
UnderWay ==
  Pending =>
    /\ answer = Unsaid
    /\ route \in 1 .. Routes /\ try \in 1 .. Tries
    /\ caller = "screener" =>
         /\ try = 1 => 1 .. route - 1 \subseteq asked /\ elapsed <= CallTime * (route - 1)
         /\ try > 1 => asked = 1 .. Routes

CallsIInv == CallsInvariant /\ barred \subseteq asked /\ UnderWay

VerdictOf(w, k, c) == [winner |-> w, king |-> k, challenger |-> c]

LEMMA VerdictFields ==
  ASSUME NEW w, NEW k, NEW c
  PROVE  VerdictOf(w, k, c).winner = w /\ VerdictOf(w, k, c).king = k /\ VerdictOf(w, k, c).challenger = c
BY DEF VerdictOf

LEMMA VerdictsAre ==
  ASSUME NEW w \in {"king", "challenger", "tie", "failed"}, NEW k \in 0 .. 100, NEW c \in 0 .. 100
  PROVE  VerdictOf(w, k, c) \in Results /\ VerdictOf(w, k, c) # NoAnswer
<1>1. VerdictOf(w, k, c) \in Results
  BY DEF Results, VerdictOf
<1>2. VerdictOf(w, k, c).winner = w
  BY VerdictFields
<1>3. NoAnswer.winner = "none"
  BY DEF NoAnswer
<1> QED BY <1>1, <1>2, <1>3

LEMMA NoAnswerIs == NoAnswer \in Results
<1>1. 0 \in 0 .. 100
  OBVIOUS
<1> QED BY <1>1 DEF NoAnswer, Results

LEMMA LastRoute ==
  ASSUME route = Routes, 1 .. route - 1 \subseteq asked
  PROVE  1 .. Routes \subseteq asked \cup {route}
<1> SUFFICES ASSUME NEW r \in 1 .. Routes PROVE r \in asked \cup {route}
  OBVIOUS
<1>1. r = Routes \/ r \in 1 .. Routes - 1
  BY LlmCallsAssumption
<1> QED BY <1>1

LEMMA UnansweredIs == Unanswered \in Results /\ Unanswered # NoAnswer /\ (caller = "judge" => Unanswered # Failed)
BY DEF Unanswered, Failed, Results, NoAnswer

LEMMA CallsStart == CallsInit => CallsIInv
<1> SUFFICES ASSUME CallsInit PROVE CallsIInv
  OBVIOUS
<1>1. CallsTypeOK
  <2>1. verdict \in Results
    BY NoAnswerIs DEF CallsInit
  <2>2. /\ route \in 1 .. Routes + 1 /\ try \in 1 .. Tries + 1 /\ elapsed \in 0 .. TotalTime
        /\ route \in 1 .. Routes /\ try \in 1 .. Tries
    BY LlmCallsAssumption DEF CallsInit
  <2> QED BY <2>1, <2>2 DEF CallsInit, CallsTypeOK
<1>2. AnswersKeepTheirRoles
  BY DEF CallsInit, AnswersKeepTheirRoles
<1>3. EveryRouteAsked
  BY DEF CallsInit, EveryRouteAsked, Failed, NoAnswer
<1>4. UnderWay
  <2>1. route \in 1 .. Routes /\ try \in 1 .. Tries /\ 1 .. route - 1 \subseteq asked /\ elapsed <= CallTime * (route - 1)
    BY LlmCallsAssumption DEF CallsInit
  <2> QED BY <2>1 DEF CallsInit, UnderWay
<1> QED BY <1>1, <1>2, <1>3, <1>4 DEF CallsIInv, CallsInvariant, CallsInit

-----------------------------------------------------------------------------
\* Attempts that leave no answer.

\* The next attempt after one that is over: no route is left out of the first round,
\* and its time is a slow call for each route.
LEMMA FollowingIs ==
  ASSUME CallsIInv, Pending, GoesOn(Following), UNCHANGED <<caller, kingFirst, answer>>,
         asked' = asked \cup {route}, barred' \subseteq asked', elapsed' \in 0 .. TotalTime,
         caller = "screener" => elapsed' <= elapsed + CallTime
  PROVE  CallsIInv'
<1>1. /\ route \in 1 .. Routes /\ try \in 1 .. Tries /\ asked \subseteq 1 .. Routes /\ answer = Unsaid
      /\ verdict = NoAnswer /\ elapsed \in 0 .. TotalTime /\ caller \in {"judge", "screener"} /\ kingFirst \in BOOLEAN
  BY DEF CallsIInv, CallsInvariant, CallsTypeOK, UnderWay, Pending
<1>2. Routes \in Nat /\ Tries \in Nat /\ CallTime \in Nat
  BY LlmCallsAssumption
<1>3. route' = Following[1] /\ try' = Following[2] /\ verdict' = IF Exhausted(Following) THEN Unanswered ELSE NoAnswer
  BY <1>1 DEF GoesOn
<1>4. /\ caller = "judge" => \/ try < Tries /\ route' = route /\ try' = try + 1
                             \/ route' = route + 1 /\ try' = 1
      /\ caller = "screener" => \/ route < Routes /\ route' = route + 1 /\ try' = try
                                \/ route = Routes /\ route' = 1 /\ try' = try + 1
  BY <1>1, <1>2, <1>3 DEF Following
<1>5. Exhausted(Following) <=> route' > Routes \/ try' > Tries
  BY <1>3 DEF Exhausted
<1>6. /\ route' \in 1 .. Routes + 1 /\ try' \in 1 .. Tries + 1
      /\ ~Exhausted(Following) => route' \in 1 .. Routes /\ try' \in 1 .. Tries
  BY <1>1, <1>2, <1>4, <1>5
<1>7. asked' \subseteq 1 .. Routes
  BY <1>1
<1>8. CallsTypeOK'
  BY <1>1, <1>3, <1>6, <1>7, UnansweredIs, NoAnswerIs DEF CallsTypeOK
<1>9. AnswersKeepTheirRoles'
  BY <1>1 DEF AnswersKeepTheirRoles
<1>10. ASSUME caller = "screener", try' > 1 PROVE asked' = 1 .. Routes
  <2>1. CASE try > 1
    BY <1>1, <1>10, <2>1 DEF CallsIInv, UnderWay, Pending
  <2>2. CASE try = 1
    <3>1. route = Routes
      BY <1>1, <1>4, <1>10, <2>2
    <3>2. 1 .. route - 1 \subseteq asked
      BY <1>1, <1>10, <2>2 DEF CallsIInv, UnderWay, Pending
    <3> QED BY <1>7, <3>1, <3>2, LastRoute
  <2> QED BY <1>1, <2>1, <2>2
<1>11. ASSUME caller = "screener", try' = 1 PROVE 1 .. route' - 1 \subseteq asked' /\ elapsed' <= CallTime * (route' - 1)
  <2>1. try = 1 /\ route' = route + 1
    BY <1>1, <1>4, <1>11
  <2>2. 1 .. route - 1 \subseteq asked /\ elapsed <= CallTime * (route - 1)
    BY <1>1, <1>11, <2>1 DEF CallsIInv, UnderWay, Pending
  <2>3. 1 .. route' - 1 \subseteq asked'
    BY <1>1, <2>1, <2>2
  <2>4. CallTime * (route' - 1) = CallTime * (route - 1) + CallTime
    BY <1>1, <1>2, <2>1
  <2>5. CallTime * (route - 1) \in Int
    BY <1>1, <1>2
  <2> QED BY <1>1, <1>2, <1>11, <2>2, <2>3, <2>4, <2>5
<1>12. EveryRouteAsked'
  <2> SUFFICES ASSUME caller = "screener", verdict' = Failed PROVE asked' = 1 .. Routes
    BY DEF EveryRouteAsked
  <2>1. Exhausted(Following)
    BY <1>3 DEF Failed, NoAnswer
  <2>2. try' > Tries
    BY <1>1, <1>2, <1>4, <1>5, <2>1
  <2>3. try' > 1
    BY <1>6, <2>2, LlmCallsAssumption
  <2> QED BY <1>10, <2>3
<1>13. UnderWay'
  <2> SUFFICES ASSUME Pending' PROVE /\ answer' = Unsaid /\ route' \in 1 .. Routes /\ try' \in 1 .. Tries
                                     /\ caller' = "screener" =>
                                          /\ try' = 1 => 1 .. route' - 1 \subseteq asked' /\ elapsed' <= CallTime * (route' - 1)
                                          /\ try' > 1 => asked' = 1 .. Routes
    BY DEF UnderWay
  <2>1. ~Exhausted(Following)
    BY <1>3, UnansweredIs DEF Pending
  <2> QED BY <1>1, <1>6, <1>10, <1>11, <2>1
<1> QED BY <1>8, <1>9, <1>12, <1>13 DEF CallsIInv, CallsInvariant

\* The judge's next route.
LEMMA JudgeGoesOn ==
  ASSUME CallsIInv, Pending, caller = "judge", GoesOn(<<route + 1, 1>>), UNCHANGED <<caller, kingFirst, answer, barred>>,
         asked' = asked \cup {route}, elapsed' = elapsed
  PROVE  CallsIInv'
<1>1. /\ route \in 1 .. Routes /\ asked \subseteq 1 .. Routes /\ answer = Unsaid /\ barred \subseteq 1 .. Routes
      /\ verdict = NoAnswer /\ elapsed \in 0 .. TotalTime /\ kingFirst \in BOOLEAN /\ barred \subseteq asked
  BY DEF CallsIInv, CallsInvariant, CallsTypeOK, UnderWay, Pending
<1>2. route' = route + 1 /\ try' = 1 /\ verdict' = IF Exhausted(<<route + 1, 1>>) THEN Unanswered ELSE NoAnswer
  BY <1>1 DEF GoesOn
<1>3. ~Exhausted(<<route + 1, 1>>) => route' \in 1 .. Routes
  BY <1>1, <1>2, LlmCallsAssumption DEF Exhausted
<1>4. route' \in 1 .. Routes + 1 /\ try' \in 1 .. Tries + 1 /\ try' \in 1 .. Tries
  BY <1>1, <1>2, LlmCallsAssumption
<1>5. CallsTypeOK'
  BY <1>1, <1>2, <1>4, UnansweredIs, NoAnswerIs DEF CallsTypeOK
<1>6. AnswersKeepTheirRoles'
  BY <1>1 DEF AnswersKeepTheirRoles
<1>7. EveryRouteAsked'
  BY DEF EveryRouteAsked
<1>8. UnderWay'
  BY <1>1, <1>2, <1>3, <1>4, UnansweredIs DEF UnderWay, Pending
<1> QED BY <1>1, <1>5, <1>6, <1>7, <1>8 DEF CallsIInv, CallsInvariant

LEMMA PassStep ==
  ASSUME CallsIInv, Pass
  PROVE  CallsIInv'
<1>1. Pending /\ route \in barred /\ GoesOn(Following) /\ UNCHANGED <<caller, kingFirst, answer, barred, asked, elapsed>>
  BY DEF Pass
<1>2. barred \subseteq asked /\ elapsed \in 0 .. TotalTime /\ CallTime \in Nat
  BY LlmCallsAssumption DEF CallsIInv, CallsInvariant, CallsTypeOK
<1>3. asked' = asked \cup {route} /\ barred' \subseteq asked' /\ elapsed' \in 0 .. TotalTime /\ elapsed' <= elapsed + CallTime
  BY <1>1, <1>2
<1> QED BY <1>1, <1>3, FollowingIs

LEMMA AttemptFailsStep ==
  ASSUME CallsIInv, AttemptFails
  PROVE  CallsIInv'
<1>1. PICK spent \in 0 .. (IF caller = "screener" THEN CallTime ELSE TotalTime - 1) : Asks(spent)
  BY DEF AttemptFails
<1>2. GoesOn(Following) /\ UNCHANGED <<caller, barred, kingFirst, answer>> /\ Pending
  BY <1>1 DEF AttemptFails, Asks
<1>3. barred \subseteq asked /\ elapsed \in 0 .. TotalTime /\ CallTime \in Nat /\ TotalTime \in Nat
  BY LlmCallsAssumption DEF CallsIInv, CallsInvariant, CallsTypeOK
<1>4. spent \in Nat /\ (caller = "screener" => spent <= CallTime)
  BY <1>1, <1>3
<1>5. elapsed + spent <= TotalTime /\ elapsed' = elapsed + spent /\ asked' = asked \cup {route}
  BY <1>1 DEF Asks
<1>6. elapsed' \in 0 .. TotalTime /\ (caller = "screener" => elapsed' <= elapsed + CallTime)
  BY <1>3, <1>4, <1>5
<1>7. barred' \subseteq asked'
  BY <1>2, <1>3, <1>5
<1> QED BY <1>2, <1>5, <1>6, <1>7, FollowingIs

LEMMA RouteFailsStep ==
  ASSUME CallsIInv, RouteFails
  PROVE  CallsIInv'
<1>1. Asks(0) /\ UNCHANGED <<caller, kingFirst, answer>> /\ Pending
  BY DEF RouteFails, Asks
<1>2. barred \subseteq asked /\ elapsed \in 0 .. TotalTime /\ CallTime \in Nat /\ TotalTime \in Nat
  BY LlmCallsAssumption DEF CallsIInv, CallsInvariant, CallsTypeOK
<1>3. elapsed' = elapsed /\ asked' = asked \cup {route}
  BY <1>1, <1>2 DEF Asks
<1>4. CASE caller = "judge"
  BY <1>1, <1>3, <1>4, JudgeGoesOn DEF RouteFails
<1>5. CASE caller # "judge"
  <2>1. GoesOn(Following) /\ barred' = barred \cup {route}
    BY <1>5 DEF RouteFails
  <2>2. barred' \subseteq asked' /\ elapsed' \in 0 .. TotalTime /\ elapsed' <= elapsed + CallTime
    BY <1>2, <1>3, <2>1
  <2> QED BY <1>1, <1>3, <2>1, <2>2, FollowingIs
<1> QED BY <1>4, <1>5

\* The total time is over: a screener within its first round has come to the last route.
LEMMA TotalTimeoutStep ==
  ASSUME CallsIInv, TotalTimeout
  PROVE  CallsIInv'
<1>1. /\ Pending /\ route \notin barred /\ (caller = "judge" \/ elapsed + CallTime > TotalTime)
      /\ elapsed' = TotalTime /\ asked' = asked \cup {route} /\ verdict' = Unanswered
      /\ UNCHANGED <<caller, route, try, barred, kingFirst, answer>>
  BY DEF TotalTimeout
<1>2. /\ route \in 1 .. Routes /\ try \in 1 .. Tries /\ asked \subseteq 1 .. Routes /\ answer = Unsaid
      /\ barred \subseteq asked /\ elapsed \in 0 .. TotalTime /\ CallsTypeOK
  BY <1>1 DEF CallsIInv, CallsInvariant, CallsTypeOK, UnderWay
<1>3. Routes \in Nat /\ CallTime \in Nat /\ TotalTime \in Nat
  BY LlmCallsAssumption
<1>4. CallsTypeOK'
  <2>1. elapsed' \in 0 .. TotalTime /\ asked' \subseteq 1 .. Routes
    BY <1>1, <1>2, <1>3
  <2> QED BY <1>1, <1>2, <2>1, UnansweredIs DEF CallsTypeOK
<1>5. EveryRouteAsked'
  <2> SUFFICES ASSUME caller = "screener", CallTime * (Routes - 1) < TotalTime PROVE asked' = 1 .. Routes
    BY <1>1 DEF EveryRouteAsked
  <2>1. CASE try = 1
    <3>1. 1 .. route - 1 \subseteq asked /\ elapsed <= CallTime * (route - 1)
      BY <1>1, <2>1 DEF CallsIInv, UnderWay
    <3>2. elapsed + CallTime > TotalTime
      BY <1>1
    <3>3. CallTime * (route - 1) \in Int /\ CallTime * (Routes - 1) \in Int
      BY <1>2, <1>3
    <3>4. CASE route < Routes
      <4>5. PICK d \in Nat : d = Routes - 1 - route
        BY <1>2, <1>3, <3>4
      <4>1. Routes - 1 = (route - 1) + 1 + d
        BY <1>2, <1>3, <4>5
      <4>2. CallTime * (Routes - 1) = CallTime * (route - 1) + CallTime + CallTime * d
        BY <1>2, <1>3, <4>1
      <4>3. CallTime * d \in Nat
        BY <1>3, <4>1
      <4> QED BY <1>2, <1>3, <3>1, <3>2, <3>3, <4>2, <4>3
    <3>5. CASE route = Routes
      <4>1. asked' \subseteq 1 .. Routes /\ asked' = asked \cup {route}
        BY <1>1, <1>2
      <4> QED BY <3>1, <3>5, <4>1, LastRoute
    <3> QED BY <1>2, <1>3, <3>4, <3>5
  <2>2. CASE try > 1
    BY <1>1, <1>2, <2>2 DEF CallsIInv, UnderWay
  <2> QED BY <1>2, <2>1, <2>2
<1>6. AnswersKeepTheirRoles'
  BY <1>1, <1>2 DEF AnswersKeepTheirRoles
<1>7. UnderWay'
  BY <1>1, UnansweredIs DEF UnderWay, Pending
<1>8. barred' \subseteq asked'
  BY <1>1, <1>2
<1> QED BY <1>4, <1>5, <1>6, <1>7, <1>8 DEF CallsIInv, CallsInvariant

-----------------------------------------------------------------------------
\* Verdicts.

LEMMA GuardedStep ==
  ASSUME CallsIInv, Guarded
  PROVE  CallsIInv'
<1>1. PICK addressing \in SUBSET {"king", "challenger"} \ {{}} :
       verdict' = [winner |-> CASE addressing = {"king"} -> "challenger"
                                [] addressing = {"challenger"} -> "king"
                                [] OTHER -> "tie",
                   king |-> IF "king" \in addressing THEN 0 ELSE 100,
                   challenger |-> IF "challenger" \in addressing THEN 0 ELSE 100]
  BY DEF Guarded
<1>2. PICK w \in {"king", "challenger", "tie"}, k \in 0 .. 100, c \in 0 .. 100 :
        verdict' = [winner |-> w, king |-> k, challenger |-> c]
  <2>1. PICK w \in {"king", "challenger", "tie"} :
          w = CASE addressing = {"king"} -> "challenger" [] addressing = {"challenger"} -> "king" [] OTHER -> "tie"
    <3>1. {"king"} # {"challenger"}
      OBVIOUS
    <3> QED BY <3>1
  <2>2. PICK k \in 0 .. 100, c \in 0 .. 100 : /\ k = IF "king" \in addressing THEN 0 ELSE 100
                                              /\ c = IF "challenger" \in addressing THEN 0 ELSE 100
    OBVIOUS
  <2>3. verdict' = [winner |-> w, king |-> k, challenger |-> c]
    BY <1>1, <2>1, <2>2
  <2> QED BY <2>3
<1>3. verdict' \in Results /\ verdict' # NoAnswer
  <2>1. w \in {"king", "challenger", "tie", "failed"}
    OBVIOUS
  <2>2. VerdictOf(w, k, c) \in Results /\ VerdictOf(w, k, c) # NoAnswer
    BY <1>2, <2>1, VerdictsAre
  <2> QED BY <1>2, <2>2 DEF VerdictOf
<1>4. /\ Pending /\ caller = "judge" /\ UNCHANGED <<caller, route, try, barred, asked, elapsed, kingFirst, answer>>
  BY DEF Guarded
<1>5. answer = Unsaid
  BY <1>4 DEF CallsIInv, UnderWay
<1>6. CallsTypeOK' /\ barred' \subseteq asked'
  BY <1>3, <1>4 DEF CallsIInv, CallsInvariant, CallsTypeOK
<1>7. AnswersKeepTheirRoles' /\ EveryRouteAsked' /\ UnderWay'
  BY <1>3, <1>4, <1>5 DEF AnswersKeepTheirRoles, EveryRouteAsked, UnderWay, Pending
<1> QED BY <1>6, <1>7 DEF CallsIInv, CallsInvariant

LEMMA ClampedIs == \A n \in Int : Clamped(n) \in 0 .. 100
BY DEF Clamped, NotANumber

\* A winner read as the model named it, as a tie if it named none, or by the scores.
ReadsAs(token, w, x, y) ==
  /\ token \in {"a", "b", "tie"} => w = token
  /\ token = "missing" => w = "tie"
  /\ token = "unreadable" /\ x > y => w = "a"
  /\ token = "unreadable" /\ x < y => w = "b"
  /\ token = "unreadable" /\ x = y => w = "tie"

\* How far the scores are apart that a winner stands for.
Lead(token) == IF token = "a" THEN 100 ELSE IF token = "b" THEN -100 ELSE 0

LEMMA DeclaredIs ==
  ASSUME NEW token \in {"a", "b", "tie", "missing", "unreadable"}, NEW x \in 0 .. 100, NEW y \in 0 .. 100
  PROVE  Declared(token, x, y) \in {"a", "b", "tie"} /\ ReadsAs(token, Declared(token, x, y), x, y)
BY DEF Declared, ReadsAs

\* An answer read as what the model said of the candidates A and B.
Reading(read, token, given, a, b) ==
  /\ read[1] \in {"a", "b", "tie"} /\ read[2] \in 0 .. 100 /\ read[3] \in 0 .. 100
  /\ ReadsAs(token, read[1], read[2], read[3])
  /\ given => read[2] = Clamped(a) /\ read[3] = Clamped(b)
  /\ ~given => read[2] - read[3] = Lead(token)

LEMMA ParsedIs ==
  ASSUME NEW token \in {"a", "b", "tie", "missing", "unreadable"}, NEW a \in Int, NEW b \in Int, NEW given \in BOOLEAN,
         NEW scores, scores = IF given THEN <<a, b>> ELSE <<>>
  PROVE  Reading(Parsed(token, scores), token, given, a, b)
<1>1. PICK x \in 0 .. 100, y \in 0 .. 100 :
        /\ given => x = Clamped(a) /\ y = Clamped(b)
        /\ ~given => x - y = Lead(token)
        /\ (IF scores = <<>> THEN Implied(token) ELSE <<Clamped(scores[1]), Clamped(scores[2])>>) = <<x, y>>
  <2>1. CASE given
    <3>1. PICK x \in 0 .. 100, y \in 0 .. 100 : x = Clamped(a) /\ y = Clamped(b)
      BY ClampedIs
    <3>2. scores # <<>> /\ scores[1] = a /\ scores[2] = b
      BY <2>1
    <3> QED BY <3>1, <3>2
  <2>2. CASE ~given
    <3>1. PICK x \in 0 .. 100, y \in 0 .. 100 : Implied(token) = <<x, y>> /\ x - y = Lead(token)
      <4>1. CASE token = "a"
        <5>1. Implied(token) = <<100, 0>> /\ 100 - 0 = Lead(token)
          BY <4>1 DEF Implied, Lead
        <5>2. 100 \in 0 .. 100 /\ 0 \in 0 .. 100
          OBVIOUS
        <5> QED BY <5>1, <5>2
      <4>2. CASE token = "b"
        <5>1. Implied(token) = <<0, 100>> /\ 0 - 100 = Lead(token)
          BY <4>2 DEF Implied, Lead
        <5>2. 0 \in 0 .. 100 /\ 100 \in 0 .. 100
          OBVIOUS
        <5> QED BY <5>1, <5>2
      <4>3. CASE token \notin {"a", "b"}
        <5>1. Implied(token) = <<50, 50>> /\ 50 - 50 = Lead(token)
          BY <4>3 DEF Implied, Lead
        <5>2. 50 \in 0 .. 100 /\ 50 \in 0 .. 100
          OBVIOUS
        <5> QED BY <5>1, <5>2
      <4> QED BY <4>1, <4>2, <4>3
    <3>2. scores = <<>>
      BY <2>2
    <3> QED BY <2>2, <3>1, <3>2
  <2> QED BY <2>1, <2>2
<1>2. PICK w \in {"a", "b", "tie"} : w = Declared(token, x, y) /\ ReadsAs(token, w, x, y)
  <2>1. PICK w : w = Declared(token, x, y)
    OBVIOUS
  <2>2. w \in {"a", "b", "tie"} /\ ReadsAs(token, w, x, y)
    BY <2>1, DeclaredIs
  <2> QED BY <2>1, <2>2
<1>3. Parsed(token, scores) = <<w, x, y>>
  BY <1>1, <1>2 DEF Parsed
<1>4. PICK read : read = Parsed(token, scores) /\ read[1] = w /\ read[2] = x /\ read[3] = y
  BY <1>3
<1> QED BY <1>1, <1>2, <1>4 DEF Reading

LEMMA JudgedStep ==
  ASSUME CallsIInv, Judged
  PROVE  CallsIInv'
<1>1. caller = "judge" /\ Asks(0) /\ UNCHANGED <<caller, route, try, barred, kingFirst>>
  BY DEF Judged
<1>2. PICK winner \in {"king", "challenger", "tie", "missing", "unreadable"}, k \in Scores, c \in Scores, given \in BOOLEAN :
       LET token == IF winner \in {"king", "challenger"} THEN Shown(winner) ELSE winner
           scores == IF ~given THEN <<>> ELSE IF kingFirst THEN <<k, c>> ELSE <<c, k>>
       IN /\ answer' = [winner |-> winner, scored |-> given,
                         king |-> IF given THEN k ELSE 0, challenger |-> IF given THEN c ELSE 0]
          /\ verdict' = Unblinded(Parsed(token, scores))
  BY DEF Judged
<1>3. k \in Int /\ c \in Int
  BY LlmCallsAssumption
<1>4. PICK token \in {"a", "b", "tie", "missing", "unreadable"} :
         /\ token = IF winner \in {"king", "challenger"} THEN Shown(winner) ELSE winner
         /\ winner = "king" => token = IF kingFirst THEN "a" ELSE "b"
         /\ winner = "challenger" => token = IF kingFirst THEN "b" ELSE "a"
         /\ winner \notin {"king", "challenger"} => token = winner
  <2>1. kingFirst \in BOOLEAN
    BY DEF CallsIInv, CallsInvariant, CallsTypeOK
  <2> QED BY <2>1 DEF Shown
<1>5. PICK a \in Int, b \in Int : /\ a = IF kingFirst THEN k ELSE c
                                  /\ b = IF kingFirst THEN c ELSE k
  BY <1>3
<1>6. PICK scores : /\ scores = IF given THEN <<a, b>> ELSE <<>>
                    /\ verdict' = Unblinded(Parsed(token, scores))
                    /\ answer' = [winner |-> winner, scored |-> given,
                                  king |-> IF given THEN k ELSE 0, challenger |-> IF given THEN c ELSE 0]
  BY <1>2, <1>4, <1>5
<1>8. PICK v : v = Parsed(token, scores) /\ Reading(v, token, given, a, b)
  BY <1>6, ParsedIs
<1>7. PICK w \in {"a", "b", "tie"}, x \in 0 .. 100, y \in 0 .. 100 :
         /\ v[1] = w /\ v[2] = x /\ v[3] = y /\ ReadsAs(token, w, x, y)
         /\ given => x = Clamped(a) /\ y = Clamped(b)
         /\ ~given => x - y = Lead(token)
  BY <1>8 DEF Reading
<1>9. PICK r \in {"king", "challenger", "tie"}, p \in 0 .. 100, q \in 0 .. 100 :
         /\ r = IF w = "tie" THEN "tie" ELSE IF (w = "a") = kingFirst THEN "king" ELSE "challenger"
         /\ p = IF kingFirst THEN x ELSE y
         /\ q = IF kingFirst THEN y ELSE x
  OBVIOUS
<1>10. verdict' = [winner |-> r, king |-> p, challenger |-> q]
  BY <1>6, <1>7, <1>8, <1>9 DEF Unblinded
<1>11. /\ verdict' \in Results /\ verdict' # NoAnswer
       /\ verdict'.winner = r /\ verdict'.king = p /\ verdict'.challenger = q
  <2>1. r \in {"king", "challenger", "tie", "failed"}
    OBVIOUS
  <2>2. VerdictOf(r, p, q) \in Results /\ VerdictOf(r, p, q) # NoAnswer
    BY <2>1, VerdictsAre
  <2>4. VerdictOf(r, p, q).winner = r /\ VerdictOf(r, p, q).king = p /\ VerdictOf(r, p, q).challenger = q
    BY VerdictFields
  <2>3. verdict' = VerdictOf(r, p, q)
    BY <1>10 DEF VerdictOf
  <2> QED BY <2>2, <2>3, <2>4
<1>12. /\ answer'.winner = winner /\ answer'.scored = given /\ answer'.king = (IF given THEN k ELSE 0)
       /\ answer'.challenger = (IF given THEN c ELSE 0)
  BY <1>6
<1>13. kingFirst \in BOOLEAN
  BY DEF CallsIInv, CallsInvariant, CallsTypeOK
<1>14. AnswersKeepTheirRoles'
  <2>1. winner \in {"king", "challenger"} => r = winner
    BY <1>4, <1>7, <1>9, <1>13 DEF ReadsAs
  <2>2. winner \in {"tie", "missing"} => r = "tie"
    BY <1>4, <1>7, <1>9 DEF ReadsAs
  <2>3. given => p = Clamped(k) /\ q = Clamped(c)
    BY <1>5, <1>7, <1>9
  <2>4. ASSUME ~given
        PROVE  p - q = CASE winner = "king" -> 100 [] winner = "challenger" -> -100 [] OTHER -> 0
    <3>1. x - y = Lead(token)
      BY <1>7, <2>4
    <3>2. CASE winner = "king"
      BY <1>4, <1>9, <1>13, <3>1, <3>2 DEF Lead
    <3>3. CASE winner = "challenger"
      BY <1>4, <1>9, <1>13, <3>1, <3>3 DEF Lead
    <3>4. CASE winner \notin {"king", "challenger"}
      <4>1. p - q = 0
        BY <1>4, <1>9, <3>1, <3>4 DEF Lead
      <4> QED BY <3>4, <4>1
    <3> QED BY <3>2, <3>3, <3>4
  <2>5. ASSUME winner = "unreadable"
        PROVE  CASE p > q -> r = "king" [] p < q -> r = "challenger" [] OTHER -> r = "tie"
    <3>1. token = "unreadable"
      BY <1>4, <2>5
    <3>2. p > q => r = "king"
      BY <1>7, <1>9, <1>13, <3>1 DEF ReadsAs
    <3>3. p < q => r = "challenger"
      BY <1>7, <1>9, <1>13, <3>1 DEF ReadsAs
    <3>4. p = q => r = "tie"
      BY <1>7, <1>9, <1>13, <3>1 DEF ReadsAs
    <3>5. ~(p > q) /\ ~(p < q) => p = q
      OBVIOUS
    <3> QED BY <3>2, <3>3, <3>4, <3>5
  <2>6. given => answer'.king = k /\ answer'.challenger = c
    BY <1>12
  <2> QED BY <1>11, <1>12, <2>1, <2>2, <2>3, <2>4, <2>5, <2>6 DEF AnswersKeepTheirRoles
<1>15. /\ route \in 1 .. Routes /\ asked \subseteq 1 .. Routes /\ barred \subseteq asked
       /\ elapsed \in 0 .. TotalTime /\ CallsTypeOK
  BY <1>1 DEF CallsIInv, CallsInvariant, CallsTypeOK, UnderWay, Asks
<1>16. elapsed' = elapsed /\ asked' = asked \cup {route}
  BY <1>1, <1>15, LlmCallsAssumption DEF Asks
<1>17. CallsTypeOK'
  <2>1. asked' \subseteq 1 .. Routes
    BY <1>15, <1>16
  <2> QED BY <1>1, <1>11, <1>15, <1>16, <2>1 DEF CallsTypeOK
<1>18. EveryRouteAsked' /\ UnderWay' /\ barred' \subseteq asked'
  BY <1>1, <1>11, <1>15, <1>16 DEF EveryRouteAsked, UnderWay, Pending
<1> QED BY <1>14, <1>17, <1>18 DEF CallsIInv, CallsInvariant

LEMMA ScreenedStep ==
  ASSUME CallsIInv, Screened
  PROVE  CallsIInv'
<1>1. caller = "screener" /\ Asks(0) /\ UNCHANGED <<caller, route, try, barred, kingFirst, answer>>
  BY DEF Screened
<1>2. PICK s \in Scores \cap 0 .. 100 : verdict' = [winner |-> "king", king |-> s, challenger |-> 0]
  BY DEF Screened
<1>3. verdict' \in Results /\ verdict' # NoAnswer /\ verdict'.winner = "king"
  <2>1. s \in 0 .. 100 /\ 0 \in 0 .. 100 /\ "king" \in {"king", "challenger", "tie", "failed"}
    OBVIOUS
  <2>2. VerdictOf("king", s, 0) \in Results /\ VerdictOf("king", s, 0) # NoAnswer
    BY <2>1, VerdictsAre
  <2>4. VerdictOf("king", s, 0).winner = "king"
    BY VerdictFields
  <2>3. verdict' = VerdictOf("king", s, 0)
    BY <1>2 DEF VerdictOf
  <2> QED BY <2>2, <2>3, <2>4
<1>4. verdict' # Failed
  BY <1>3 DEF Failed
<1>5. /\ route \in 1 .. Routes /\ asked \subseteq 1 .. Routes /\ barred \subseteq asked /\ answer = Unsaid
      /\ elapsed \in 0 .. TotalTime /\ CallsTypeOK
  BY <1>1 DEF CallsIInv, CallsInvariant, CallsTypeOK, UnderWay, Asks
<1>6. elapsed' = elapsed /\ asked' = asked \cup {route}
  BY <1>1, <1>5, LlmCallsAssumption DEF Asks
<1>7. CallsTypeOK'
  <2>1. asked' \subseteq 1 .. Routes
    BY <1>5, <1>6
  <2> QED BY <1>1, <1>3, <1>5, <1>6, <2>1 DEF CallsTypeOK
<1>8. AnswersKeepTheirRoles' /\ EveryRouteAsked' /\ UnderWay' /\ barred' \subseteq asked'
  BY <1>1, <1>3, <1>4, <1>5, <1>6 DEF AnswersKeepTheirRoles, EveryRouteAsked, UnderWay, Pending
<1> QED BY <1>7, <1>8 DEF CallsIInv, CallsInvariant

LEMMA NextRowStep ==
  ASSUME CallsIInv, NextRow
  PROVE  CallsIInv'
<1>1. CallsInit'
  BY DEF NextRow, CallsInit, CallsIInv, CallsInvariant, CallsTypeOK
<1>2. (CallsInit => CallsIInv)'
  BY CallsStart, PTL
<1> QED BY <1>1, <1>2

LEMMA CallsSteps == CallsIInv /\ [CallsNext]_callVars => CallsIInv'
<1> SUFFICES ASSUME CallsIInv, [CallsNext]_callVars PROVE CallsIInv'
  OBVIOUS
<1>1. CASE UNCHANGED callVars
  BY <1>1 DEF callVars, CallsIInv, CallsInvariant, CallsTypeOK, AnswersKeepTheirRoles, EveryRouteAsked, UnderWay, Pending
<1>2. CASE CallsNext
  BY <1>2, PassStep, GuardedStep, JudgedStep, ScreenedStep, AttemptFailsStep, RouteFailsStep, TotalTimeoutStep,
     NextRowStep DEF CallsNext
<1> QED BY <1>1, <1>2

\* The judge's verdict has the sides and the scores of the model's answer, whatever the
\* blinding, a tie for a winner that is missing, its winner's scores where it gives none
\* and its scores' winner where that cannot be read; and a screening fails only when every
\* route was asked, for any number of routes and attempts, any time limits and any scores
\* (parse_verdict, unblind, screen_with_retries).
THEOREM CallsAreSound == CallsSpec => []CallsInvariant
<1>1. CallsIInv => CallsInvariant
  BY DEF CallsIInv
<1> QED BY <1>1, CallsStart, CallsSteps, PTL DEF CallsSpec

-----------------------------------------------------------------------------
(* The weight setter *)

LEMMA WeightParameters ==
  /\ IsFiniteSet(Slots) /\ 0 \in Slots /\ Netuid \in Nat /\ Tempos \subseteq Nat
  /\ RateLimit \in Nat /\ Margin \in Nat /\ KingWindow \in Nat /\ LastBlock \in Nat
BY WeightSetterAssumption

\* Adding less than is left to the divisor adds it to the remainder.
LEMMA Remainders ==
  ASSUME NEW x \in Nat, NEW n \in Nat, n > 0, NEW w \in Nat
  PROVE  /\ x % n \in 0 .. n - 1
         /\ (x % n) + w < n => (x + w) % n = (x % n) + w
<1>1. x % n \in 0 .. n - 1
  OBVIOUS
<1>2. ASSUME (x % n) + w < n PROVE (x + w) % n = (x % n) + w
  <2>1. PICK q \in Nat : q = x \div n
    OBVIOUS
  <2>2. PICK r \in Nat : r = x % n
    <3> QED BY <1>1
  <2>3. x = n * q + r
    BY <2>1, <2>2
  <2>4. PICK p \in Nat : p = (x + w) \div n
    OBVIOUS
  <2>5. PICK s \in Nat : s = (x + w) % n /\ s < n
    OBVIOUS
  <2>6. x + w = n * p + s
    BY <2>4, <2>5
  <2>7. n * q + (r + w) = n * p + s
    BY <2>3, <2>6
  <2>8. p = q
    BY <1>2, <2>2, <2>5, <2>7
  <2> QED BY <2>2, <2>5, <2>7, <2>8
<1> QED BY <1>1, <1>2

\* The blocks until the next epoch count down to its end.
LEMMA EpochCountsDown ==
  ASSUME NEW b \in Nat, NEW t \in Nat, NEW w \in Nat
  PROVE  /\ BlocksUntilNextEpoch(b, t) \in 0 .. t
         /\ w <= BlocksUntilNextEpoch(b, t) => BlocksUntilNextEpoch(b + w, t) = BlocksUntilNextEpoch(b, t) - w
<1>1. CASE t = 0
  BY <1>1 DEF BlocksUntilNextEpoch
<1>2. CASE t > 0
  <2>1. PICK x \in Nat, n \in Nat : x = b + Netuid + 1 /\ n = t + 1 /\ n > 0
    BY WeightParameters
  <2>2. x % n \in 0 .. n - 1 /\ ((x % n) + w < n => (x + w) % n = (x % n) + w)
    BY <2>1, Remainders
  <2>3. b + w + Netuid + 1 = x + w
    BY <2>1, WeightParameters
  <2>4. BlocksUntilNextEpoch(b, t) = t - (x % n) /\ BlocksUntilNextEpoch(b + w, t) = t - ((x + w) % n)
    BY <1>2, <2>1, <2>3 DEF BlocksUntilNextEpoch
  <2> QED BY <2>1, <2>2, <2>4
<1> QED BY <1>1, <1>2

\* What a tick decided on: its block was late in its epoch, and far from the last vector.
DecisionInv ==
  /\ seen \in [block : 0 .. LastBlock, neurons : Metagraphs \cup {<<>>}, kings : Seq(Miners)]
  /\ decided \in [block : Nat, tempo : Nat]
  /\ decided.block <= updated
  /\ BlocksUntilNextEpoch(decided.block, decided.tempo) <= Margin
  /\ seen.block <= block
  /\ step # "sleep" =>
       /\ seen.block - updated >= RateLimit
       /\ BlocksUntilNextEpoch(seen.block, params) <= Margin

\* What a tick has read: a metagraph, and kings of the window that can be paid.
ReadingInv ==
  /\ step \in {"kings", "set"} => seen.neurons \in Metagraphs
  /\ step = "set" => Len(seen.kings) <= KingWindow /\ Submittable(seen.neurons, seen.kings)

WeightIInv == WeightTypeOK /\ DecisionInv /\ ReadingInv

\* The announcement of should_set is right in every state.
LEMMA NextTryFollows == ASSUME WeightTypeOK PROVE NextTryIsFirst
<1>1. block \in Nat /\ updated \in Nat /\ updated <= block /\ params \in Nat
  BY WeightParameters DEF WeightTypeOK
<1>2. PICK off \in Nat : /\ off = RateOff(block)
                         /\ off = IF RateLimit - (block - updated) > 0 THEN RateLimit - (block - updated) ELSE 0
  BY <1>1, WeightParameters DEF RateOff, Positive
<1>3. PICK clear \in Nat : clear = block + off
  BY <1>1
<1>4. PICK e \in Nat : e = BlocksUntilNextEpoch(clear, params)
  BY <1>1, EpochCountsDown
<1>5. PICK w \in Nat : w = Positive(e - Margin) /\ w = IF e > Margin THEN e - Margin ELSE 0
  BY WeightParameters DEF Positive
<1>6. NextTryBlock(block, params) = clear + w
  BY <1>2, <1>3, <1>4, <1>5 DEF NextTryBlock
<1>7. \A v \in Nat : v <= e => BlocksUntilNextEpoch(clear + v, params) = e - v
  BY <1>1, <1>4, EpochCountsDown
<1>8. ShouldSet(clear + w, params)
  <2>1. RateOff(clear + w) = 0
    BY <1>1, <1>2, <1>3, WeightParameters DEF RateOff, Positive
  <2>2. BlocksUntilNextEpoch(clear + w, params) <= Margin
    BY <1>5, <1>7, WeightParameters
  <2> QED BY <2>1, <2>2 DEF ShouldSet
<1>9. ASSUME NEW b \in block .. clear + w - 1 PROVE ~ShouldSet(b, params)
  <2>1. CASE b < clear
    <3>1. RateOff(b) # 0
      BY <1>1, <1>2, <1>3, <2>1, WeightParameters DEF RateOff, Positive
    <3> QED BY <3>1 DEF ShouldSet
  <2>2. CASE b >= clear
    <3>1. PICK v \in Nat : b = clear + v /\ v < w
      BY <1>1, <1>3, <2>2
    <3>2. BlocksUntilNextEpoch(b, params) > Margin
      BY <1>5, <1>7, <3>1, WeightParameters
    <3>3. b \in Nat
      BY <1>3, <3>1
    <3>4. BlocksUntilNextEpoch(b, params) \in 0 .. params
      BY <1>1, <3>3, EpochCountsDown
    <3>5. ~(BlocksUntilNextEpoch(b, params) <= Margin)
      BY <1>1, <3>2, <3>4, WeightParameters
    <3> QED BY <3>5 DEF ShouldSet
  <2> QED BY <1>1, <1>3, <2>1, <2>2
<1> QED BY <1>6, <1>8, <1>9 DEF NextTryIsFirst

LEMMA WeightStarts == WeightInit => WeightIInv
<1> SUFFICES ASSUME WeightInit PROVE WeightIInv
  OBVIOUS
<1>1. WeightTypeOK
  BY WeightParameters DEF WeightInit, WeightTypeOK, NotSeen
<1>2. DecisionInv
  BY WeightParameters DEF WeightInit, DecisionInv, NotSeen, BlocksUntilNextEpoch
<1>3. ReadingInv
  BY DEF WeightInit, ReadingInv
<1> QED BY <1>1, <1>2, <1>3 DEF WeightIInv

LEMMA ChainMoves ==
  ASSUME WeightIInv, BlockPasses \/ NeuronsChange \/ TempoChanges \/ Crowned PROVE WeightIInv'
<1>1. CASE BlockPasses
  BY <1>1, WeightParameters DEF WeightIInv, BlockPasses, WeightTypeOK, DecisionInv, ReadingInv, RateOff
<1>2. CASE NeuronsChange
  BY <1>2, WeightParameters DEF WeightIInv, NeuronsChange, WeightTypeOK, DecisionInv, ReadingInv
<1>3. CASE TempoChanges
  BY <1>3, WeightParameters DEF WeightIInv, TempoChanges, WeightTypeOK, DecisionInv, ReadingInv
<1>4. CASE Crowned
  BY <1>4, WeightParameters DEF WeightIInv, Crowned, WeightTypeOK, DecisionInv, ReadingInv
<1> QED BY <1>1, <1>2, <1>3, <1>4

LEMMA TickSound == ASSUME WeightIInv, Tick PROVE WeightIInv'
<1> USE DEF WeightIInv, Tick, chainVars
<1>1. block \in Nat /\ updated \in Nat /\ RateOff(block) = 0 /\ BlocksUntilNextEpoch(block, params) <= Margin
  BY WeightParameters DEF WeightTypeOK, ShouldSet
<1>2. block - updated >= RateLimit
  BY <1>1, WeightParameters DEF RateOff, Positive
<1>3. seen' = [block |-> block, neurons |-> <<>>, kings |-> <<>>]
  BY DEF NotSeen
<1> HIDE DEF WeightIInv, Tick
<1>4. WeightTypeOK'
  BY <1>3 DEF WeightIInv, Tick, WeightTypeOK
<1>5. DecisionInv'
  <2>1. /\ seen'.block = block /\ block \in 0 .. LastBlock
        /\ seen' \in [block : 0 .. LastBlock, neurons : Metagraphs \cup {<<>>}, kings : Seq(Miners)]
    BY <1>3 DEF WeightIInv, WeightTypeOK
  <2>2. block' = block /\ updated' = updated /\ params' = params /\ decided' = decided
    BY DEF Tick, chainVars
  <2>3. block <= block
    BY <1>1
  <2> QED BY <1>1, <1>2, <2>1, <2>2, <2>3 DEF WeightIInv, DecisionInv
<1>6. ReadingInv'
  BY DEF Tick, ReadingInv
<1> QED BY <1>4, <1>5, <1>6 DEF WeightIInv

LEMMA ReadMetagraphSound == ASSUME WeightIInv, ReadMetagraph PROVE WeightIInv'
<1>1. /\ seen'.block = seen.block /\ seen'.neurons = neurons /\ seen'.kings = seen.kings
      /\ seen' \in [block : 0 .. LastBlock, neurons : Metagraphs \cup {<<>>}, kings : Seq(Miners)]
  BY DEF WeightIInv, DecisionInv, WeightTypeOK, ReadMetagraph
<1>2. WeightTypeOK'
  BY <1>1 DEF WeightIInv, ReadMetagraph, WeightTypeOK, chainVars
<1>3. DecisionInv'
  BY <1>1 DEF WeightIInv, ReadMetagraph, DecisionInv, chainVars
<1>4. ReadingInv'
  BY <1>1 DEF WeightIInv, WeightTypeOK, ReadMetagraph, ReadingInv
<1> QED BY <1>2, <1>3, <1>4 DEF WeightIInv

LEMMA ReadKingsSound == ASSUME WeightIInv, ReadKings PROVE WeightIInv'
<1>1. PICK n \in {0, KingWindow} :
        LET kings == SubSeq(reigns, 1, IF n < Len(reigns) THEN n ELSE Len(reigns)) IN
        IF Submittable(seen.neurons, kings)
        THEN step' = "set" /\ seen' = [seen EXCEPT !.kings = kings]
        ELSE step' = "sleep" /\ seen' = NotSeen
  BY DEF ReadKings
<1>2. PICK top \in Nat : top = (IF n < Len(reigns) THEN n ELSE Len(reigns)) /\ top <= n /\ top <= Len(reigns)
  BY WeightParameters DEF WeightIInv, WeightTypeOK
<1>3. PICK kings : kings = SubSeq(reigns, 1, top)
  OBVIOUS
<1>4. kings \in Seq(Miners) /\ Len(kings) = top
  BY <1>2, <1>3, SubSeqProperties DEF WeightIInv, WeightTypeOK
<1>5. Len(kings) <= KingWindow
  BY <1>1, <1>2, <1>4, WeightParameters
<1>6. CASE Submittable(seen.neurons, kings)
  <2>1. step' = "set" /\ seen' = [seen EXCEPT !.kings = kings]
    BY <1>1, <1>2, <1>3, <1>6
  <2>2. /\ seen'.block = seen.block /\ seen'.neurons = seen.neurons /\ seen'.kings = kings
        /\ seen' \in [block : 0 .. LastBlock, neurons : Metagraphs \cup {<<>>}, kings : Seq(Miners)]
    BY <1>4, <2>1 DEF WeightIInv, DecisionInv
  <2>3. WeightTypeOK'
    BY <2>1, <2>2 DEF WeightIInv, ReadKings, WeightTypeOK, chainVars
  <2>4. DecisionInv'
    BY <2>1, <2>2 DEF WeightIInv, ReadKings, DecisionInv, chainVars
  <2>5. ReadingInv'
    BY <1>5, <1>6, <2>1, <2>2 DEF WeightIInv, ReadKings, ReadingInv
  <2> QED BY <2>3, <2>4, <2>5 DEF WeightIInv
<1>7. CASE ~Submittable(seen.neurons, kings)
  <2>1. step' = "sleep" /\ seen' = NotSeen
    BY <1>1, <1>2, <1>3, <1>7
  <2> QED BY <2>1, WeightParameters
          DEF WeightIInv, ReadKings, WeightTypeOK, DecisionInv, ReadingInv, NotSeen, chainVars
<1> QED BY <1>6, <1>7

LEMMA SetWeightsSound == ASSUME WeightIInv, SetWeights PROVE WeightIInv'
<1>1. params \in Nat /\ seen.block \in Nat /\ seen.block <= block /\ block \in 0 .. LastBlock
  BY WeightParameters DEF WeightIInv, WeightTypeOK, DecisionInv
<1>2. /\ step' = "sleep" /\ seen' = NotSeen /\ decided' = [block |-> seen.block, tempo |-> params]
      /\ updated' = block /\ block' = block /\ params' \in {tempo, params}
      /\ UNCHANGED <<tempo, neurons, reigns>>
  BY DEF SetWeights
<1>3. WeightTypeOK'
  BY <1>1, <1>2, WeightParameters DEF WeightIInv, WeightTypeOK, NotSeen
<1>4. DecisionInv'
  <2>1. decided'.block = seen.block /\ decided'.tempo = params /\ decided' \in [block : Nat, tempo : Nat]
    BY <1>1, <1>2
  <2>2. BlocksUntilNextEpoch(seen.block, params) <= Margin
    BY DEF WeightIInv, DecisionInv, SetWeights
  <2>3. seen'.block = 0 /\ seen' \in [block : 0 .. LastBlock, neurons : Metagraphs \cup {<<>>}, kings : Seq(Miners)]
    BY <1>2, WeightParameters DEF NotSeen
  <2> QED BY <1>1, <1>2, <2>1, <2>2, <2>3 DEF DecisionInv
<1>5. ReadingInv'
  BY <1>2 DEF ReadingInv
<1> QED BY <1>3, <1>4, <1>5 DEF WeightIInv

LEMMA TickEnds == ASSUME WeightIInv, TickFails \/ WeightRestart PROVE WeightIInv'
<1>1. /\ step' = "sleep" /\ seen' = NotSeen /\ UNCHANGED <<chainVars, decided>> /\ params' \in {tempo, params}
  BY DEF TickFails, WeightRestart
<1>2. WeightTypeOK'
  BY <1>1, WeightParameters DEF WeightIInv, WeightTypeOK, NotSeen, chainVars
<1>3. DecisionInv'
  <2>1. seen'.block = 0 /\ seen' \in [block : 0 .. LastBlock, neurons : Metagraphs \cup {<<>>}, kings : Seq(Miners)]
    BY <1>1, WeightParameters DEF NotSeen
  <2>2. 0 <= block
    BY DEF WeightIInv, WeightTypeOK
  <2> QED BY <1>1, <2>1, <2>2 DEF WeightIInv, DecisionInv, chainVars
<1>4. ReadingInv'
  BY <1>1 DEF ReadingInv
<1> QED BY <1>2, <1>3, <1>4 DEF WeightIInv

LEMMA WeightSteps == WeightIInv /\ [WeightNext]_weightVars => WeightIInv'
<1> SUFFICES ASSUME WeightIInv, [WeightNext]_weightVars PROVE WeightIInv'
  OBVIOUS
<1>1. CASE BlockPasses \/ NeuronsChange \/ TempoChanges \/ Crowned
  BY <1>1, ChainMoves
<1>2. CASE Tick
  BY <1>2, TickSound
<1>3. CASE ReadMetagraph
  BY <1>3, ReadMetagraphSound
<1>4. CASE ReadKings
  BY <1>4, ReadKingsSound
<1>5. CASE SetWeights
  BY <1>5, SetWeightsSound
<1>6. CASE TickFails \/ WeightRestart
  BY <1>6, TickEnds
<1>7. CASE UNCHANGED weightVars
  BY <1>7 DEF weightVars, WeightIInv, WeightTypeOK, DecisionInv, ReadingInv
<1> QED BY <1>1, <1>2, <1>3, <1>4, <1>5, <1>6, <1>7 DEF WeightNext

\* Two decisions on vectors fall into one epoch only if the rate limit lets them.
LEMMA DecisionsAreApart ==
  ASSUME WeightIInv, [WeightNext]_weightVars,
         RateLimit > Margin, decided' # decided, decided'.tempo = decided.tempo
  PROVE  EpochEnd(decided'.block, params) # EpochEnd(decided.block, params)
<1>1. SetWeights
  BY DEF WeightNext, weightVars, BlockPasses, NeuronsChange, TempoChanges, Crowned, Tick,
         ReadMetagraph, ReadKings, TickFails, WeightRestart
<1>2. decided'.block = seen.block /\ decided'.tempo = params /\ step # "sleep"
  BY <1>1 DEF SetWeights
<1>3. decided.tempo = params
  BY <1>2
<1>4. PICK a \in Nat : a = decided.block
  BY DEF WeightIInv, DecisionInv
<1>5. PICK b \in Nat : b = seen.block
  BY WeightParameters DEF WeightIInv, DecisionInv
<1>6. params \in Nat /\ updated \in Nat
  BY WeightParameters DEF WeightIInv, WeightTypeOK
<1>7. PICK d \in Nat : d = BlocksUntilNextEpoch(a, params)
  BY <1>6, EpochCountsDown
<1>8. PICK e \in Nat : e = BlocksUntilNextEpoch(b, params)
  BY <1>6, EpochCountsDown
<1>9. a <= updated /\ d <= Margin
  BY <1>3, <1>4, <1>7 DEF WeightIInv, DecisionInv
<1>10. b - updated >= RateLimit
  BY <1>2, <1>5 DEF WeightIInv, DecisionInv
<1>11. b + e # a + d
  BY <1>6, <1>9, <1>10, WeightParameters
<1> QED BY <1>2, <1>4, <1>5, <1>7, <1>8, <1>11 DEF EpochEnd

\* Weights that are set were decided on in different epochs when the rate limit is longer
\* than the margin, whatever time the reads and the inclusion take (should_set).
THEOREM WeightsOncePerEpoch == WeightSpec => OncePerEpoch
<1>1. WeightIInv /\ [WeightNext]_weightVars =>
        [RateLimit > Margin /\ decided.tempo > 0 /\ decided' # decided /\ decided'.tempo = decided.tempo
           => EpochEnd(decided'.block, params) # EpochEnd(decided.block, params)]_weightVars
  BY DecisionsAreApart
<1> QED BY <1>1, WeightStarts, WeightSteps, PTL DEF WeightSpec, OncePerEpoch

-----------------------------------------------------------------------------
(* The shares *)

LEMMA FiveShares ==
  ASSUME NEW k \in 1 .. 5, NEW s, s = SubSeq(<<40, 15, 15, 15, 15>>, 1, k)
  PROVE  /\ DOMAIN s = 1 .. k /\ s \in [1 .. k -> Nat] /\ s[1] = 40
         /\ \A i \in 2 .. k : s[i] = 15
<1>1. PICK five : five = <<40, 15, 15, 15, 15>>
  OBVIOUS
<1>2. five \in Seq(Nat) /\ Len(five) = 5
  BY <1>1
<1>3. PICK t : t = SubSeq(five, 1, k)
  OBVIOUS
<1>4. t \in Seq(Nat) /\ Len(t) = k /\ \A i \in 1 .. k : t[i] = five[i]
  <2>1. k \in Nat /\ k <= 5 /\ k >= 1 /\ \A i \in 1 .. k : five[i] \in Nat
    <3>1. PICK n \in Nat : n = 5 /\ n = Len(five)
      BY <1>2
    <3>2. \A i \in 1 .. n : five[i] \in Nat
      BY <1>2, <3>1, ElementOfSeq
    <3>3. k \in Nat /\ k <= n /\ k >= 1
      BY <3>1
    <3> QED BY <3>1, <3>2, <3>3
  <2>2. /\ t \in Seq(Nat) /\ Len(t) = IF 1 <= k THEN k - 1 + 1 ELSE 0
        /\ \A i \in 1 .. k - 1 + 1 : t[i] = five[1 + i - 1]
    BY <1>3, <2>1, SubSeqProperties
  <2>3. k - 1 + 1 = k /\ \A i \in 1 .. k : 1 + i - 1 = i
    BY <2>1
  <2> QED BY <2>1, <2>2, <2>3
<1>5. t \in [1 .. k -> Nat] /\ DOMAIN t = 1 .. k
  BY <1>4
<1>6. t[1] = 40
  BY <1>1, <1>4
<1>7. \A i \in 2 .. k : t[i] = 15
  BY <1>1, <1>4
<1>8. s = t
  BY <1>1, <1>3
<1> QED BY <1>5, <1>6, <1>7, <1>8

LEMMA SharesAre ==
  ASSUME NEW n \in Nat
  PROVE  \E k \in Nat :
           /\ DOMAIN Shares(n) = 1 .. k /\ Shares(n) \in [1 .. k -> Nat]
           /\ k # 0 => Shares(n)[1] >= 40
           /\ KingWindow # 0 => k # 0
           /\ KingWindow = 0 /\ n = 0 => k = 0
           /\ n \in 1 .. KingWindow => SumFunction(Shares(n)) = 100
<1>1. CASE n = 1
  <2>0. Shares(1) = <<100>>
    BY DEF Shares
  <2>1. PICK s : s = Shares(n) /\ s = <<100>>
    BY <1>1, <2>0
  <2>2. s \in [1 .. 1 -> Nat] /\ s \in [1 .. 1 -> Int] /\ DOMAIN s = 1 .. 1 /\ s[1] = 100
    BY <2>1
  <2>3. PICK up : /\ up \in [0 .. n -> Int] /\ up[0] = 0
                  /\ \A j \in 1 .. n : up[j] = up[j - 1] + s[j]
                  /\ SumFunction(s) = up[n]
    <3>1. s \in [1 .. n -> Int]
      BY <1>1, <2>2
    <3> QED BY <3>1, SumGoesUp
  <2>4. up[1] = up[0] + s[1]
    BY <1>1, <2>3
  <2>5. SumFunction(s) = up[1] /\ up[0] = 0
    BY <1>1, <2>3
  <2>6. SumFunction(s) = 100
    BY <2>2, <2>4, <2>5
  <2>7. PICK k \in Nat : k = 1
    OBVIOUS
  <2>8. DOMAIN s = 1 .. k /\ s \in [1 .. k -> Nat] /\ s[1] >= 40
    BY <2>2, <2>7
  <2>9. k # 0 /\ n # 0
    BY <1>1, <2>7
  <2>10. s = Shares(n)
    BY <2>1
  <2> QED BY <2>6, <2>8, <2>9, <2>10
<1>2. CASE n = 2
  <2>0. Shares(2) = <<60, 40>>
    BY DEF Shares
  <2>1. PICK s : s = Shares(n) /\ s = <<60, 40>>
    BY <1>2, <2>0
  <2>2. s \in [1 .. 2 -> Nat] /\ s \in [1 .. 2 -> Int] /\ DOMAIN s = 1 .. 2 /\ s[1] = 60 /\ s[2] = 40
    BY <2>1
  <2>3. PICK up : /\ up \in [0 .. n -> Int] /\ up[0] = 0
                  /\ \A j \in 1 .. n : up[j] = up[j - 1] + s[j]
                  /\ SumFunction(s) = up[n]
    <3>1. s \in [1 .. n -> Int]
      BY <1>2, <2>2
    <3> QED BY <3>1, SumGoesUp
  <2>4. up[1] = up[0] + s[1] /\ up[2] = up[1] + s[2]
    BY <1>2, <2>3
  <2>5. SumFunction(s) = up[2] /\ up[0] = 0
    BY <1>2, <2>3
  <2>6. SumFunction(s) = 100
    BY <2>2, <2>4, <2>5
  <2>7. PICK k \in Nat : k = 2
    OBVIOUS
  <2>8. DOMAIN s = 1 .. k /\ s \in [1 .. k -> Nat] /\ s[1] >= 40
    BY <2>2, <2>7
  <2>9. k # 0 /\ n # 0
    BY <1>2, <2>7
  <2>10. s = Shares(n)
    BY <2>1
  <2> QED BY <2>6, <2>8, <2>9, <2>10
<1>3. CASE n = 3
  <2>0. Shares(3) = <<40, 30, 30>>
    BY DEF Shares
  <2>1. PICK s : s = Shares(n) /\ s = <<40, 30, 30>>
    BY <1>3, <2>0
  <2>2. s \in [1 .. 3 -> Nat] /\ s \in [1 .. 3 -> Int] /\ DOMAIN s = 1 .. 3 /\ s[1] = 40 /\ s[2] = 30 /\ s[3] = 30
    BY <2>1
  <2>3. PICK up : /\ up \in [0 .. n -> Int] /\ up[0] = 0
                  /\ \A j \in 1 .. n : up[j] = up[j - 1] + s[j]
                  /\ SumFunction(s) = up[n]
    <3>1. s \in [1 .. n -> Int]
      BY <1>3, <2>2
    <3> QED BY <3>1, SumGoesUp
  <2>4. up[1] = up[0] + s[1] /\ up[2] = up[1] + s[2] /\ up[3] = up[2] + s[3]
    BY <1>3, <2>3
  <2>5. SumFunction(s) = up[3] /\ up[0] = 0
    BY <1>3, <2>3
  <2>6. SumFunction(s) = 100
    BY <2>2, <2>4, <2>5
  <2>7. PICK k \in Nat : k = 3
    OBVIOUS
  <2>8. DOMAIN s = 1 .. k /\ s \in [1 .. k -> Nat] /\ s[1] >= 40
    BY <2>2, <2>7
  <2>9. k # 0 /\ n # 0
    BY <1>3, <2>7
  <2>10. s = Shares(n)
    BY <2>1
  <2> QED BY <2>6, <2>8, <2>9, <2>10
<1>4. CASE n = 4
  <2>0. Shares(4) = <<40, 20, 20, 20>>
    BY DEF Shares
  <2>1. PICK s : s = Shares(n) /\ s = <<40, 20, 20, 20>>
    BY <1>4, <2>0
  <2>2. /\ s \in [1 .. 4 -> Nat] /\ s \in [1 .. 4 -> Int] /\ DOMAIN s = 1 .. 4
        /\ s[1] = 40 /\ s[2] = 20 /\ s[3] = 20 /\ s[4] = 20
    BY <2>1
  <2>3. PICK up : /\ up \in [0 .. n -> Int] /\ up[0] = 0
                  /\ \A j \in 1 .. n : up[j] = up[j - 1] + s[j]
                  /\ SumFunction(s) = up[n]
    <3>1. s \in [1 .. n -> Int]
      BY <1>4, <2>2
    <3> QED BY <3>1, SumGoesUp
  <2>4. up[1] = up[0] + s[1] /\ up[2] = up[1] + s[2] /\ up[3] = up[2] + s[3] /\ up[4] = up[3] + s[4]
    BY <1>4, <2>3
  <2>5. SumFunction(s) = up[4] /\ up[0] = 0
    BY <1>4, <2>3
  <2>6. SumFunction(s) = 100
    BY <2>2, <2>4, <2>5
  <2>7. PICK k \in Nat : k = 4
    OBVIOUS
  <2>8. DOMAIN s = 1 .. k /\ s \in [1 .. k -> Nat] /\ s[1] >= 40
    BY <2>2, <2>7
  <2>9. k # 0 /\ n # 0
    BY <1>4, <2>7
  <2>10. s = Shares(n)
    BY <2>1
  <2> QED BY <2>6, <2>8, <2>9, <2>10
<1>5. CASE n \notin 1 .. 4 /\ KingWindow # 0
  <2>1. PICK k \in 1 .. 5 : k = IF KingWindow < 5 THEN KingWindow ELSE 5
    BY <1>5, WeightParameters
  <2>0. n # 1 /\ n # 2 /\ n # 3 /\ n # 4
    BY <1>5
  <2>2. PICK s : s = Shares(n) /\ s = SubSeq(<<40, 15, 15, 15, 15>>, 1, k)
    BY <2>0, <2>1, Zenon DEF Shares
  <2>3. DOMAIN s = 1 .. k /\ s \in [1 .. k -> Nat] /\ s[1] = 40 /\ \A i \in 2 .. k : s[i] = 15
    BY <2>2, FiveShares
  <2>4. ASSUME n \in 1 .. KingWindow PROVE SumFunction(s) = 100
    <3>1. k = 5
      BY <1>5, <2>1, <2>4, WeightParameters
    <3>2. /\ s \in [1 .. 5 -> Int] /\ s[1] = 40 /\ s[2] = 15 /\ s[3] = 15 /\ s[4] = 15 /\ s[5] = 15
      BY <2>3, <3>1
    <3>3. PICK up : /\ up \in [0 .. 5 -> Int] /\ up[0] = 0
                  /\ \A j \in 1 .. 5 : up[j] = up[j - 1] + s[j]
                  /\ SumFunction(s) = up[5]
      <4>1. PICK up : /\ up \in [0 .. k -> Int] /\ up[0] = 0
                      /\ \A j \in 1 .. k : up[j] = up[j - 1] + s[j]
                      /\ SumFunction(s) = up[k]
        <5>1. k \in Nat /\ s \in [1 .. k -> Int]
          BY <2>3
        <5> QED BY <5>1, SumGoesUp
      <4> QED BY <3>1, <4>1
    <3>4. /\ up[1] = up[0] + s[1] /\ up[2] = up[1] + s[2] /\ up[3] = up[2] + s[3]
          /\ up[4] = up[3] + s[4] /\ up[5] = up[4] + s[5]
      BY <3>3
    <3> QED BY <3>2, <3>3, <3>4
  <2>5. PICK q \in Nat : q = k /\ q # 0
    OBVIOUS
  <2> QED BY <1>5, <2>2, <2>3, <2>4, <2>5
<1>6. CASE n \notin 1 .. 4 /\ KingWindow = 0
  <2>1. n # 1 /\ n # 2 /\ n # 3 /\ n # 4 /\ n \notin 1 .. KingWindow
    BY <1>6
  <2>2. PICK top : top = (IF KingWindow < 5 THEN KingWindow ELSE 5) /\ top = 0
    BY <1>6
  <2>3. PICK s : s = Shares(n) /\ s = SubSeq(<<40, 15, 15, 15, 15>>, 1, 0)
    BY <2>1, <2>2, Zenon DEF Shares
  <2>4. s = <<>>
    BY <2>3
  <2>5. DOMAIN s = 1 .. 0 /\ s \in [1 .. 0 -> Nat]
    BY <2>4
  <2>6. PICK q \in Nat : q = 0
    OBVIOUS
  <2> QED BY <1>6, <2>1, <2>3, <2>5, <2>6
<1> QED BY <1>1, <1>2, <1>3, <1>4, <1>5, <1>6

\* What a vector is made of: the shares, the uid each goes to, what the uids earn and what burns.
PlanOf(m, kings, k, s, to, earned, burn) ==
  /\ k \in Nat /\ s \in [1 .. k -> Nat] /\ s = Shares(Len(Paid(m, kings)))
  /\ to \in [1 .. k -> SUBSET DOMAIN m] /\ \A i \in 1 .. k : to[i] = Payee(m, Paid(m, kings), i)
  /\ \A i \in 1 .. k : \A u, v \in to[i] : u = v
  /\ earned \in [DOMAIN m -> Nat]
  /\ \A u \in DOMAIN m : earned[u] = SumFunction(PartOf(s, to, u))
  /\ burn \in Nat /\ burn = SumFunction(Ownerless(s, to))
  /\ Burn(m, kings) = burn
  /\ Weights(m, kings) = [u \in DOMAIN m |-> earned[u] + (IF u = 0 THEN burn ELSE 0)]

LEMMA UidsAre ==
  ASSUME NEW m \in Metagraphs
  PROVE  /\ DOMAIN m \subseteq Slots /\ IsFiniteSet(DOMAIN m)
         /\ \A u, v \in DOMAIN m : m[u] = m[v] => u = v
         /\ \A h : UidOf(m, h) \subseteq DOMAIN m /\ \A u, v \in UidOf(m, h) : u = v
<1>1. PICK uids \in SUBSET Slots : m \in [uids -> Miners] /\ \A u, v \in uids : m[u] = m[v] => u = v
  BY DEF Metagraphs
<1>2. DOMAIN m = uids
  BY <1>1
<1>3. IsFiniteSet(uids)
  BY WeightParameters, FS_Subset
<1> QED BY <1>1, <1>2, <1>3 DEF UidOf

LEMMA PaidAre ==
  ASSUME NEW m \in Metagraphs, NEW kings \in Seq(Miners)
  PROVE  Paid(m, kings) \in Seq(Miners) /\ Len(Paid(m, kings)) \in Nat /\ Len(Paid(m, kings)) <= Len(kings)
BY WithoutLeaves DEF Paid

LEMMA PlanExists ==
  ASSUME NEW m \in Metagraphs, NEW kings \in Seq(Miners)
  PROVE  \E k, s, to, earned, burn : PlanOf(m, kings, k, s, to, earned, burn)
<1>1. PICK paid : paid = Paid(m, kings) /\ paid \in Seq(Miners) /\ Len(paid) \in Nat
  BY PaidAre
<1>2. PICK s : s = Shares(Len(paid))
  OBVIOUS
<1>3. PICK k \in Nat : DOMAIN s = 1 .. k /\ s \in [1 .. k -> Nat]
  BY <1>1, <1>2, SharesAre
<1>4. PICK to : to = [i \in 1 .. k |-> Payee(m, paid, i)]
  OBVIOUS
<1>5. to \in [1 .. k -> SUBSET DOMAIN m] /\ \A i \in 1 .. k : \A u, v \in to[i] : u = v
  <2>1. \A i : Payee(m, paid, i) \subseteq DOMAIN m /\ \A u, v \in Payee(m, paid, i) : u = v
    BY UidsAre DEF Payee
  <2> QED BY <1>4, <2>1
<1>6. IsFiniteSet(1 .. k)
  BY <1>3, FS_Interval
<1>7. \A slots \in SUBSET (1 .. k) :
        /\ SumOver(s, slots) = SumFunction([i \in 1 .. k |-> IF i \in slots THEN s[i] ELSE 0])
        /\ SumOver(s, slots) \in Nat
  <2> SUFFICES ASSUME NEW slots \in SUBSET (1 .. k)
               PROVE  /\ SumOver(s, slots) = SumFunction([i \in 1 .. k |-> IF i \in slots THEN s[i] ELSE 0])
                      /\ SumOver(s, slots) \in Nat
    OBVIOUS
  <2>1. PICK f : f = [i \in 1 .. k |-> IF i \in slots THEN s[i] ELSE 0]
    OBVIOUS
  <2>2. f \in [1 .. k -> Nat]
    BY <1>3, <2>1
  <2>3. SumOver(s, slots) = SumFunction(f)
    BY <1>3, <2>1 DEF SumOver
  <2> QED BY <1>6, <2>1, <2>2, <2>3, SumNat
<1>8. PICK burn : burn = Burn(m, kings) /\ burn \in Nat /\ burn = SumFunction(Ownerless(s, to))
  <2>1. PICK slots : slots = {i \in 1 .. k : to[i] = {}}
    OBVIOUS
  <2>2. slots = {i \in DOMAIN s : Payee(m, paid, i) = {}}
    BY <1>3, <1>4, <2>1
  <2>3. Burn(m, kings) = SumOver(s, slots)
    BY <1>1, <1>2, <2>2 DEF Burn
  <2>4. Ownerless(s, to) = [i \in 1 .. k |-> IF i \in slots THEN s[i] ELSE 0]
    BY <1>3, <2>1 DEF Ownerless
  <2> QED BY <1>7, <2>1, <2>3, <2>4
<1>9. \A u \in DOMAIN m : /\ Earned(m, kings, u) = SumFunction(PartOf(s, to, u))
                          /\ Earned(m, kings, u) \in Nat
  <2> SUFFICES ASSUME NEW u \in DOMAIN m
               PROVE  /\ Earned(m, kings, u) = SumFunction(PartOf(s, to, u))
                      /\ Earned(m, kings, u) \in Nat
    OBVIOUS
  <2>1. PICK slots : slots = {i \in 1 .. k : u \in to[i]}
    OBVIOUS
  <2>2. slots = {i \in DOMAIN s : u \in Payee(m, paid, i)}
    BY <1>3, <1>4, <2>1
  <2>3. Earned(m, kings, u) = SumOver(s, slots)
    BY <1>1, <1>2, <2>2 DEF Earned
  <2>4. PartOf(s, to, u) = [i \in 1 .. k |-> IF i \in slots THEN s[i] ELSE 0]
    BY <1>3, <2>1 DEF PartOf
  <2> QED BY <1>7, <2>1, <2>3, <2>4
<1>10. PICK earned : earned = [u \in DOMAIN m |-> Earned(m, kings, u)]
  OBVIOUS
<1>11. Weights(m, kings) = [u \in DOMAIN m |-> earned[u] + (IF u = 0 THEN burn ELSE 0)]
  BY <1>8, <1>10 DEF Weights
<1>12. earned \in [DOMAIN m -> Nat]
  BY <1>9, <1>10
<1>13. \A u \in DOMAIN m : earned[u] = SumFunction(PartOf(s, to, u))
  BY <1>9, <1>10
<1>14. \A i \in 1 .. k : to[i] = Payee(m, Paid(m, kings), i)
  BY <1>1, <1>4
<1>15. s = Shares(Len(Paid(m, kings)))
  BY <1>1, <1>2
<1>16. PlanOf(m, kings, k, s, to, earned, burn)
  BY <1>3, <1>5, <1>8, <1>11, <1>12, <1>13, <1>14, <1>15 DEF PlanOf
<1> QED BY <1>16

\* The kings of a window get all of a vector, or the burn uid does.
LEMMA VectorIsWhole ==
  ASSUME NEW m \in Metagraphs, NEW kings \in Seq(Miners), Len(kings) <= KingWindow,
         Submittable(m, kings), Paid(m, kings) # <<>>
  PROVE  SumFunction(Weights(m, kings)) = 100
<1>1. PICK k, s, to, earned, burn : PlanOf(m, kings, k, s, to, earned, burn)
  BY PlanExists
<1>2. /\ k \in Nat /\ s \in [1 .. k -> Nat] /\ s \in [1 .. k -> Int]
      /\ to \in [1 .. k -> SUBSET DOMAIN m] /\ \A i \in 1 .. k : \A u, v \in to[i] : u = v
      /\ earned \in [DOMAIN m -> Nat] /\ earned \in [DOMAIN m -> Int] /\ burn \in Nat
  BY <1>1 DEF PlanOf
<1>3. IsFiniteSet(1 .. k) /\ IsFiniteSet(DOMAIN m)
  BY <1>2, FS_Interval, UidsAre
<1>4. PICK kept, burnt : kept = SumFunction(Owned(s, to)) /\ burnt = SumFunction(Ownerless(s, to))
  OBVIOUS
<1>5. SumFunction(s) = kept + burnt
  BY <1>2, <1>3, <1>4, SumSplits
<1>6. burn = burnt
  BY <1>1, <1>4 DEF PlanOf
<1>7. SumFunction(earned) = kept
  <2>1. \A u \in DOMAIN m : earned[u] = SumFunction(PartOf(s, to, u))
    BY <1>1 DEF PlanOf
  <2>2. PICK I, D : I = 1 .. k /\ D = DOMAIN m
    OBVIOUS
  <2>3. to \in [I -> SUBSET D]
    BY <1>2, <2>2
  <2>4. \A i \in I : \A u, v \in to[i] : u = v
    BY <1>2, <2>2
  <2>5. IsFiniteSet(I)
    BY <1>3, <2>2
  <2>6. IsFiniteSet(D)
    BY <1>3, <2>2
  <2>7. s \in [I -> Int]
    BY <1>2, <2>2
  <2>8. earned \in [D -> Int]
    BY <1>2, <2>2
  <2>9. \A u \in D : earned[u] = SumFunction(PartOf(s, to, u))
    BY <2>1, <2>2
  <2>10. SumFunction(earned) = SumFunction(Owned(s, to))
    BY <2>3, <2>4, <2>5, <2>6, <2>7, <2>8, <2>9, SumInParts
  <2> QED BY <1>4, <2>10
<1>8. SumFunction(s) = 100
  <2>1. s = Shares(Len(Paid(m, kings)))
    BY <1>1 DEF PlanOf
  <2>2. PICK n \in Nat : n = Len(Paid(m, kings)) /\ n <= Len(kings) /\ n # 0
    BY PaidAre, EmptySeq
  <2>3. Len(kings) \in Nat
    OBVIOUS
  <2>4. n \in 1 .. KingWindow
    BY <2>2, <2>3, WeightParameters
  <2> QED BY <2>1, <2>2, <2>4, SharesAre
<1>9. PICK vector : vector = Weights(m, kings)
  OBVIOUS
<1>10. vector = [u \in DOMAIN m |-> earned[u] + (IF u = 0 THEN burn ELSE 0)]
  BY <1>1, <1>9 DEF PlanOf
<1>11. vector \in [DOMAIN m -> Int] /\ \A u \in DOMAIN m : vector[u] = earned[u] + (IF u = 0 THEN burn ELSE 0)
  BY <1>2, <1>10
<1>12. SumFunction(earned) \in Nat
  BY <1>2, <1>3, SumNat
<1>13. SumFunction(vector) = SumFunction(earned) + burn
  <2>1. CASE 0 \in DOMAIN m
    <3>1. \A u \in DOMAIN m \ {0} : vector[u] = earned[u]
      BY <1>2, <1>11
    <3>2. vector[0] = earned[0] + burn /\ earned[0] \in Nat
      BY <1>2, <1>11, <2>1
    <3>3. SumFunction(vector) = SumFunction(earned) - earned[0] + vector[0]
      <4>1. PICK D : D = DOMAIN m
        OBVIOUS
      <4>2. IsFiniteSet(D) /\ earned \in [D -> Int] /\ vector \in [D -> Int] /\ 0 \in D
        BY <1>2, <1>3, <1>11, <2>1, <4>1
      <4>3. \A u \in D \ {0} : vector[u] = earned[u]
        BY <3>1, <4>1
      <4> QED BY <4>2, <4>3, SumChange
    <3> QED BY <1>2, <1>12, <3>2, <3>3
  <2>2. CASE 0 \notin DOMAIN m
    <3>1. burn = 0
      BY <1>1, <2>2 DEF PlanOf, Submittable
    <3>2. \A u \in DOMAIN m : vector[u] = earned[u]
      <4> SUFFICES ASSUME NEW u \in DOMAIN m PROVE vector[u] = earned[u]
        OBVIOUS
      <4>1. u # 0 /\ earned[u] \in Nat
        BY <1>2, <2>2
      <4> QED BY <1>11, <4>1
    <3>3. vector = earned
      BY <1>2, <1>11, <3>2
    <3> QED BY <1>12, <3>1, <3>3
  <2> QED BY <2>1, <2>2
<1> QED BY <1>5, <1>6, <1>7, <1>8, <1>9, <1>13

\* A window with a slot has a first share, and it is the largest.
LEMMA PlanPays ==
  ASSUME NEW m \in Metagraphs, NEW kings \in Seq(Miners), KingWindow # 0,
         NEW k, NEW s, NEW to, NEW earned, NEW burn, PlanOf(m, kings, k, s, to, earned, burn)
  PROVE  k \in Nat \ {0} /\ s[1] >= 40 /\ s[1] \in Nat
<1>1. s = Shares(Len(Paid(m, kings))) /\ Len(Paid(m, kings)) \in Nat /\ k \in Nat /\ s \in [1 .. k -> Nat]
  BY PaidAre DEF PlanOf
<1>2. PICK q \in Nat : DOMAIN s = 1 .. q /\ q # 0 /\ s[1] >= 40
  BY <1>1, SharesAre
<1>3. 1 \in DOMAIN s
  BY <1>2
<1>4. 1 \in 1 .. k
  BY <1>1, <1>3
<1> QED BY <1>1, <1>2, <1>4

\* Without a king to pay, no share goes to a uid.
LEMMA NobodyEarns ==
  ASSUME NEW m \in Metagraphs, NEW kings \in Seq(Miners), Paid(m, kings) = <<>>,
         NEW k, NEW s, NEW to, NEW earned, NEW burn, PlanOf(m, kings, k, s, to, earned, burn)
  PROVE  /\ \A i \in 1 .. k : to[i] = {}
         /\ \A u \in DOMAIN m : earned[u] = 0
<1>1. \A i \in 1 .. k : to[i] = {}
  <2>1. \A i : i \notin DOMAIN Paid(m, kings)
    OBVIOUS
  <2> QED BY <2>1 DEF PlanOf, Payee
<1>2. k \in Nat /\ s \in [1 .. k -> Nat]
  BY DEF PlanOf
<1>3. IsFiniteSet(1 .. k)
  BY <1>2, FS_Interval
<1>4. ASSUME NEW u \in DOMAIN m PROVE earned[u] = 0
  <2>1. PICK f : f = PartOf(s, to, u)
    OBVIOUS
  <2>2. f \in [1 .. k -> Int] /\ \A i \in 1 .. k : f[i] = 0
    BY <1>1, <1>2, <2>1 DEF PartOf
  <2>3. SumFunction(f) = 0
    BY <1>3, <2>2, SumZero
  <2> QED BY <2>1, <2>3 DEF PlanOf
<1> QED BY <1>1, <1>4

\* A window of no kings has no shares.
LEMMA VectorIsEmpty ==
  ASSUME NEW m \in Metagraphs, NEW kings \in Seq(Miners), Len(kings) <= KingWindow, KingWindow = 0
  PROVE  \A u \in DOMAIN Weights(m, kings) : Weights(m, kings)[u] = 0
<1>1. PICK k, s, to, earned, burn : PlanOf(m, kings, k, s, to, earned, burn)
  BY PlanExists
<1>2. Paid(m, kings) = <<>> /\ Len(Paid(m, kings)) = 0
  <2>1. Len(Paid(m, kings)) = 0 /\ Paid(m, kings) \in Seq(Miners)
    BY PaidAre
  <2> QED BY <2>1, EmptySeq
<1>3. \A u \in DOMAIN m : earned[u] = 0
  BY <1>1, <1>2, NobodyEarns
<1>4. k \in Nat /\ s \in [1 .. k -> Nat] /\ s = Shares(0)
  BY <1>1, <1>2 DEF PlanOf
<1>5. DOMAIN s = 1 .. 0
  BY <1>4, SharesAre
<1>6. burn = 0
  <2>1. PICK f : f = Ownerless(s, to)
    OBVIOUS
  <2>2. DOMAIN f = 1 .. 0
    BY <1>5, <2>1 DEF Ownerless
  <2>3. f \in [1 .. 0 -> Int] /\ \A i \in 1 .. 0 : f[i] = 0
    BY <1>5, <2>1 DEF Ownerless
  <2>4. IsFiniteSet(1 .. 0)
    BY FS_Interval
  <2>5. SumFunction(f) = 0
    BY <2>3, <2>4, SumZero
  <2> QED BY <1>1, <2>1, <2>5 DEF PlanOf
<1>7. Weights(m, kings) = [u \in DOMAIN m |-> earned[u] + (IF u = 0 THEN burn ELSE 0)]
  BY <1>1 DEF PlanOf
<1> QED BY <1>3, <1>6, <1>7

LEMMA VectorBurns ==
  ASSUME NEW m \in Metagraphs, NEW kings \in Seq(Miners), KingWindow # 0, Submittable(m, kings), Paid(m, kings) = <<>>
  PROVE  /\ Weights(m, kings)[0] > 0
         /\ \A u \in DOMAIN Weights(m, kings) \ {0} : Weights(m, kings)[u] = 0
<1>1. PICK k, s, to, earned, burn : PlanOf(m, kings, k, s, to, earned, burn)
  BY PlanExists
<1>2. /\ k \in Nat \ {0} /\ s \in [1 .. k -> Nat]
      /\ earned \in [DOMAIN m -> Nat] /\ burn \in Nat /\ Burn(m, kings) = burn
  <2>1. k \in Nat \ {0}
    BY <1>1, PlanPays
  <2> QED BY <1>1, <2>1 DEF PlanOf
<1>3. IsFiniteSet(1 .. k)
  BY <1>2, FS_Interval
<1>4. /\ \A i \in 1 .. k : to[i] = {}
      /\ \A u \in DOMAIN m : earned[u] = 0
  BY <1>1, NobodyEarns
<1>5. PICK burnt : burnt = Ownerless(s, to)
  OBVIOUS
<1>6. burn = SumFunction(burnt) /\ burnt \in [1 .. k -> Nat] /\ burnt[1] = s[1]
  <2>1. burn = SumFunction(burnt)
    BY <1>1, <1>5 DEF PlanOf
  <2>2. DOMAIN s = 1 .. k /\ 1 \in 1 .. k
    BY <1>2
  <2> QED BY <1>2, <1>4, <1>5, <2>1, <2>2 DEF Ownerless
<1>7. s[1] >= 40 /\ s[1] \in Nat
  BY <1>1, <1>2, PlanPays
<1>8. burn > 0
  <2>1. burnt[1] <= SumFunction(burnt)
    <3>1. PICK I : I = 1 .. k
      OBVIOUS
    <3>2. IsFiniteSet(I) /\ burnt \in [I -> Nat] /\ 1 \in I
      BY <1>2, <1>3, <1>6, <3>1
    <3> QED BY <3>2, SumAtLeast
  <2> QED BY <1>2, <1>6, <1>7, <2>1
<1>9. 0 \in DOMAIN m
  BY <1>2, <1>8 DEF Submittable
<1>11. Weights(m, kings) = [u \in DOMAIN m |-> earned[u] + (IF u = 0 THEN burn ELSE 0)]
  BY <1>1 DEF PlanOf
<1>12. Weights(m, kings)[0] = burn
  BY <1>2, <1>4, <1>9, <1>11
<1>13. DOMAIN Weights(m, kings) = DOMAIN m
  BY <1>11
<1>14. ASSUME NEW u \in DOMAIN m \ {0} PROVE Weights(m, kings)[u] = 0
  BY <1>4, <1>11
<1> QED BY <1>8, <1>12, <1>13, <1>14

LEMMA FirstEarnsMost ==
  ASSUME NEW m \in Metagraphs, NEW kings \in Seq(Miners), kings # <<>>, Len(kings) <= KingWindow,
         NEW u \in UidOf(m, Head(kings)) \ {0}
  PROVE  Weights(m, kings)[u] >= 40
<1>1. PICK k, s, to, earned, burn : PlanOf(m, kings, k, s, to, earned, burn)
  BY PlanExists
<1>0. KingWindow # 0
  <2>1. Len(kings) \in Nat /\ Len(kings) # 0
    BY EmptySeq
  <2> QED BY <2>1
<1>2. k \in Nat \ {0} /\ s \in [1 .. k -> Nat] /\ earned \in [DOMAIN m -> Nat]
  <2>1. k \in Nat \ {0}
    BY <1>0, <1>1, PlanPays
  <2> QED BY <1>1, <2>1 DEF PlanOf
<1>3. IsFiniteSet(1 .. k) /\ u \in DOMAIN m
  BY <1>2, FS_Interval, UidsAre
<1>4. Paid(m, kings) # <<>> /\ Paid(m, kings)[1] = kings[1] /\ Head(kings) = kings[1]
  <2>1. kings[1] \notin {h \in Miners : UidOf(m, h) = {0}}
    <3>1. Head(kings) = kings[1]
      OBVIOUS
    <3> QED BY <3>1
  <2> QED BY <2>1, WithoutKeepsHead DEF Paid
<1>5. u \in to[1]
  <2>1. PICK paid \in Seq(Miners) : paid = Paid(m, kings) /\ paid # <<>>
    BY <1>4, PaidAre
  <2>2. 1 \in DOMAIN paid
    BY <2>1, EmptySeq
  <2>3. u \in Payee(m, paid, 1)
    BY <1>4, <2>1, <2>2 DEF Payee
  <2>4. 1 \in 1 .. k
    BY <1>2
  <2> QED BY <1>1, <2>1, <2>3, <2>4 DEF PlanOf
<1>6. s[1] >= 40 /\ s[1] \in Nat
  BY <1>0, <1>1, PlanPays
<1>7. PICK f : f = PartOf(s, to, u)
  OBVIOUS
<1>8. f \in [1 .. k -> Nat] /\ f[1] = s[1] /\ 1 \in 1 .. k
  BY <1>2, <1>5, <1>7 DEF PartOf
<1>9. f[1] <= SumFunction(f)
  BY <1>3, <1>8, SumAtLeast
<1>10. earned[u] = SumFunction(f) /\ earned[u] \in Nat
  BY <1>1, <1>2, <1>3, <1>7 DEF PlanOf
<1>11. Weights(m, kings) = [v \in DOMAIN m |-> earned[v] + (IF v = 0 THEN burn ELSE 0)]
  BY <1>1 DEF PlanOf
<1>12. Weights(m, kings)[u] = earned[u]
  BY <1>3, <1>10, <1>11
<1> QED BY <1>6, <1>8, <1>9, <1>10, <1>12

\* Vectors that are set are whole, all zero with a window of no kings, and announcements
\* right, for any window, whichever blocks, registrations, kings and changes of the tempo
\* come between a tick's reads (compute_weights, should_set).
THEOREM WeightsAreWhole == WeightSpec => []SetterInvariant
<1>1. WeightIInv => SetterInvariant
  <2> SUFFICES ASSUME WeightIInv PROVE SetterInvariant
    OBVIOUS
  <2>1. ASSUME step = "set"
        PROVE  /\ seen.neurons \in Metagraphs /\ seen.kings \in Seq(Miners) /\ Len(seen.kings) <= KingWindow
               /\ Submittable(seen.neurons, seen.kings)
    BY <2>1 DEF WeightIInv, DecisionInv, ReadingInv
  <2>2. WholeEmission
    BY <2>1, VectorIsWhole, VectorIsEmpty, VectorBurns, FirstEarnsMost DEF WholeEmission, Vector
  <2>3. WeightTypeOK
    BY DEF WeightIInv
  <2> QED BY <2>2, <2>3, NextTryFollows DEF SetterInvariant
<1> QED BY <1>1, WeightStarts, WeightSteps, PTL DEF WeightSpec

=============================================================================
