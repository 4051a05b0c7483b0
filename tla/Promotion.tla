----------------------------- MODULE Promotion -----------------------------
(***************************************************************************)
(* The publication of a winner: its bundle replaces the previous one's on  *)
(* a branch, by calls to the GitHub API that overlapping resolvers may     *)
(* make at once.  Everything between the reading of the head and the       *)
(* update of the ref goes by commit hashes and cannot change underneath.   *)
(***************************************************************************)
EXTENDS Integers, Sequences, SequencesExt

CONSTANTS
  Publishers,     \* resolver processes
  Winners,        \* submissions to publish
  FilesOf,        \* the paths of each bundle
  RepoFiles,      \* what the branch holds before the first publication
  NoWinner,
  MaxCommits      \* bound: commits on the branch

ASSUME PromotionAssumption ==
  /\ NoWinner \notin Winners /\ MaxCommits \in Nat

VARIABLES
  branch,         \* the commits on the branch, the head last
  publisher       \* each publication under way: its step, winner, base and the paths to remove

promotionVars == <<branch, publisher>>

Resting == [step |-> "rest", of |-> NoWinner, base |-> 0, old |-> {}, blind |-> FALSE]

\* A manifest lists what the last publication wrote.
PromotionInit ==
  /\ branch = <<[of |-> NoWinner, files |-> RepoFiles, manifest |-> {}, blind |-> FALSE]>>
  /\ publisher = [p \in Publishers |-> Resting]

PublisherGoes(p, state) == publisher' = [publisher EXCEPT ![p] = state]

\* The bundle was read and validated; the head is where it is.
FetchHead(p, s) ==
  /\ publisher[p].step = "rest"
  /\ PublisherGoes(p, [step |-> "manifest", of |-> s, base |-> Len(branch), old |-> {}, blind |-> FALSE])
  /\ UNCHANGED branch

Told(p, old, blind) ==
  [step |-> "ref", of |-> publisher[p].of, base |-> publisher[p].base, old |-> old, blind |-> blind]

\* The base's manifest; a request that fails reads as none.
FetchManifest(p) ==
  /\ publisher[p].step = "manifest"
  /\ \/ PublisherGoes(p, Told(p, branch[publisher[p].base].manifest, FALSE))
     \/ PublisherGoes(p, Told(p, {}, TRUE))
  /\ UNCHANGED branch

\* Mutant of Tree: what the last publication wrote stays.
TreeKeepingAll(p) == branch[publisher[p].base].files \cup FilesOf[publisher[p].of]

\* The new tree: the base's, with the bundle and without what only the last one had.
Tree(p) ==
  LET new == FilesOf[publisher[p].of]
  IN (branch[publisher[p].base].files \ (publisher[p].old \ new)) \cup new

Commit(p) ==
  [of |-> publisher[p].of, files |-> Tree(p), manifest |-> FilesOf[publisher[p].of], blind |-> publisher[p].blind]

\* Mutant of Landed: the ref is forced.
LandedByForce(p) == Append(SubSeq(branch, 1, publisher[p].base), Commit(p))

Landed(p) == IF publisher[p].base = Len(branch) THEN Append(branch, Commit(p)) ELSE branch

\* The ref is moved if that is a fast-forward.  The answer may be lost on its way:
\* the resolver sees a failure.
UpdateRef(p) ==
  /\ publisher[p].step = "ref" /\ Len(branch) < MaxCommits
  /\ branch' = Landed(p)
  /\ PublisherGoes(p, Resting)

\* Another call fails, or the process dies.
PublicationFails(p) ==
  /\ publisher[p].step # "rest"
  /\ PublisherGoes(p, Resting)
  /\ UNCHANGED branch

PromotionNext ==
  \E p \in Publishers :
    \/ \E s \in Winners : FetchHead(p, s)
    \/ FetchManifest(p) \/ UpdateRef(p) \/ PublicationFails(p)

PromotionSpec == PromotionInit /\ [][PromotionNext]_promotionVars

-----------------------------------------------------------------------------
PromotionTypeOK ==
  /\ \A i \in DOMAIN branch : branch[i].of \in Winners \cup {NoWinner}
  /\ publisher \in [Publishers ->
       [step : {"rest", "manifest", "ref"}, of : Winners \cup {NoWinner}, base : 0 .. Len(branch),
        old : SUBSET UNION {FilesOf[s] : s \in Winners}, blind : BOOLEAN]]

Written(i) == UNION {FilesOf[branch[j].of] : j \in 2 .. i}

\* The head holds one bundle: that of its winner, the repository's own files that
\* no bundle replaced, and of the losers' files nothing, unless a manifest could not
\* be read (publish_agent_files_commit).
HeadIsOneBundle ==
  LET head == branch[Len(branch)] IN
  head.of # NoWinner =>
    /\ FilesOf[head.of] \subseteq head.files
    /\ (\A i \in DOMAIN branch : ~branch[i].blind)
         => head.files = FilesOf[head.of] \cup (RepoFiles \ Written(Len(branch)))

\* What overlapping publications never break (publish_submission).
PromotionInvariant == PromotionTypeOK /\ HeadIsOneBundle

\* A publication that landed stays in the branch's history, whoever publishes at
\* the same time from an older head ("force": False).
PublicationsStay == [][IsPrefix(branch, branch')]_promotionVars
=============================================================================
