------------------------------- MODULE MCHost -------------------------------
(***************************************************************************)
(* Small instances of four components that share no state: the repository  *)
(* cache, a sandbox run, the intake of submissions and the source of       *)
(* commits.  The initial state chooses the one that runs; the others rest, *)
(* in states where nothing is due, so that their fairness asks nothing.    *)
(***************************************************************************)
EXTENDS RepoCache, SolveRun, Intake, CommitSource

CONSTANTS miner, rival, owner, good, bad, worse

VARIABLE part   \* the component that runs

hostVars == <<part, cacheVars, runVars, intakeVars, sourceVars>>

MCPairs == {<<miner, owner>>, <<rival, owner>>}
MCHotkeyOf == [s \in Bundles |-> miner]
MCShas == {good, bad, worse}
MCUsable == {good}

\* The watcher has recorded the chain's first block.
IntakeRests ==
  /\ chain = <<[u \in Uids |-> [pair |-> <<miner, owner>>, since |-> 1]]>>
  /\ history = {Row(u, 1, <<miner, owner>>) : u \in Uids} /\ lastBlock = 1 /\ published = <<1>>
  /\ committed = [s \in Bundles |-> 0]
  /\ status = [s \in Bundles |-> "absent"]
  /\ unreadable = {} /\ taken = {} /\ candidate = NoBundle

HostInit ==
  /\ part \in {"cache", "run", "intake", "source"}
  /\ CacheInit /\ RunInit /\ SourceInit
  /\ IF part = "intake" THEN IntakeInit ELSE IntakeRests

CachePart == part = "cache" /\ CacheNext /\ UNCHANGED <<part, runVars, intakeVars, sourceVars>>
RunPart == part = "run" /\ RunNext /\ UNCHANGED <<part, cacheVars, intakeVars, sourceVars>>
IntakePart == part = "intake" /\ IntakeNext /\ UNCHANGED <<part, cacheVars, runVars, sourceVars>>
SourcePart == part = "source" /\ SourceNext /\ UNCHANGED <<part, cacheVars, runVars, intakeVars>>

HostNext == CachePart \/ RunPart \/ IntakePart \/ SourcePart

HostSpec ==
  /\ HostInit /\ [][HostNext]_hostVars
  /\ CacheFairness /\ RunFairness /\ IntakeFairness /\ SourceFairness
=============================================================================
