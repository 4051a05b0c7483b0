---------------------------- MODULE CommitSource ----------------------------
(***************************************************************************)
(* The task generator's source of commits: a sampler that looks for a      *)
(* usable commit in a buffer of search results, then among recent push     *)
(* events, remembers what it rejected, and asks GitHub with tokens that    *)
(* cool down when GitHub says so.                                          *)
(***************************************************************************)
EXTENDS Integers, FiniteSets

CONSTANTS
  Shas,           \* commits on GitHub
  NoSha,
  Usable,         \* those the quality gate accepts
  Tokens,         \* number of PATs; one waits for the next when all cool down
  Cooldowns,      \* what GitHub or a default makes a token wait
  MaxAttempts,    \* max_attempts of sample_commit
  LowWatermark, HighWatermark,
  SearchCooldown, EventsTtl,
  RejectLimit     \* reject_cache_max_size

ASSUME CommitSourceAssumption ==
  /\ IsFiniteSet(Shas) /\ NoSha \notin Shas /\ Usable \subseteq Shas
  /\ Tokens \in Nat \ {0} /\ Cooldowns \subseteq Nat \ {0}
  /\ MaxAttempts \in Nat \ {0} /\ RejectLimit \in Nat \ {0}
  /\ LowWatermark \in Nat /\ HighWatermark \in Nat /\ LowWatermark <= HighWatermark
  /\ SearchCooldown \in Nat /\ EventsTtl \in Nat

VARIABLES
  cooling,        \* what is left of each token's cooldown
  turn,           \* _index of the rotation
  buffer,         \* _date_commit_buffer, whose order and repetitions do not matter
  searchCooling,  \* what is left of the search's cooldown
  events,         \* the commits of the cached events
  eventsAge,      \* their age, EventsTtl or more: to be fetched again
  rejected,       \* _reject_keys
  attempt,
  look,           \* the step of sample_commit: "idle", "refill", "pop", "events", "choose", "fetch"
  pick,           \* the commit to fetch
  trouble         \* the source was barren or a fetch failed

sourceVars ==
  <<cooling, turn, buffer, searchCooling, events, eventsAge, rejected, attempt, look, pick, trouble>>

SourceInit ==
  /\ cooling = [t \in 0 .. Tokens - 1 |-> 0] /\ turn = 0
  /\ buffer = {} /\ searchCooling = 0
  /\ events = {} /\ eventsAge = EventsTtl
  /\ rejected = {} /\ attempt = 0 /\ look = "idle" /\ pick = NoSha /\ trouble = FALSE

-----------------------------------------------------------------------------
\* The token rotation.

Ready(i) == cooling[i % Tokens] = 0

\* The turn of the next token that is not cooling; get_token waits until there is one.
NextTurn(i) == i \in turn .. turn + Tokens - 1 /\ Ready(i) /\ \A j \in turn .. i - 1 : ~Ready(j)

\* The headers, or a default, say how long token i waits.
CoolingDown(i) == {[cooling EXCEPT ![i % Tokens] = d] : d \in Cooldowns}

\* A request with the token at turn i.  A failure may cool the token down: 401 for
\* a while, 403 and 429 for as long as the headers say, other errors not at all.
Asked(i, ok) ==
  /\ NextTurn(i)
  /\ turn' = (i + 1) % Tokens
  /\ IF ok THEN UNCHANGED cooling
     ELSE cooling' \in {cooling} \cup CoolingDown(i)

Turns == 0 .. 2 * Tokens - 2

-----------------------------------------------------------------------------
\* The sampler.

Sample ==
  /\ look = "idle"
  /\ look' = "refill" /\ attempt' = 1 /\ trouble' = FALSE
  /\ UNCHANGED <<cooling, turn, buffer, searchCooling, events, eventsAge, rejected, pick>>

SearchWanted == Cardinality(buffer) < LowWatermark /\ searchCooling = 0

NoSearch ==
  /\ look = "refill" /\ ~SearchWanted
  /\ look' = "pop"
  /\ UNCHANGED <<cooling, turn, buffer, searchCooling, events, eventsAge, rejected, attempt, pick, trouble>>

\* One page of a random day.  What is fresh goes to the buffer, the oldest beyond
\* twice the high watermark out of it; a page with nothing fresh starts the cooldown.
Search(i, ok) ==
  /\ look = "refill" /\ SearchWanted
  /\ Asked(i, ok)
  /\ \E page \in IF ok THEN SUBSET Shas ELSE {{}} :
       LET fresh == page \ rejected IN
       /\ searchCooling' = IF fresh = {} THEN SearchCooldown ELSE searchCooling
       /\ buffer' \in {kept \in SUBSET (buffer \cup fresh) :
            Cardinality(kept) = IF Cardinality(buffer \cup fresh) > 2 * HighWatermark
                                THEN 2 * HighWatermark ELSE Cardinality(buffer \cup fresh)}
  /\ look' = "pop"
  /\ UNCHANGED <<events, eventsAge, rejected, attempt, pick, trouble>>

\* The next of the buffer that is not rejected; the rejected on the way are dropped.
Pop ==
  /\ look = "pop"
  /\ IF buffer \subseteq rejected THEN buffer' = {} /\ look' = "events" /\ UNCHANGED pick
     ELSE /\ \E c \in buffer \ rejected, dropped \in SUBSET (buffer \cap rejected) :
               pick' = c /\ buffer' = buffer \ (dropped \cup {c})
          /\ look' = "fetch"
  /\ UNCHANGED <<cooling, turn, searchCooling, events, eventsAge, rejected, attempt, trouble>>

CachedEvents ==
  /\ look = "events" /\ eventsAge < EventsTtl
  /\ look' = "choose"
  /\ UNCHANGED <<cooling, turn, buffer, searchCooling, events, eventsAge, rejected, attempt, pick, trouble>>

\* New events; a request that fails leaves none in the cache.
FetchEvents(i, ok) ==
  /\ look = "events" /\ eventsAge >= EventsTtl
  /\ Asked(i, ok)
  /\ events' \in IF ok THEN SUBSET Shas ELSE {{}}
  /\ eventsAge' = 0 /\ look' = "choose"
  /\ UNCHANGED <<buffer, searchCooling, rejected, attempt, pick, trouble>>

\* Mutant of Counted: an attempt that found no source is not counted.
CountedIfSourced(barren) ==
  IF barren THEN look' = "refill" /\ UNCHANGED attempt
  ELSE IF attempt < MaxAttempts THEN look' = "refill" /\ attempt' = attempt + 1
  ELSE look' = "idle" /\ attempt' = 0

\* The attempt is over without a commit; after the last one the sampler gives up,
\* and the caller learns whether there was trouble.
Counted(barren) ==
  IF attempt < MaxAttempts THEN look' = "refill" /\ attempt' = attempt + 1
  ELSE look' = "idle" /\ attempt' = 0

\* Mutant of Acceptable: an event's commit is fetched whatever is known of it.
AcceptableAlways(c) == TRUE

Acceptable(c) == c \notin rejected

\* One of the events. No event, or one without a commit, is a barren source; a
\* rejected commit is a duplicate.
PickEvent ==
  /\ look = "choose"
  /\ \/ Counted(TRUE) /\ trouble' = TRUE /\ UNCHANGED pick
     \/ \E c \in events :
          IF Acceptable(c) THEN pick' = c /\ look' = "fetch" /\ UNCHANGED <<attempt, trouble>>
          ELSE Counted(FALSE) /\ UNCHANGED <<pick, trouble>>
  /\ UNCHANGED <<cooling, turn, buffer, searchCooling, events, eventsAge, rejected>>

\* The reject cache is cleared when it is full.
Rejected(c) == rejected' = (IF Cardinality(rejected) >= RejectLimit THEN {} ELSE rejected) \cup {c}

\* Textual patches, enough code files and changed lines, one file modified.
Passes(c) == c \in Usable

\* The commit is fetched and screened: found, rejected, or rejected as the fetch failed.
FetchCommit(i, ok) ==
  /\ look = "fetch"
  /\ Asked(i, ok)
  /\ pick' = NoSha
  /\ IF ok /\ Passes(pick) THEN look' = "idle" /\ attempt' = 0 /\ UNCHANGED rejected
     ELSE Rejected(pick) /\ Counted(FALSE)
  /\ trouble' = (trouble \/ ~ok)
  /\ UNCHANGED <<buffer, searchCooling, events, eventsAge>>

Less(n) == IF n > 0 THEN n - 1 ELSE 0

SecondPasses ==
  /\ cooling' = [t \in DOMAIN cooling |-> Less(cooling[t])]
  /\ searchCooling' = Less(searchCooling)
  /\ eventsAge' = IF eventsAge < EventsTtl THEN eventsAge + 1 ELSE eventsAge
  /\ UNCHANGED <<turn, buffer, events, rejected, attempt, look, pick, trouble>>

Sampler ==
  \/ NoSearch \/ Pop \/ CachedEvents \/ PickEvent
  \/ \E i \in Turns, ok \in BOOLEAN : Search(i, ok) \/ FetchEvents(i, ok) \/ FetchCommit(i, ok)

SourceNext == Sample \/ Sampler \/ SecondPasses

SourceSpec == SourceInit /\ [][SourceNext]_sourceVars

\* Time passes, and requests end (http_timeout).
SourceFairness == WF_sourceVars(SecondPasses) /\ WF_sourceVars(Sampler)

SourceFairSpec == SourceSpec /\ SourceFairness

-----------------------------------------------------------------------------
SourceTypeOK ==
  /\ cooling \in [0 .. Tokens - 1 -> Nat] /\ turn \in 0 .. Tokens - 1
  /\ buffer \subseteq Shas /\ Cardinality(buffer) <= 2 * HighWatermark
  /\ events \subseteq Shas /\ rejected \subseteq Shas /\ Cardinality(rejected) <= RejectLimit
  /\ searchCooling \in 0 .. SearchCooldown /\ eventsAge \in 0 .. EventsTtl
  /\ attempt \in 0 .. MaxAttempts /\ look \in {"idle", "refill", "pop", "events", "choose", "fetch"}
  /\ pick \in Shas \cup {NoSha} /\ trouble \in BOOLEAN

\* A commit known as rejected is not fetched, whether it comes from the buffer it
\* was put in before its rejection or from the cached events (sample_commit).
NoRefetch == look = "fetch" => pick \notin rejected

\* What holds between any two requests (GitHubCommitSampler).
SourceInvariant == SourceTypeOK /\ NoRefetch

\* sample_commit ends, with a commit or with an error, although tokens cool down,
\* searches bring nothing and the events are barren.
SamplesEnd == look # "idle" ~> look = "idle"
=============================================================================
