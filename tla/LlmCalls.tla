------------------------------ MODULE LlmCalls ------------------------------
(***************************************************************************)
(* How the judge and the task screener get an answer out of their models:  *)
(* a list of routes, a number of attempts, time limits, and answers that   *)
(* are checked.  The judge exhausts one route after the other, the         *)
(* screener goes round all of them.  The judge's two patches are shown to  *)
(* the model as A and B in either order; its answer is put back in roles.  *)
(***************************************************************************)
EXTENDS Integers, Sequences

CONSTANTS
  Routes,       \* number of clients
  Tries,        \* attempts per route
  CallTime,     \* per_attempt_timeout_seconds of the screener
  TotalTime,    \* total_timeout_seconds
  Scores        \* what a model may give: NotANumber, or an integer meant to be 0 to 100

NotANumber == -1000

ASSUME LlmCallsAssumption ==
  /\ Routes \in Nat \ {0} /\ Tries \in Nat \ {0}
  /\ CallTime \in Nat \ {0} /\ TotalTime \in Nat \ {0}
  /\ Scores \subseteq Int

VARIABLES
  caller,       \* "judge" or "screener"
  route, try,   \* of the next attempt
  barred,     \* routes that the screener asks no more
  asked,        \* routes asked
  elapsed,      \* time units gone
  kingFirst,    \* the blinding: A is the king's patch
  answer,       \* the model's answer, of the patches, and whether it scored both
  verdict       \* the result: none, or winner and scores by role

callVars == <<caller, route, try, barred, asked, elapsed, kingFirst, answer, verdict>>

NoAnswer == [winner |-> "none", king |-> 0, challenger |-> 0]
Unsaid == [winner |-> "none", scored |-> FALSE, king |-> 0, challenger |-> 0]
Failed == [winner |-> "failed", king |-> 0, challenger |-> 0]

\* A neutral judgment, saved as such; a screening failure, counted and retried.
Unanswered == IF caller = "judge" THEN [winner |-> "tie", king |-> 50, challenger |-> 50] ELSE Failed

CallsInit ==
  /\ caller \in {"judge", "screener"} /\ kingFirst \in BOOLEAN
  /\ route = 1 /\ try = 1 /\ barred = {} /\ asked = {} /\ elapsed = 0
  /\ answer = Unsaid /\ verdict = NoAnswer

Pending == verdict = NoAnswer

-----------------------------------------------------------------------------
\* Whom to ask next.

\* The judge's loops go over routes, then attempts; the screener's the other way.
Following ==
  IF caller = "judge"
  THEN IF try < Tries THEN <<route, try + 1>> ELSE <<route + 1, 1>>
  ELSE IF route < Routes THEN <<route + 1, try>> ELSE <<1, try + 1>>

Exhausted(next) == next[1] > Routes \/ next[2] > Tries

GoesOn(next) ==
  /\ route' = next[1] /\ try' = next[2]
  /\ verdict' = IF Exhausted(next) THEN Unanswered ELSE verdict

\* A route that the screener barred is passed over.
Pass ==
  /\ Pending /\ route \in barred
  /\ GoesOn(Following)
  /\ UNCHANGED <<caller, barred, asked, elapsed, kingFirst, answer>>

Asks(spent) ==
  /\ Pending /\ route \notin barred
  /\ elapsed + spent <= TotalTime
  /\ elapsed' = elapsed + spent
  /\ asked' = asked \cup {route}

-----------------------------------------------------------------------------
\* Attempts.

Clamped(n) == IF n = NotANumber \/ n > 100 THEN 100 ELSE IF n < 0 THEN 0 ELSE n

\* The scores of both if either is missing or no number.
Implied(winner) == IF winner = "a" THEN <<100, 0>> ELSE IF winner = "b" THEN <<0, 100>> ELSE <<50, 50>>

\* The winner as declared, a tie where none is, by the scores if it cannot be read.
Declared(winner, a, b) ==
  IF winner \in {"a", "b", "tie"} THEN winner
  ELSE IF winner = "missing" THEN "tie"
  ELSE IF a > b THEN "a" ELSE IF b > a THEN "b" ELSE "tie"

\* parse_verdict: candidate, score of A and of B; scores are given for both or implied.
Parsed(winner, given) ==
  LET s == IF given = <<>> THEN Implied(winner) ELSE <<Clamped(given[1]), Clamped(given[2])>>
  IN <<Declared(winner, s[1], s[2]), s[1], s[2]>>

\* Mutant of Unblinded: the scores stay in the order of the candidates.
UnblindedByName(v) ==
  [winner |-> IF v[1] = "tie" THEN "tie" ELSE IF (v[1] = "a") = kingFirst THEN "king" ELSE "challenger",
   king |-> v[2], challenger |-> v[3]]

\* Candidates back to roles.
Unblinded(v) ==
  [winner |-> IF v[1] = "tie" THEN "tie" ELSE IF (v[1] = "a") = kingFirst THEN "king" ELSE "challenger",
   king |-> IF kingFirst THEN v[2] ELSE v[3],
   challenger |-> IF kingFirst THEN v[3] ELSE v[2]]

Shown(role) == IF (role = "king") = kingFirst THEN "a" ELSE "b"

\* A patch that speaks to the judge loses before a model is asked; two such tie.
Guarded ==
  /\ caller = "judge" /\ Pending /\ asked = {}
  /\ \E addressing \in SUBSET {"king", "challenger"} \ {{}} :
       verdict' = [winner |-> CASE addressing = {"king"} -> "challenger"
                                [] addressing = {"challenger"} -> "king"
                                [] OTHER -> "tie",
                   king |-> IF "king" \in addressing THEN 0 ELSE 100,
                   challenger |-> IF "challenger" \in addressing THEN 0 ELSE 100]
  /\ UNCHANGED <<caller, route, try, barred, asked, elapsed, kingFirst, answer>>

\* The model prefers a patch, or none, says something unreadable or names no winner,
\* and scores both or not.
Judged ==
  /\ caller = "judge" /\ Asks(0)
  /\ \E winner \in {"king", "challenger", "tie", "missing", "unreadable"}, k, c \in Scores, given \in BOOLEAN :
       LET token == IF winner \in {"king", "challenger"} THEN Shown(winner) ELSE winner
           scores == IF ~given THEN <<>> ELSE IF kingFirst THEN <<k, c>> ELSE <<c, k>>
       IN /\ answer' = [winner |-> winner, scored |-> given,
                         king |-> IF given THEN k ELSE 0, challenger |-> IF given THEN c ELSE 0]
          /\ verdict' = Unblinded(Parsed(token, scores))
  /\ UNCHANGED <<caller, route, try, barred, kingFirst>>

\* The screener's answer: one score, refused unless it is a number of the scale.
Screened ==
  /\ caller = "screener" /\ Asks(0)
  /\ \E s \in Scores \cap 0 .. 100 :
       verdict' = [winner |-> "king", king |-> s, challenger |-> 0]
  /\ UNCHANGED <<caller, route, try, barred, kingFirst, answer>>

\* The call fails or its answer cannot be parsed, at once or after some time; each
\* of the screener's calls is cut off, the judge's only all together.
AttemptFails ==
  /\ \E spent \in 0 .. IF caller = "screener" THEN CallTime ELSE TotalTime - 1 : Asks(spent)
  /\ GoesOn(Following)
  /\ UNCHANGED <<caller, barred, kingFirst, answer>>

\* The route itself is at fault: no more attempts on it.
RouteFails ==
  /\ Asks(0)
  /\ IF caller = "judge" THEN GoesOn(<<route + 1, 1>>) /\ UNCHANGED barred
     ELSE GoesOn(Following) /\ barred' = barred \cup {route}
  /\ UNCHANGED <<caller, kingFirst, answer>>

\* The time for all attempts is over in the middle of one.
TotalTimeout ==
  /\ Pending /\ route \notin barred
  /\ caller = "judge" \/ elapsed + CallTime > TotalTime
  /\ elapsed' = TotalTime /\ asked' = asked \cup {route}
  /\ verdict' = Unanswered
  /\ UNCHANGED <<caller, route, try, barred, kingFirst, answer>>

\* The worker's next row.
NextRow ==
  /\ ~Pending
  /\ route' = 1 /\ try' = 1 /\ barred' = {} /\ asked' = {} /\ elapsed' = 0
  /\ kingFirst' \in BOOLEAN /\ answer' = Unsaid /\ verdict' = NoAnswer
  /\ UNCHANGED caller

CallsNext == Pass \/ Guarded \/ Judged \/ Screened \/ AttemptFails \/ RouteFails \/ TotalTimeout \/ NextRow

CallsSpec == CallsInit /\ [][CallsNext]_callVars

-----------------------------------------------------------------------------
Results == [winner : {"none", "failed", "king", "challenger", "tie"}, king : 0 .. 100, challenger : 0 .. 100]

CallsTypeOK ==
  /\ caller \in {"judge", "screener"} /\ kingFirst \in BOOLEAN
  /\ route \in 1 .. Routes + 1 /\ try \in 1 .. Tries + 1
  /\ barred \subseteq 1 .. Routes /\ asked \subseteq 1 .. Routes
  /\ elapsed \in 0 .. TotalTime /\ verdict \in Results

\* Whatever the blinding, the side the model declared the winner wins, and a winner
\* it does not name is a tie, whatever the scores; each side has the score the model
\* gave its patch, on the scale; where it did not score both, the scores are its
\* winner's, and where its winner cannot be read, the winner is the scores' (blind,
\* parse_verdict, unblind).
AnswersKeepTheirRoles ==
  answer # Unsaid =>
    /\ answer.winner \in {"king", "challenger"} => verdict.winner = answer.winner
    /\ answer.winner \in {"tie", "missing"} => verdict.winner = "tie"
    /\ answer.scored => /\ verdict.king = Clamped(answer.king)
                        /\ verdict.challenger = Clamped(answer.challenger)
    /\ ~answer.scored => verdict.king - verdict.challenger =
                           CASE answer.winner = "king" -> 100
                             [] answer.winner = "challenger" -> -100
                             [] OTHER -> 0
    /\ answer.winner = "unreadable" =>
         CASE verdict.king > verdict.challenger -> verdict.winner = "king"
           [] verdict.king < verdict.challenger -> verdict.winner = "challenger"
           [] OTHER -> verdict.winner = "tie"

\* A screening fails only after every route was asked, as long as the total time
\* covers a slow call of each: one that hangs does not keep the others from their
\* chance (screen_with_retries).
EveryRouteAsked ==
  caller = "screener" /\ verdict = Failed /\ CallTime * (Routes - 1) < TotalTime
    => asked = 1 .. Routes

\* What holds of every answer, however calls fail: the two above.
CallsInvariant == CallsTypeOK /\ AnswersKeepTheirRoles /\ EveryRouteAsked
=============================================================================
