----------------------------- MODULE FtesScores -----------------------------
(***************************************************************************)
(* The transparency scores of farms: every night TransparencyService       *)
(* works through all farms, reads of each the scored steps of its seasons, *)
(* checks them against their hashes on the chain, takes its orders and the *)
(* ratings of its products, and saves the composite.  What is composed is  *)
(* kept as a record, of which the code makes a weighted geometric mean.    *)
(***************************************************************************)
EXTENDS Integers, FiniteSets, FiniteSetsExt

CONSTANTS
    Farms,          \* rows of the farm table
    Steps,          \* rows of season_detail, numbers in the order of their steps
    Farm,           \* Farm[s]: owner of the season of s
    Season,         \* Season[s]
    Day,            \* Day[s]: when s was created, in days
    MinDays,        \* MinDays[s]: min_day_duration of its step, or Null
    MaxDays,        \* MaxDays[s]: max_day_duration
    Ratings,        \* ratings of a review, positive numbers
    TrustScores,    \* trust scores the contract gives, positive numbers
    Trading,        \* bound: farms that sell, as far as the model follows it
    Null            \* no score, no bound, no data

Outcomes == {"fulfilled", "cancelled"}
Weights == {"full", "rushed", "overdue", "zero"}
Evidence == [score : TrustScores \cup {0}, penalty : Weights]
\* The rate in percent: none, all, or some in between.
Rates == {0, 50, 100, Null}

FarmScore == [transparency : UNION {[S -> Evidence] : S \in SUBSET Steps},
              order_fulfillment : Rates, market_validation : Ratings \cup {0, Null}]

RowAssumption == Farm \in [Steps -> Farms]
TradingAssumption == Trading \subseteq Farms
NullAssumption == Null \notin Farms /\ Null \notin TrustScores /\ Null \notin FarmScore

VARIABLES
    stepScore,      \* stepScore[s]: transparency_score of the row
    hashed,         \* chain: hashed[s]: the scores hashed with the step
    orders,         \* orders[f]: which kinds of ended orders the farm has
    selling,        \* farms with a product that is not deleted or for pre-order
    reviews,        \* reviews[f]: the average of the reviews of its products, or Null
    farmScore,      \* farmScore[f]: transparency_score of the farm
    run,            \* the run of the night: farms to do, what was read of one
    result,         \* (history) result[f] in the last run
    touched,        \* (history) farms a step of which has changed since that began
    unchecked,      \* (history) farms whose hashes it could not read
    complete        \* (history) it came to its end

historyVars == <<result, touched, unchecked, complete>>
vars == <<stepScore, hashed, orders, selling, reviews, farmScore, run, historyVars>>

\* The run of the night: the farms still to do, the one at work, what was read of
\* it; <<>> until its orders were counted.
Sleeping == [on |-> FALSE, todo |-> {}, farm |-> Null, evidence |-> <<>>, rate |-> <<>>]
Between(todo) == [Sleeping EXCEPT !.on = TRUE, !.todo = todo]

\* calcTemporalPenalty: with one bound that is kept to, nothing is left.
TemporalPenalty(delta, lo, hi) ==
    CASE lo = Null /\ hi = Null -> "full"
      [] lo # Null /\ delta < lo -> "rushed"
      [] lo # Null /\ hi # Null /\ lo <= delta /\ delta <= hi -> "full"
      [] hi # Null /\ delta > hi -> "overdue"
      [] OTHER -> "zero"

\* The rows of a farm's seasons with a score, each after the one before it.
Scored(f) == {s \in Steps : Farm[s] = f /\ stepScore[s] # Null}
Before(s) == {r \in Scored(Farm[s]) : Season[r] = Season[s] /\ r < s}
Penalty(s) ==
    IF Before(s) = {} THEN "full"
    ELSE TemporalPenalty(Day[s] - Day[Max(Before(s))], MinDays[s], MaxDays[s])

\* A step whose hash on the chain is of another score has the score 0.
CheckedScore(s, checked) ==
    IF checked /\ hashed[s] # {} /\ stepScore[s] \notin hashed[s] THEN 0 ELSE stepScore[s]

\* getFarmSeasonStepsForScoring and calcFarmTransparencyScore
SeasonSteps(f, checked) ==
    [s \in Scored(f) |-> [score |-> CheckedScore(s, checked), penalty |-> Penalty(s)]]

FulfillmentRate(f) ==
    CASE orders[f] = {} -> Null
      [] orders[f] = {"fulfilled"} -> 100
      [] orders[f] = {"cancelled"} -> 0
      [] OTHER -> 50

\* calcCustomerSatisfaction: the mean of the column average_rating, whose default
\* is 0 and which nothing writes.
AverageRating(f) == 0
Satisfaction(f) == IF f \in selling THEN AverageRating(f) ELSE Null
-----------------------------------------------------------------------------
Init ==
    /\ stepScore = [s \in Steps |-> Null]
    /\ hashed = [s \in Steps |-> {}]
    /\ orders = [f \in Farms |-> {}]
    /\ selling = {}
    /\ reviews = [f \in Farms |-> Null]
    /\ farmScore = [f \in Farms |-> Null]
    /\ run = Sleeping
    /\ result = [f \in Farms |-> "none"]
    /\ touched = {} /\ unchecked = {} /\ complete = FALSE

\* The verdict on a log gives its step a score (handleTrustProcessedEventForLog).
ScoreStep(s, v) ==
    /\ v # stepScore[s]
    /\ stepScore' = [stepScore EXCEPT ![s] = v]
    /\ touched' = touched \cup {Farm[s]}
    /\ UNCHANGED <<hashed, orders, selling, reviews, farmScore, run, result, unchecked, complete>>

\* finishStep hashes the step with the score it has.
HashStep(s) ==
    /\ hashed[s] = {}
    /\ hashed' = [hashed EXCEPT ![s] = {stepScore[s]}]
    /\ touched' = touched \cup {Farm[s]}
    /\ UNCHANGED <<stepScore, orders, selling, reviews, farmScore, run, result, unchecked, complete>>

EndOrder(f, outcome) ==
    /\ outcome \notin orders[f]
    /\ orders' = [orders EXCEPT ![f] = @ \cup {outcome}]
    /\ UNCHANGED <<stepScore, hashed, selling, reviews, farmScore, run, historyVars>>

\* createReview saves the review and leaves the product alone.
ReviewProduct(f, rating) ==
    /\ reviews[f] = Null /\ f \in selling
    /\ reviews' = [reviews EXCEPT ![f] = rating]
    /\ UNCHANGED <<stepScore, hashed, orders, selling, farmScore, run, historyVars>>

Sell(f) ==
    /\ f \notin selling
    /\ selling' = selling \cup {f}
    /\ UNCHANGED <<stepScore, hashed, orders, reviews, farmScore, run, historyVars>>
-----------------------------------------------------------------------------
(***************************************************************************)
(* handleCalcFarmTSCron, at three                                          *)
(***************************************************************************)
StartRun ==
    /\ ~run.on
    /\ run' = Between(Farms)
    /\ result' = [f \in Farms |-> "none"]
    /\ touched' = {} /\ unchecked' = {} /\ complete' = FALSE
    /\ UNCHANGED <<stepScore, hashed, orders, selling, reviews, farmScore>>

\* A farm without scored steps is skipped.  When the chain does not answer for its
\* seasons the scores of the rows are taken as they are.
ReadSteps(f) ==
    /\ run.on /\ run.farm = Null /\ f \in run.todo
    /\ \E checked \in BOOLEAN :
          IF Scored(f) = {}
          THEN /\ run' = Between(run.todo \ {f})
               /\ result' = [result EXCEPT ![f] = "skipped"]
               /\ UNCHANGED unchecked
          ELSE /\ run' = [run EXCEPT !.todo = @ \ {f}, !.farm = f,
                                     !.evidence = SeasonSteps(f, checked)]
               /\ unchecked' = IF checked THEN unchecked ELSE unchecked \cup {f}
               /\ UNCHANGED result
    /\ UNCHANGED <<stepScore, hashed, orders, selling, reviews, farmScore, touched, complete>>

ReadOrders ==
    /\ run.farm # Null /\ run.rate = <<>>
    /\ run' = [run EXCEPT !.rate = <<FulfillmentRate(run.farm)>>]
    /\ UNCHANGED <<stepScore, hashed, orders, selling, reviews, farmScore, historyVars>>

SaveScore ==
    /\ run.farm # Null /\ run.rate # <<>>
    /\ farmScore' = [farmScore EXCEPT ![run.farm] =
            [transparency |-> run.evidence, order_fulfillment |-> run.rate[1],
             market_validation |-> Satisfaction(run.farm)]]
    /\ result' = [result EXCEPT ![run.farm] = "stored"]
    /\ run' = Between(run.todo)
    /\ UNCHANGED <<stepScore, hashed, orders, selling, reviews, touched, unchecked, complete>>

\* A farm fails alone, if that can be written to the audit log.
FailFarm(f, logged) ==
    /\ run.farm = f \/ (run.farm = Null /\ f \in run.todo)
    /\ result' = [result EXCEPT ![f] = "failed"]
    /\ run' = IF logged THEN Between(run.todo \ {f}) ELSE Sleeping
    /\ UNCHANGED <<stepScore, hashed, orders, selling, reviews, farmScore, touched, unchecked, complete>>

EndRun ==
    /\ run.on /\ run.farm = Null /\ run.todo = {}
    /\ run' = Sleeping
    /\ complete' = TRUE
    /\ UNCHANGED <<stepScore, hashed, orders, selling, reviews, farmScore, result, touched, unchecked>>

Next ==
    \/ \E s \in Steps : HashStep(s) \/ \E v \in TrustScores : ScoreStep(s, v)
    \/ \E f \in Farms :
        \/ ReadSteps(f)
        \/ \E logged \in BOOLEAN : FailFarm(f, logged)
    \/ \E f \in Trading :
        \/ Sell(f)
        \/ \E outcome \in Outcomes : EndOrder(f, outcome)
        \/ \E rating \in Ratings : ReviewProduct(f, rating)
    \/ StartRun \/ ReadOrders \/ SaveScore \/ EndRun

Spec == Init /\ [][Next]_vars
-----------------------------------------------------------------------------
\* Every variable has its type: the rows the scores are made of, those of the
\* farms, and the run of TransparencyService.
TypeOK ==
    /\ stepScore \in [Steps -> TrustScores \cup {Null}]
    /\ hashed \in [Steps -> SUBSET (TrustScores \cup {Null})]
    /\ orders \in [Farms -> SUBSET Outcomes]
    /\ selling \subseteq Farms
    /\ reviews \in [Farms -> Ratings \cup {Null}]
    /\ farmScore \in [Farms -> FarmScore \cup {Null}]
    /\ run.todo \subseteq Farms /\ run.farm \in Farms \cup {Null}
    /\ result \in [Farms -> {"none", "stored", "skipped", "failed"}]
    /\ touched \cup unchecked \subseteq Farms

\* A run that comes to its end has been to every farm, whatever became of those
\* before it, and what it saved of a farm is what its steps and the chain have
\* said from the start of the run until now, if they have not changed and the
\* chain has answered; a farm it skipped has had no score before either.
RunScoresAll ==
    complete => \A f \in Farms :
        /\ result[f] # "none"
        /\ result[f] = "stored" /\ f \notin touched \cup unchecked =>
               farmScore[f].transparency = SeasonSteps(f, TRUE)
        /\ result[f] = "skipped" => farmScore[f] = Null

\* "MV - Market Validation (avg review rating / 5)", absent without data, says
\* TransparencyService: a score that is there is one a reviewer can give.  False
\* of the code, which takes average_rating.
MarketIsReviewed ==
    \A f \in Farms : farmScore[f] # Null =>
        farmScore[f].market_validation \in Ratings \cup {Null}
=============================================================================
