-------------------------------- MODULE Study --------------------------------
(***************************************************************************)
(* The four jobs that walk a portfolio series by series: forecast.run,     *)
(* forecast.backtest, simulate.compare and reconcile.reconcile.  A run     *)
(* fits a model to the whole history and files its forecast.  The others   *)
(* fit on the beginning of a history and judge on what follows; compare    *)
(* and reconcile also classify that beginning, while backtest classifies   *)
(* the whole history.  The reports carry their denominators.               *)
(*                                                                         *)
(* The statistical models are external: a fit raises, or returns numbers   *)
(* that may be negative or not finite, with or without a trend; so are the *)
(* powers of the growth rate.  What a policy achieves in a replay is the   *)
(* business of Policies; here an outcome is what it was fitted on and what *)
(* it was judged by.  Scores are kept as counts, and the rungs of the      *)
(* ladder as sums over the holdout, of which the code takes means.         *)
(***************************************************************************)
EXTENDS Integers, Sequences, FiniteSets, FiniteSetsExt, Functions

CONSTANTS
    Keys,         \* the portfolio: a sequence of series
    Histories,    \* demand histories a series can have
    Parts,        \* entries of the part master: records of cost, lead, safety and lot
    Rates,        \* growth rates a scenario can have, in percent; 0 is none
    Unit,         \* forecasts are filed in parts of a unit, this many
    Factor(_, _), \* growth_factors: the factor of a rate for a bucket, in these parts
    Week,         \* days in a week
    Holdout,      \* buckets held out by compare and reconcile
    FoldLength,   \* horizon of a backtest fold
    FoldCount,    \* n_windows
    MinTrain,     \* shortest training window of a fold
    MinNonzero,   \* fewest buckets with demand that can be classified
    Recent,       \* MOVING_AVERAGE_DAYS
    Fits          \* what a model can do: records of raises, values, finite, trend

\* A part's rule for lots.  A part that asks for Wagner-Whitin is refused by
\* LotSizing, since it carries no costs, and is left out.
IsLot(lot) ==
    /\ lot.policy \in {"lot_for_lot", "fixed_qty", "min_max"}
    /\ lot.qty \in Nat
    /\ lot.policy = "fixed_qty" => lot.qty > 0

ASSUME PortfolioAssumption ==
    /\ Keys \in Seq(Range(Keys))
    /\ Histories \subseteq Seq(Int)
    /\ \A p \in Parts : {p.cost, p.lead, p.safety} \subseteq Nat /\ IsLot(p.lot)

ASSUME WindowAssumption ==
    /\ {Holdout, FoldCount, MinTrain, MinNonzero, Recent} \subseteq Nat
    /\ {Week, FoldLength} \subseteq Nat \ {0}

\* set_growth accepts no rate of -100 or below, so a factor is positive.
ASSUME GrowthAssumption ==
    /\ Rates \subseteq Int /\ 0 \in Rates
    /\ Unit \in Nat \ {0}
    /\ \A b \in 1..Holdout :
          Factor(0, b) = Unit /\ \A r \in Rates : Factor(r, b) \in Nat \ {0}

\* A model that returns has a value for every bucket it is asked for.
ASSUME FitAssumption ==
    \A f \in Fits :
        /\ {f.raises, f.finite, f.trend} \subseteq BOOLEAN
        /\ f.raises => ~f.trend
        /\ ~f.raises => /\ f.values \in Seq(Int)
                        /\ Len(f.values) >= Holdout /\ Len(f.values) >= FoldLength

Jobs == {"run", "backtest", "compare", "reconcile"}
Policy == {"forecast", "moving_average", "naive_zero", "reorder_point", "reorder_point_stale"}

VARIABLES
    job,       \* the job under way
    history,   \* what read_history returned, per key
    parts,     \* the part master, for the keys it has and the jobs that read it
    working,   \* the weekdays worked
    growth,    \* the scenario's rate, for the job that reads it
    results,   \* what became of the keys handled so far
    tally,     \* the counters of Fallbacks and Suppressions
    report     \* the answer; an empty record before

studyVars == <<job, history, parts, working, growth, results, tally, report>>

Key == Range(Keys)
NoReport == [status |-> "none"]
Uncounted == [model_error |-> 0, non_finite |-> 0, suppressed |-> 0]

StudyInit ==
    /\ job \in Jobs
    /\ history \in [Key -> Histories]
    /\ parts \in UNION {[K -> Parts] : K \in SUBSET (IF job \in {"compare", "reconcile"} THEN Key ELSE {})}
    /\ working \in SUBSET (0..(Week - 1)) \ {{}}
    /\ growth \in (IF job = "run" THEN Rates ELSE {0})
    /\ results = <<>>
    /\ tally = Uncounted
    /\ report = NoReport

------------------------------------------------------------------------------
(***************************************************************************)
(* One series.                                                             *)
(***************************************************************************)
SumOf(s) == SumFunction(s)
First(s, n) == SubSeq(s, 1, n)
Last(s, n) == SubSeq(s, Len(s) - n + 1, Len(s))

\* The cycle the working calendar imposes.
SeasonalPeriod == IF working = 0..(Week - 1) THEN 1 ELSE Week

\* ADI against 1.32 and squared variation against 0.49, as whole numbers.
Classify(s) ==
    LET sold == {i \in DOMAIN s : s[i] > 0}
        k == Cardinality(sold)
        total == SumOf(s)
        squares == SumOf([i \in sold |-> s[i] * s[i]])
        intermittent == Len(s) * 100 >= k * 132
        erratic == (k * squares - total * total) * 100 >= total * total * 49
    IN  CASE k < MinNonzero          -> "unusable"
          [] intermittent /\ erratic -> "lumpy"
          [] intermittent            -> "intermittent"
          [] erratic                 -> "erratic"
          [] OTHER                   -> "smooth"

ModelForPattern ==
    [smooth |-> "AutoETS", erratic |-> "AutoETS", intermittent |-> "CrostonOptimized",
     lumpy |-> "TSB", unusable |-> "SeasonalNaive"]

SeasonalNaive(train, n) ==
    LET m == SeasonalPeriod
    IN  [b \in 1..n |->
            IF train = <<>> THEN 0
            ELSE IF Len(train) < m THEN train[Len(train)]
            ELSE Last(train, m)[((b - 1) % m) + 1]]

Clamp(values) == [b \in DOMAIN values |-> IF values[b] > 0 THEN values[b] ELSE 0]

\* A model that raises, or whose numbers are not finite, is replaced.
FallsBack(pattern, fit) ==
    ModelForPattern[pattern] # "SeasonalNaive" /\ (fit.raises \/ ~fit.finite)

\* Mutant of TrendTaken: AutoETS is fitted without a trend from the start.
Eligible(pattern, probe, suppress) == ModelForPattern[pattern] = "AutoETS" /\ suppress

\* With suppression, a trend that AutoETS found is counted and fitted away.
TrendTaken(pattern, probe, suppress) ==
    ModelForPattern[pattern] = "AutoETS" /\ suppress /\ probe.trend

\* The library's answers, in order; the second is without a trend.
AnswersOf(pattern, probe, refit, suppress) ==
    IF TrendTaken(pattern, probe, suppress) THEN <<probe, refit>> ELSE <<probe>>

\* The forecaster of make_forecaster on train, given the answer it rests on.
Forecast(pattern, train, fit, n) ==
    IF ModelForPattern[pattern] = "SeasonalNaive" \/ FallsBack(pattern, fit)
    THEN [values |-> Clamp(SeasonalNaive(train, n)), finite |-> TRUE]
    ELSE [values |-> Clamp(First(fit.values, n)), finite |-> fit.finite]

\* Mutant of TrainingOf: the policies are fitted on the whole history.
WholeHistory(s) == s

TrainingOf(s) == First(s, Len(s) - Holdout)
HoldoutOf(s) == Last(s, Holdout)

------------------------------------------------------------------------------
(***************************************************************************)
(* The rolling-origin backtest.                                            *)
(***************************************************************************)
\* Folds end at the last observation, each a horizon before the next; those
\* with too little training are dropped.
RollingOriginWindows(n) ==
    {[train |-> n - w * FoldLength, from |-> n - w * FoldLength + 1,
      to |-> n - (w - 1) * FoldLength] :
        w \in {v \in 1..FoldCount : n - v * FoldLength >= MinTrain}}

\* naive_scale is defined and not zero.
HasScale(train) ==
    LET m == SeasonalPeriod
    IN  \E b \in (m + 1)..Len(train) : train[b] # train[b - m]

\* A series' result: how many folds could be scored, and whether their mean is
\* a number.  "sound" says which forecasts were.
BacktestSeries(s, sound) ==
    LET windows == RollingOriginWindows(Len(s))
        scored == {w \in windows : HasScale(First(s, w.train))}
    IN  [scored |-> scored,
         unscored |-> IF windows = {} THEN FoldCount
                      ELSE Cardinality(windows) - Cardinality(scored),
         isNumber |-> scored # {} /\ \A w \in scored : sound[w]]

------------------------------------------------------------------------------
(***************************************************************************)
(* The reconciliation ladder.                                              *)
(***************************************************************************)
LotForLot == [policy |-> "lot_for_lot", qty |-> 0]

\* _lot_size under the rule that _lot_sizing_for gives a part.
LotFor(need, lot) ==
    CASE need = 0 -> 0
      [] need > 0 /\ lot.policy = "lot_for_lot" -> need
      [] need > 0 /\ lot.policy = "fixed_qty" -> ((need + lot.qty - 1) \div lot.qty) * lot.qty
      [] need > 0 /\ lot.policy = "min_max" -> IF need < lot.qty THEN lot.qty ELSE need
LessThan(a, b) == IF a < b THEN b - a ELSE 0

\* Closing balances of plan_item without receipts under way or fixed numbers.
Plan(forecast, opening, safety, lot) ==
    LET after[b \in 0..Len(forecast)] ==
            IF b = 0 THEN opening
            ELSE after[b - 1] + LotFor(LessThan(after[b - 1], forecast[b] + safety), lot) - forecast[b]
    IN  after

\* Its planned_order_receipt.
Receipts(forecast, opening, safety, lot) ==
    LET after == Plan(forecast, opening, safety, lot)
    IN  [b \in 1..Len(forecast) |-> after[b] - after[b - 1] + forecast[b]]

\* Mutant of ReplaySchedule: truncation looks at the opening balance.
LateTruncation(receipts, demand, opening, truncate) ==
    LET after[b \in 0..Len(demand)] ==
            IF b = 0 THEN opening
            ELSE LET left == after[b - 1] + receipts[b] - demand[b]
                 IN  IF truncate /\ after[b - 1] < demand[b] THEN 0 ELSE left
    IN  after

ReplaySchedule(receipts, demand, opening, truncate) ==
    LET after[b \in 0..Len(demand)] ==
            IF b = 0 THEN opening
            ELSE LET left == after[b - 1] + receipts[b] - demand[b]
                 IN  IF truncate /\ left < 0 THEN 0 ELSE left
    IN  after

\* simulate.replay at zero lead time, ordering what the schedule receives.
SimulateSchedule(receipts, demand, opening) ==
    LET after[b \in 0..Len(demand)] ==
            IF b = 0 THEN opening
            ELSE LET onHand == after[b - 1] + receipts[b]
                 IN  onHand - (IF onHand < demand[b] THEN onHand ELSE demand[b])
    IN  after

OnHand(after) == SumOf([b \in 1..Holdout |-> after[b]])

BuildLadder(forecast, actual, opening, part) ==
    LET schedule == Receipts(forecast, opening, part.safety, part.lot)
    IN  [pure_netting      |-> OnHand(Plan(forecast, opening, 0, LotForLot)),
         with_safety_stock |-> OnHand(Plan(forecast, opening, part.safety, LotForLot)),
         with_lot_sizing   |-> OnHand(Plan(forecast, opening, part.safety, part.lot)),
         against_actuals   |-> OnHand(ReplaySchedule(schedule, actual, opening, FALSE)),
         with_truncation   |-> OnHand(ReplaySchedule(schedule, actual, opening, TRUE)),
         simulated         |-> OnHand(SimulateSchedule(schedule, actual, opening))]

------------------------------------------------------------------------------
(***************************************************************************)
(* The jobs, one series per step.                                          *)
(***************************************************************************)
NextKey == Keys[Len(results) + 1]
UnderWay(j) == job = j /\ report = NoReport /\ Len(results) < Len(Keys)
Settled(j) == job = j /\ report = NoReport /\ Len(results) = Len(Keys)
Enter(r) ==
    /\ results' = Append(results, r)
    /\ UNCHANGED <<job, history, parts, working, growth, report>>
Answer(r) ==
    /\ report' = r
    /\ UNCHANGED <<job, history, parts, working, growth, results, tally>>
Count(errors, infinite, trends) ==
    tally' = [model_error |-> tally.model_error + errors,
              non_finite  |-> tally.non_finite + infinite,
              suppressed  |-> tally.suppressed + trends]
One(p) == IF p THEN 1 ELSE 0

Grown(values) == [b \in DOMAIN values |-> values[b] * Factor(growth, b)]

\* forecast.run: fitted on all of the history, and grown.  What the library
\* answered is history.
ForecastSeries(probe, refit) ==
    LET s == history[NextKey]
        pattern == Classify(s)
        answers == AnswersOf(pattern, probe, refit, growth # 0)
        fit == answers[Len(answers)]
        forecast == Forecast(pattern, s, fit, Holdout)
    IN  /\ UnderWay("run")
        /\ ~refit.trend
        /\ Enter([status |-> "forecast", pattern |-> pattern, model |-> ModelForPattern[pattern],
                  finite |-> forecast.finite, filed |-> Grown(forecast.values),
                  answers |-> answers])
        /\ Count(One(FallsBack(pattern, fit) /\ fit.raises),
                 One(FallsBack(pattern, fit) /\ ~fit.raises),
                 One(TrendTaken(pattern, probe, growth # 0)))

\* forecast.backtest: the model is chosen by the whole history, folds included;
\* a fit per fold, and the baseline through the same harness.
BacktestKey(fits) ==
    LET s == history[NextKey]
        pattern == Classify(s)
        windows == RollingOriginWindows(Len(s))
        fitOf == [w \in windows |-> fits[(Len(s) - w.train) \div FoldLength]]
        sound == [w \in windows |->
                     Forecast(pattern, First(s, w.train), fitOf[w], FoldLength).finite]
        fallen == {w \in windows : FallsBack(pattern, fitOf[w])}
    IN  /\ UnderWay("backtest")
        /\ Enter([status |-> "scored", pattern |-> pattern,
                  model |-> BacktestSeries(s, sound),
                  baseline |-> BacktestSeries(s, [w \in windows |-> TRUE])])
        /\ Count(Cardinality({w \in fallen : fitOf[w].raises}),
                 Cardinality({w \in fallen : ~fitOf[w].raises}), 0)

\* compare and reconcile leave out what is too short to be split ...
TooShort ==
    /\ UnderWay("compare") \/ UnderWay("reconcile")
    /\ Len(history[NextKey]) <= Holdout
    /\ Enter([status |-> "short"])
    /\ UNCHANGED tally

\* ... and remember what the part master does not know.
Unmatched ==
    /\ UnderWay("compare") \/ UnderWay("reconcile")
    /\ Len(history[NextKey]) > Holdout
    /\ NextKey \notin DOMAIN parts
    /\ Enter([status |-> "unmatched", pattern |-> Classify(TrainingOf(history[NextKey]))])
    /\ UNCHANGED tally

\* What each policy is fitted on.
FittedOn(train) ==
    LET n == Len(train)
        third == IF n < 3 THEN 1 ELSE n \div 3
    IN  [p \in Policy |-> CASE p = "reorder_point_stale" -> First(train, third)
                            [] p = "naive_zero"          -> <<>>
                            [] p = "moving_average"      -> IF n < Recent THEN train ELSE Last(train, Recent)
                            [] OTHER                     -> train]

\* The stock a replay or a ladder starts from: a lead time and a day of the mean.
OpeningOf(train, part) ==
    IF train = <<>> THEN 0 ELSE (SumOf(train) * (part.lead + 1)) \div Len(train)

\* compare: every policy is replayed over the holdout.  Fallbacks are not counted.
CompareKey ==
    LET s == history[NextKey]
        train == TrainingOf(s)
    IN  /\ UnderWay("compare")
        /\ Len(s) > Holdout
        /\ NextKey \in DOMAIN parts
        /\ Enter([status |-> "replayed", pattern |-> Classify(train),
                  fitted |-> FittedOn(train), opening |-> OpeningOf(train, parts[NextKey]),
                  demanded |-> SumOf(HoldoutOf(s)), cost |-> parts[NextKey].cost])
        /\ UNCHANGED tally

\* reconcile: the ladder of one series.  Fallbacks are not counted either.
ReconcileKey(fit) ==
    LET s == history[NextKey]
        train == TrainingOf(s)
        pattern == Classify(train)
        part == parts[NextKey]
        forecast == Forecast(pattern, train, fit, Holdout).values
    IN  /\ UnderWay("reconcile")
        /\ Len(s) > Holdout
        /\ NextKey \in DOMAIN parts
        /\ Enter([status |-> "reconciled", pattern |-> pattern, answer |-> fit,
                  rungs |-> BuildLadder(forecast, HoldoutOf(s), OpeningOf(train, part), part)])
        /\ UNCHANGED tally

------------------------------------------------------------------------------
(***************************************************************************)
(* The reports.                                                            *)
(***************************************************************************)
With(status) == {i \in DOMAIN results : results[i].status = status}

\* scored_mean over the numbered series S, of which "scored" have a number.
ScoredMean(S, scored) ==
    [scored |-> Cardinality(scored), unscored |-> Cardinality(S \ scored)]

OfPattern(S, p) == {i \in S : results[i].pattern = p}

ForecastReport ==
    LET S == DOMAIN results
    IN  /\ Settled("run")
        /\ Answer([status |-> "answered", series |-> Len(Keys),
                   fallbacks |-> [f \in {"model_error", "non_finite"} |-> tally[f]],
                   suppressed |-> tally.suppressed,
                   mix |-> [p \in {results[i].pattern : i \in S} |-> Cardinality(OfPattern(S, p))]])

\* Mutant of Summarise: a series without a score is not counted.
SummariseScored(which) ==
    LET S == {i \in DOMAIN results : results[i][which].isNumber} IN ScoredMean(S, S)

Summarise(which) ==
    ScoredMean(DOMAIN results, {i \in DOMAIN results : results[i][which].isNumber})

BacktestReport ==
    LET S == DOMAIN results
    IN  /\ Settled("backtest")
        /\ Answer([status |-> "answered", evaluated |-> Len(Keys),
                   fallbacks |-> [f \in {"model_error", "non_finite"} |-> tally[f]],
                   model |-> Summarise("model"), baseline |-> Summarise("baseline"),
                   byPattern |-> [p \in {results[i].pattern : i \in S} |->
                        ScoredMean(OfPattern(S, p),
                                   {i \in OfPattern(S, p) : results[i].model.isNumber})]])

\* A series no part stands behind makes the whole report impossible.
RefuseUnmatched ==
    /\ Settled("compare") \/ Settled("reconcile")
    /\ With("unmatched") # {}
    /\ Answer([status |-> "refused", unmatched |-> With("unmatched")])

\* A series nothing was demanded of has no fill rate, one without a price no value.
CompareReport ==
    LET S == With("replayed")
        asked == {i \in S : results[i].demanded # 0}
    IN  /\ Settled("compare")
        /\ With("unmatched") = {}
        /\ Answer([status |-> "answered", evaluated |-> Cardinality(S), portfolio |-> Len(Keys),
                   fillRate |-> [p \in Policy |-> ScoredMean(S, asked)],
                   onHand |-> [p \in Policy |-> ScoredMean(S, S)],
                   value |-> [series |-> Cardinality(S),
                              unpriced |-> Cardinality({i \in S : results[i].cost = 0})],
                   byPattern |-> [p \in {results[i].pattern : i \in S} |->
                        ScoredMean(OfPattern(S, p), OfPattern(asked, p))]])

\* Nothing left to reconcile is an error and not a residual of zero.
RefuseNothing ==
    /\ Settled("reconcile")
    /\ With("unmatched") = {}
    /\ With("reconciled") = {}
    /\ Answer([status |-> "refused", unmatched |-> {}])

Total(S, rung) == SumOf([i \in S |-> results[i].rungs[rung]])
Terms(S) ==
    [safety_stock        |-> Total(S, "with_safety_stock") - Total(S, "pure_netting"),
     lot_granularity     |-> Total(S, "with_lot_sizing") - Total(S, "with_safety_stock"),
     forecast_error      |-> Total(S, "against_actuals") - Total(S, "with_lot_sizing"),
     stockout_truncation |-> Total(S, "with_truncation") - Total(S, "against_actuals")]

ReconcileReport ==
    LET S == With("reconciled")
    IN  /\ Settled("reconcile")
        /\ With("unmatched") = {}
        /\ S # {}
        /\ Answer([status |-> "answered", evaluated |-> Cardinality(S), portfolio |-> Len(Keys),
                   plan |-> Total(S, "with_lot_sizing"), replayed |-> Total(S, "with_truncation"),
                   terms |-> Terms(S),
                   residual |-> Total(S, "with_truncation") - Total(S, "simulated"),
                   byPattern |-> [p \in {results[i].pattern : i \in S} |-> Terms(OfPattern(S, p))]])

StudyNext ==
    \/ \E probe, refit \in Fits : ForecastSeries(probe, refit)
    \/ \E fit \in Fits : ReconcileKey(fit)
    \/ \E fits \in [1..FoldCount -> Fits] : BacktestKey(fits)
    \/ TooShort \/ Unmatched \/ CompareKey
    \/ ForecastReport \/ BacktestReport \/ CompareReport \/ ReconcileReport
    \/ RefuseUnmatched \/ RefuseNothing

StudySpec == StudyInit /\ [][StudyNext]_studyVars

------------------------------------------------------------------------------
(***************************************************************************)
(* Properties.                                                             *)
(***************************************************************************)
\* What a series is judged by it has not seen.  No fold reaches into its training
\* or into another fold.  A comparison and a reconciliation start two series with
\* the same past and the same part alike, whatever becomes of them in the holdout:
\* classified, fitted, stocked and, if the library answers alike, planned alike.
\* (How backtest chooses its model is another matter: see ModelIsChosenBlind.)
SamePast(i, j) ==
    LET s == history[Keys[i]]
        r == history[Keys[j]]
    IN  /\ First(s, Len(s) - Holdout) = First(r, Len(r) - Holdout)
        /\ parts[Keys[i]] = parts[Keys[j]]

HoldoutIsUnseen ==
    /\ \A i \in With("scored") : \A v, w \in results[i].model.scored :
          /\ v.train >= MinTrain /\ v.train < v.from /\ v.to <= Len(history[Keys[i]])
          /\ v = w \/ (v.from..v.to) \cap (w.from..w.to) = {}
    /\ \A i, j \in With("replayed") : SamePast(i, j) =>
          /\ results[i].pattern = results[j].pattern
          /\ results[i].fitted = results[j].fitted
          /\ results[i].opening = results[j].opening
    /\ \A i, j \in With("reconciled") : SamePast(i, j) /\ results[i].answer = results[j].answer =>
          /\ results[i].pattern = results[j].pattern
          /\ \A rung \in {"pure_netting", "with_safety_stock", "with_lot_sizing"} :
                results[i].rungs[rung] = results[j].rungs[rung]

\* backtest.py: the report "is only worth anything if it cannot flatter itself, so:
\* Training data never includes the evaluation window".  Two series that are alike
\* up to a fold are forecast by the same model for it.  backtest classifies whole
\* series, the fold included, so the code breaks this.
ModelIsChosenBlind ==
    \A i, j \in With("scored") : \A w \in results[i].model.scored \cap results[j].model.scored :
        First(history[Keys[i]], w.train) = First(history[Keys[j]], w.train) =>
            ModelForPattern[results[i].pattern] = ModelForPattern[results[j].pattern]

Whole(m) == m.scored + m.unscored
Groups(by) == SumFunction([p \in DOMAIN by |-> Whole(by[p])])

\* Nothing is dropped for being hard.  A backtest scores the model and the
\* baseline on the same folds and the same series, a comparison judges every
\* policy on the same ones; what could not be scored is counted, and the groups
\* add up to the whole.
HardSeriesAreCounted ==
    report.status = "answered" =>
        CASE job = "backtest" ->
                /\ report.model = report.baseline
                /\ Whole(report.model) = Len(Keys)
                /\ Groups(report.byPattern) = Len(Keys)
                /\ \A i \in DOMAIN results : results[i].model.scored = results[i].baseline.scored
          [] job = "compare" ->
                /\ report.evaluated + Cardinality(With("short")) = report.portfolio
                /\ \A p \in Policy : {Whole(report.fillRate[p]), Whole(report.onHand[p])} = {report.evaluated}
                /\ Groups(report.byPattern) = report.evaluated
          [] OTHER -> TRUE

\* The named model's last answer is what was filed, clipped at zero and grown.
LastAnswer(r) == r.answers[Len(r.answers)]
Honoured(r) ==
    /\ r.model # "SeasonalNaive" /\ ~LastAnswer(r).raises /\ LastAnswer(r).finite
    /\ r.filed = [b \in 1..Holdout |->
                    LET v == LastAnswer(r).values[b] IN IF v < 0 THEN 0 ELSE v * Factor(growth, b)]

Replaced == {i \in DOMAIN results : results[i].model # "SeasonalNaive" /\ ~Honoured(results[i])}
Displaced ==
    {i \in DOMAIN results : growth # 0 /\ results[i].model = "AutoETS" /\ results[i].answers[1].trend}

\* A forecast that is filed can be planned with: numbers, none of them negative.
\* Under a growth rate nothing is filed that rests on a fitted trend.  And the
\* report owns up to every substitution: its fallbacks are the series that got
\* other numbers than their model's, its suppressions those whose model had found
\* a trend that was taken away, whatever came of fitting again.
FiledForecastsAreSound ==
    /\ \A i \in With("forecast") :
          LET r == results[i]
          IN  /\ r.finite
              /\ \A b \in 1..Holdout : r.filed[b] >= 0
              /\ growth # 0 /\ r.model = "AutoETS" /\ Honoured(r) => ~LastAnswer(r).trend
    /\ job = "run" /\ report.status = "answered" =>
          /\ report.fallbacks.model_error + report.fallbacks.non_finite = Cardinality(Replaced)
          /\ report.suppressed = Cardinality(Displaced)
          /\ SumFunction(report.mix) = Len(Keys)

\* The ladder's terms mean what they say, series by series: safety stock and lots
\* add stock, stockouts cut off a debt, and a separately written engine leaves no
\* residual; over the groups the terms add up to the gap between the two engines.
TermsMeanWhatTheySay ==
    /\ \A i \in With("reconciled") :
          LET terms == Terms({i})
          IN  /\ terms.safety_stock >= 0 /\ terms.lot_granularity >= 0
              /\ terms.stockout_truncation >= 0
              /\ results[i].rungs.with_truncation = results[i].rungs.simulated
    /\ job = "reconcile" /\ report.status = "answered" =>
          /\ report.plan - report.replayed =
                - SumFunction([p \in DOMAIN report.byPattern |->
                    report.byPattern[p].forecast_error + report.byPattern[p].stockout_truncation])
          /\ report.residual = 0
===============================================================================
