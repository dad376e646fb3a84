------------------------------ MODULE MCPolicies ------------------------------
(***************************************************************************)
(* The service report in its two halves: a replay in detail, under         *)
(* forecasts with a gap, none at all, and rates, with and without lots; or *)
(* a walk over a portfolio.  A behaviour does one of the two.              *)
(***************************************************************************)
EXTENDS Policies, Study

UpTo(f, lot) == [kind |-> "up_to", forecast |-> f, safety |-> 0, lot |-> lot]
FromRate(kind, lot) == [kind |-> kind, rate |-> 1, safety |-> 1, lot |-> lot]

MCRules ==
    {[kind |-> "any", most |-> 2], UpTo(<<0>>, 0), UpTo(<<2, 0, 1, 2>>, 0), UpTo(<<0, 1, 1, 2>>, 3)}
    \cup {FromRate(kind, lot) : kind \in Fitted, lot \in {0, 2}}
    \cup {[FromRate("reorder_point", 2) EXCEPT !.safety = -1]}

MCKeys == <<"a", "b">>

\* Unusable, smooth, erratic, intermittent and lumpy ones, some with a silent end,
\* and two that part only after their first four buckets.
MCHistories ==
    {<<>>, <<1, 0>>, <<1, 1, 1, 1, 1, 1>>, <<1, 1, 0, 1, 3, 2>>, <<1, 1, 0, 1, 0, 0>>,
     <<0, 1, 4, 1, 2, 0>>, <<1, 1, 4, 1, 2>>}

Lot(policy, qty) == [policy |-> policy, qty |-> qty]
MCParts ==
    {[cost |-> 0, lead |-> 0, safety |-> 0, lot |-> Lot("min_max", 2)],
     [cost |-> 1, lead |-> 1, safety |-> 1, lot |-> Lot("fixed_qty", 3)]}

\* Half as much again, and more in every bucket.
MCRates == {0, 50}
MCFactor(r, b) == IF r = 0 THEN 2 ELSE 2 + b

Fit(values, finite, trend) == [raises |-> FALSE, values |-> values, finite |-> finite, trend |-> trend]
MCFits ==
    {[Fit(<<>>, TRUE, FALSE) EXCEPT !.raises = TRUE],
     Fit(<<1, 2>>, FALSE, FALSE), Fit(<<2, -1>>, TRUE, TRUE), Fit(<<0, 1>>, TRUE, FALSE)}

------------------------------------------------------------------------------
policyVars == <<vars, rule, came>>

\* The half that is not under way stays where it is.
NoStudy ==
    /\ job = "none" /\ report = NoReport /\ working = {} /\ growth = 0
    /\ history = <<>> /\ parts = <<>> /\ results = <<>> /\ tally = Uncounted
NoReplay == PolicyInit /\ rule.kind = "any" /\ setting = [lead |-> 0, review |-> 1, unmet |-> "lost"]

ServiceInit == (PolicyInit /\ NoStudy) \/ (NoReplay /\ StudyInit)
ServiceNext ==
    \/ PolicyNext /\ job = "none" /\ UNCHANGED studyVars
    \/ StudyNext /\ UNCHANGED policyVars

ServiceSpec == ServiceInit /\ [][ServiceNext]_<<policyVars, studyVars>>
===============================================================================
