-------------------------- MODULE PlanSessionProofs --------------------------
(***************************************************************************)
(* Theorems about PlanSession, for any rates, days, rule for what is       *)
(* overdue and number of requests: its types, that the assumptions printed *)
(* with a plan are those of the tables, and that no stored plan mixes two  *)
(* runs.                                                                   *)
(***************************************************************************)
EXTENDS PlanSession, TLAPS

LEMMA MeasureFacts ==
    /\ Len(OutputMeasures) = 6
    /\ \A i \in 1..5 : OutputMeasures[i] \in Dense
    /\ OutputMeasures[6] \notin Dense
    /\ \A i, j \in 1..6 : OutputMeasures[i] = OutputMeasures[j] => i = j
    /\ OutputMeasures[5] = "planned_order_release"
    /\ \A m \in Dense : \E i \in 1..5 : m = OutputMeasures[i]
  BY DEF OutputMeasures, Dense

LEMMA ReleaseIsDense == "planned_order_release" \in Dense
  BY MeasureFacts

LEMMA BasisOfInputs ==
    ASSUME db \in Tables, NEW s \in Source
    PROVE  Inputs(s) \in Basis
  BY RateAssumption DEF Inputs, Basis, Tables, Forecast, Source

LEMMA WrittenType ==
    ASSUME db \in Tables, NEW b \in Basis, NEW m
    PROVE  Written(db, m, b) \in Tables
  <1>1. CASE m \in Dense
    BY <1>1 DEF Written, Tables
  <1>2. CASE m \notin Dense
    <2>1. [x \in Bucket |-> IF x \in Late(b) THEN {b} ELSE db.past[x]] \in [Bucket -> SUBSET Basis]
      BY DEF Tables
    <2> QED
      BY <1>2, <2>1 DEF Written, Tables
  <1> QED
    BY <1>1, <1>2

LEMMA InitTypeOK == Init => TypeOK
  <1> SUFFICES ASSUME Init PROVE TypeOK
    OBVIOUS
  <1>1. Unplanned \in Basis
    BY RateAssumption DEF Unplanned, Basis, Source, History
  <1>2. Empty \in Tables
    BY <1>1, RateAssumption DEF Empty, Tables, History, Forecast
  <1>3. Idle \in Run
    BY <1>1, RateAssumption DEF Idle, Run, Source
  <1>4. demo \in BOOLEAN /\ told \in Answer \cup {NoAnswer}
    BY Zenon DEF Init
  <1> QED
    BY <1>2, <1>3, <1>4, CallAssumption DEF Init, TypeOK, PC

\* Every request and every step of one keeps the types.
LEMMA StepTypeOK == TypeOK /\ [Next]_vars => TypeOK'
  <1> SUFFICES ASSUME TypeOK, [Next]_vars PROVE TypeOK'
    OBVIOUS
  <1>0. Unplanned \in Basis /\ Idle \in Run
    BY RateAssumption DEF Unplanned, Basis, Source, History, Idle, Run
  <1>c. ASSUME Request PROVE calls' \in 0..MaxCalls
    BY <1>c, CallAssumption DEF Request, TypeOK
  <1> USE DEF TypeOK, PC, History
  <1>1. CASE DemoBuild
    BY <1>1, <1>c DEF DemoBuild
  <1>2. CASE Populate
    BY <1>2 DEF Populate, Tables
  <1>3. CASE MappingCommit
    BY <1>3, <1>c DEF MappingCommit, Changes, Tables
  <1>4. CASE OverrideFails
    BY <1>4, <1>c DEF OverrideFails, Changes
  <1>5. ASSUME NEW d \in Rate, NEW c \in Rate, SetGrowth(d, c) PROVE TypeOK'
    BY <1>5, <1>c DEF SetGrowth, Changes, Tables
  <1>6. ASSUME NEW b \in Bucket, OverrideSet(b) PROVE TypeOK'
    BY <1>6, <1>c DEF OverrideSet, Changes, Tables
  <1>7. ASSUME NEW b \in Bucket, OverrideClear(b) PROVE TypeOK'
    BY <1>7, <1>c DEF OverrideClear, Changes, Tables
  <1>8. ASSUME NEW source \in Source, PlanRun(source) PROVE TypeOK'
    <2>1. run' \in Run
      BY <1>8, <1>0 DEF PlanRun, Run, Tables, Idle
    <2> QED
      BY <1>8, <2>1, <1>c DEF PlanRun
  <1>9. CASE FitForecast
    BY <1>9, RateAssumption DEF FitForecast, Stage, Tables, Forecast
  <1>10. CASE NetRequirements
    <2>1. run.source \in Source
      BY DEF Run
    <2>2. Inputs(run.source) \in Basis
      BY <2>1, BasisOfInputs
    <2>3. run' \in Run
      BY <1>10, <2>2 DEF NetRequirements, Run
    <2> QED
      BY <1>10, <2>3 DEF NetRequirements, Stage
  <1>11. CASE WritePlan
    <2>1. db' \in Tables
      BY <1>11, WrittenType DEF WritePlan, Run
    <2>2. run' \in Run
      BY <1>11, MeasureFacts DEF WritePlan, Run, NextMeasure
    <2> QED
      BY <1>11, <2>1, <2>2 DEF WritePlan, Stage
  <1>12. CASE LoadCapacity
    <2>1. db' \in Tables
      BY <1>12, ReleaseIsDense DEF LoadCapacity, Tables
    <2>2. told' \in Answer
      BY <1>12 DEF LoadCapacity, Answer, Run
    <2> QED
      BY <1>12, <1>0, <2>1, <2>2 DEF LoadCapacity, Stage
  <1>13. CASE Fail
    BY <1>13, <1>0 DEF Fail, Tables
  <1>14. CASE Close
    BY <1>14, <1>0 DEF Close
  <1>15. CASE UNCHANGED vars
    BY <1>15 DEF vars
  <1> QED
    BY <1>1, <1>2, <1>3, <1>4, <1>5, <1>6, <1>7, <1>8, <1>9, <1>10, <1>11, <1>12, <1>13,
       <1>14, <1>15 DEF Next

\* The tables, the file, the request in progress and the last answer keep their
\* types in every session.
THEOREM SessionTypeCorrect == Spec => []TypeOK
  BY InitTypeOK, StepTypeOK, PTL DEF Spec

------------------------------------------------------------------------------
(***************************************************************************)
(* What holds between the stages of a run.                                 *)
(***************************************************************************)
\* Only a run that has begun to write leaves the tables mixed, and none of its
\* writes reaches the file before it is over.
SettledInv ==
    /\ pc \in {"idle", "populate", "fit"} => OneRun(db)
    /\ OneRun(disk)

\* The rates a run read at its start are still those of the tables.
RatesInv ==
    pc \in {"fit", "net", "write", "load"} => run.drate = db.drate /\ run.crate = db.crate

\* From its first stage on, the forecast is of this history and these rates.
ForecastInv ==
    pc \in {"net", "write", "load"} =>
        /\ db.forecast.hist = db.hist
        /\ db.hist # "none" => db.forecast.rate = run.drate

\* Netting's inputs do not change under it, and it plans for some demand.
BasisInv ==
    pc \in {"write", "load"} => run.basis = Inputs(run.source) /\ DemandIsUsable(run.basis)

\* The measures written so far, in their order, are of this run.
WrittenInv ==
    /\ pc \in {"fit", "net"} => run.next = 1
    /\ pc = "write" => \A i \in 1..5 : i < run.next => db.plan[OutputMeasures[i]] = run.basis
    /\ pc = "load" =>
        /\ \A m \in Dense : db.plan[m] = run.basis
        /\ \A b \in Late(run.basis) : db.past[b] = {run.basis}

\* An answer stands only while no request is under way.
AnswerInv ==
    /\ pc # "idle" => ~told.known
    /\ AnswerDescribesTables

RunInv ==
    /\ TypeOK
    /\ SettledInv
    /\ RatesInv
    /\ ForecastInv
    /\ BasisInv
    /\ WrittenInv
    /\ AnswerInv

Parts == SettledInv /\ RatesInv /\ ForecastInv /\ BasisInv /\ WrittenInv /\ AnswerInv

LEMMA NothingKnown == NoAnswer.known = FALSE
  BY DEF NoAnswer

\* Netting's inputs are read from three entries of the tables.
LEMMA InputsSame ==
    ASSUME NEW s, db'.forecast = db.forecast, db'.hist = db.hist, db'.firm = db.firm
    PROVE  Inputs(s)' = Inputs(s)
  BY DEF Inputs

\* Whether tables hold one run is read from four.
LEMMA OneRunSame ==
    ASSUME NEW d, NEW e, OneRun(d), e.torn = d.torn, e.plan = d.plan, e.load = d.load,
           e.forecast = d.forecast
    PROVE  OneRun(e)
  BY DEF OneRun

\* While no run is under way, the two stores are all there is to show.
LEMMA QuietStep ==
    ASSUME pc' \in {"idle", "populate"}, told'.known = FALSE, OneRun(db'), OneRun(disk')
    PROVE  Parts'
  <1>1. SettledInv' /\ RatesInv' /\ ForecastInv' /\ BasisInv' /\ WrittenInv'
    BY DEF SettledInv, RatesInv, ForecastInv, BasisInv, WrittenInv
  <1>2. AnswerInv'
    BY DEF AnswerInv, AnswerDescribesTables
  <1> QED
    BY <1>1, <1>2 DEF Parts

\* A request that changes an input changes nothing a run has written.
LEMMA ChangesStep ==
    ASSUME RunInv, NEW d, Changes(d), disk' \in {disk, db'},
           d.torn = db.torn, d.plan = db.plan, d.load = db.load, d.forecast = db.forecast
    PROVE  Parts'
  <1>1. pc' = "idle" /\ db' = d /\ told' = NoAnswer
    BY DEF Changes, Request
  <1>2. OneRun(db) /\ OneRun(disk)
    BY DEF Changes, Request, RunInv, SettledInv
  <1>3. OneRun(d)
    BY <1>2, OneRunSame
  <1> QED
    BY <1>1, <1>2, <1>3, NothingKnown, QuietStep

LEMMA InitRunInv == Init => RunInv
  <1> SUFFICES ASSUME Init PROVE RunInv
    OBVIOUS
  <1>1. OneRun(Empty)
    BY ReleaseIsDense DEF OneRun, Empty, Unplanned
  <1>2. SettledInv
    BY <1>1 DEF Init, SettledInv
  <1>3. RatesInv /\ ForecastInv /\ BasisInv /\ WrittenInv
    BY DEF Init, RatesInv, ForecastInv, BasisInv, WrittenInv
  <1>4. AnswerInv
    BY NothingKnown DEF Init, AnswerInv, AnswerDescribesTables
  <1> QED
    BY <1>2, <1>3, <1>4, InitTypeOK DEF RunInv

\* The stages of a run.
LEMMA PlanRunStep ==
    ASSUME RunInv, NEW source \in Source, PlanRun(source)
    PROVE  Parts'
  <1>1. /\ pc = "idle" /\ pc' = "fit" /\ db' = db /\ disk' = disk /\ told' = NoAnswer
        /\ run' = [Idle EXCEPT !.source = source, !.drate = db.drate, !.crate = db.crate]
    BY DEF PlanRun, Request
  <1>2. run'.drate = db.drate /\ run'.crate = db.crate /\ run'.next = 1
    BY <1>1 DEF Idle
  <1>3. SettledInv'
    BY <1>1 DEF RunInv, SettledInv
  <1>4. RatesInv' /\ ForecastInv' /\ BasisInv' /\ WrittenInv'
    BY <1>1, <1>2 DEF RatesInv, ForecastInv, BasisInv, WrittenInv
  <1>5. AnswerInv'
    BY <1>1, NothingKnown DEF AnswerInv, AnswerDescribesTables
  <1> QED
    BY <1>3, <1>4, <1>5 DEF Parts

LEMMA FitStep ==
    ASSUME RunInv, FitForecast
    PROVE  Parts'
  <1>1. /\ pc = "fit" /\ pc' = "net" /\ disk' = disk /\ run' = run /\ told' = told
    BY DEF FitForecast, Stage
  <1>2. /\ db'.hist = db.hist /\ db'.drate = db.drate /\ db'.crate = db.crate
        /\ db'.forecast.hist = db.hist
        /\ db.hist # "none" => db'.forecast.rate = db.drate
    BY DEF FitForecast, RunInv, TypeOK, Tables
  <1>3. SettledInv'
    BY <1>1 DEF RunInv, SettledInv
  <1>4. RatesInv' /\ ForecastInv'
    BY <1>1, <1>2 DEF RunInv, RatesInv, ForecastInv
  <1>5. BasisInv' /\ WrittenInv'
    BY <1>1 DEF RunInv, BasisInv, WrittenInv
  <1>6. AnswerInv'
    BY <1>1 DEF RunInv, AnswerInv, AnswerDescribesTables
  <1> QED
    BY <1>3, <1>4, <1>5, <1>6 DEF Parts

LEMMA NetStep ==
    ASSUME RunInv, NetRequirements
    PROVE  Parts'
  <1>1. /\ pc = "net" /\ pc' = "write" /\ disk' = disk /\ db' = db /\ told' = told
        /\ DemandIsUsable(Inputs(run.source))
    BY DEF NetRequirements, Stage
  <1>2. /\ run'.source = run.source /\ run'.drate = run.drate /\ run'.crate = run.crate
        /\ run'.next = run.next /\ run'.basis = Inputs(run.source)
    BY DEF NetRequirements, RunInv, TypeOK, Run
  <1>3. SettledInv'
    BY <1>1 DEF RunInv, SettledInv
  <1>4. RatesInv' /\ ForecastInv'
    BY <1>1, <1>2 DEF RunInv, RatesInv, ForecastInv
  <1>5. BasisInv'
    BY <1>1, <1>2 DEF BasisInv, Inputs, DemandIsUsable
  <1>6. WrittenInv'
    BY <1>1, <1>2 DEF RunInv, WrittenInv
  <1>7. AnswerInv'
    BY <1>1 DEF RunInv, AnswerInv, AnswerDescribesTables
  <1> QED
    BY <1>3, <1>4, <1>5, <1>6, <1>7 DEF Parts

\* Writing a measure leaves netting's inputs, the rates and the other measures.
LEMMA WrittenEffect ==
    ASSUME db \in Tables, NEW m, NEW b \in Basis, NEW w, w = Written(db, m, b)
    PROVE  /\ w.hist = db.hist /\ w.drate = db.drate /\ w.crate = db.crate
           /\ w.firm = db.firm /\ w.forecast = db.forecast
           /\ m \in Dense => \A x \in Dense : w.plan[x] = IF x = m THEN b ELSE db.plan[x]
           /\ m \notin Dense => w.plan = db.plan /\ \A d \in Late(b) : w.past[d] = {b}
  <1>1. CASE m \in Dense
    BY <1>1 DEF Written, Tables
  <1>2. CASE m \notin Dense
    <2>1. w.past = [x \in Bucket |-> IF x \in Late(b) THEN {b} ELSE db.past[x]]
      BY <1>2 DEF Written, Tables
    <2>2. \A d \in Late(b) : d \in Bucket
      BY LateAssumption
    <2>3. \A d \in Late(b) : w.past[d] = {b}
      BY <2>1, <2>2
    <2> QED
      BY <1>2, <2>3 DEF Written, Tables
  <1> QED
    BY <1>1, <1>2

LEMMA WriteStep ==
    ASSUME RunInv, WritePlan
    PROVE  Parts'
  <1> DEFINE m == OutputMeasures[run.next]
  <1>1. /\ pc = "write" /\ pc' \in {"write", "load"} /\ disk' = disk /\ told' = told
        /\ db' = Written(db, m, run.basis)
        /\ pc' = "load" <=> run.next = 6
    BY MeasureFacts DEF WritePlan, Stage
  <1>2. run \in Run /\ db \in Tables /\ run.basis \in Basis
    BY DEF RunInv, TypeOK, Run
  <1>3. /\ run'.source = run.source /\ run'.drate = run.drate /\ run'.crate = run.crate
        /\ run'.basis = run.basis /\ run.next \in 1..6
        /\ run.next # 6 => run'.next = run.next + 1
    BY MeasureFacts DEF WritePlan, RunInv, TypeOK, Run, NextMeasure
  <1>w. /\ db'.hist = db.hist /\ db'.drate = db.drate /\ db'.crate = db.crate
        /\ db'.firm = db.firm /\ db'.forecast = db.forecast
        /\ m \in Dense => \A x \in Dense : db'.plan[x] = IF x = m THEN run.basis ELSE db.plan[x]
        /\ m \notin Dense =>
             db'.plan = db.plan /\ \A d \in Late(run.basis) : db'.past[d] = {run.basis}
    BY <1>1, <1>2, WrittenEffect
  <1>4. /\ db'.hist = db.hist /\ db'.drate = db.drate /\ db'.crate = db.crate
        /\ db'.firm = db.firm /\ db'.forecast = db.forecast
    BY <1>w
  <1>5. SettledInv'
    BY <1>1 DEF RunInv, SettledInv
  <1>6. RatesInv' /\ ForecastInv'
    BY <1>1, <1>3, <1>4 DEF RunInv, RatesInv, ForecastInv
  <1>7. BasisInv'
    BY <1>1, <1>3, <1>4 DEF RunInv, BasisInv, Inputs
  <1>8. WrittenInv'
    <2>1. \A i \in 1..5 : i < run.next => db.plan[OutputMeasures[i]] = run.basis
      BY <1>1 DEF RunInv, WrittenInv
    <2>2. CASE run.next = 6
      <3>1. m \notin Dense /\ pc' = "load"
        BY <1>1, <2>2, MeasureFacts
      <3>2. db'.plan = db.plan /\ \A d \in Late(run.basis) : db'.past[d] = {run.basis}
        BY <1>w, <3>1
      <3>3. \A x \in Dense : db.plan[x] = run.basis
        BY <2>1, <2>2, MeasureFacts
      <3> QED
        BY <1>3, <3>1, <3>2, <3>3 DEF WrittenInv
    <2>3. CASE run.next # 6
      <3>1. m \in Dense /\ pc' = "write" /\ run.next \in 1..5
        BY <1>1, <1>3, <2>3, MeasureFacts
      <3>2. \A x \in Dense : db'.plan[x] = IF x = m THEN run.basis ELSE db.plan[x]
        BY <1>w, <3>1
      <3>3. ASSUME NEW i \in 1..5, i < run'.next
            PROVE  db'.plan[OutputMeasures[i]] = run.basis
        <4>1. OutputMeasures[i] \in Dense
          BY MeasureFacts
        <4>2. CASE i = run.next
          BY <3>2, <4>1, <4>2
        <4>3. CASE i # run.next
          <5>1. i < run.next
            BY <1>3, <2>3, <3>3, <4>3
          <5>2. db.plan[OutputMeasures[i]] = run.basis
            BY <2>1, <5>1
          <5> QED
            BY <3>2, <4>1, <5>2
        <4> QED
          BY <4>2, <4>3
      <3> QED
        BY <1>3, <3>1, <3>3 DEF WrittenInv
    <2> QED
      BY <2>2, <2>3
  <1>9. AnswerInv'
    BY <1>1 DEF RunInv, AnswerInv, AnswerDescribesTables
  <1> QED
    BY <1>5, <1>6, <1>7, <1>8, <1>9 DEF Parts

LEMMA LoadStep ==
    ASSUME RunInv, LoadCapacity
    PROVE  Parts'
  <1>1. /\ pc = "load" /\ pc' = "idle" /\ disk' = disk
        /\ told' = [known |-> TRUE, source |-> run.source, drate |-> run.drate,
                    crate |-> run.crate]
    BY DEF LoadCapacity, Stage
  <1>2. /\ db'.hist = db.hist /\ db'.firm = db.firm /\ db'.forecast = db.forecast
        /\ db'.plan = db.plan /\ db'.past = db.past
        /\ db'.load = [plan |-> db.plan["planned_order_release"], rate |-> db.crate]
    BY DEF LoadCapacity, RunInv, TypeOK, Tables
  <1>3. \A x \in Dense : db.plan[x] = run.basis
    BY <1>1 DEF RunInv, WrittenInv
  <1>4. run.basis = Inputs(run.source) /\ DemandIsUsable(run.basis)
    BY <1>1 DEF RunInv, BasisInv
  <1>5. /\ db.forecast.hist = db.hist /\ run.crate = db.crate
        /\ db.hist # "none" => db.forecast.rate = run.drate
    BY <1>1 DEF RunInv, ForecastInv, RatesInv
  <1>6. db.plan["planned_order_release"] = run.basis
    BY <1>3, ReleaseIsDense
  <1>7. SettledInv'
    <2>1. db.forecast = [hist |-> db.forecast.hist, rate |-> db.forecast.rate]
      BY DEF RunInv, TypeOK, Tables, Forecast
    <2>2. run.basis.source = "forecast" =>
            db.forecast = [hist |-> run.basis.hist, rate |-> run.basis.rate]
      BY <1>4, <2>1 DEF Inputs
    <2>3. OneRun(db')
      BY <1>2, <1>3, <1>6, <2>2 DEF OneRun
    <2> QED
      BY <1>1, <2>3 DEF RunInv, SettledInv
  <1>8. RatesInv' /\ ForecastInv' /\ BasisInv' /\ WrittenInv'
    BY <1>1 DEF RatesInv, ForecastInv, BasisInv, WrittenInv
  <1>9. AnswerInv'
    <2>1. Inputs(told.source)' = run.basis
      BY <1>1, <1>2, <1>4 DEF Inputs
    <2>2. run.source = "forecast" => db.hist # "none"
      BY <1>4, <1>5 DEF Inputs, DemandIsUsable
    <2>3. \A b \in Late(run.basis) : db.past[b] = {run.basis}
      BY <1>1 DEF RunInv, WrittenInv
    <2>4. AnswerDescribesTables'
      BY <1>1, <1>2, <1>3, <1>5, <1>6, <2>1, <2>2, <2>3 DEF AnswerDescribesTables
    <2> QED
      BY <1>1, <2>4 DEF AnswerInv
  <1> QED
    BY <1>7, <1>8, <1>9 DEF Parts

LEMMA FailStep ==
    ASSUME RunInv, Fail
    PROVE  Parts'
  <1>1. pc # "idle" /\ pc' = "idle" /\ disk' = disk /\ told' = told
    BY DEF Fail
  <1>2. /\ db'.plan = db.plan /\ db'.load = db.load /\ db'.forecast = db.forecast
        /\ db'.torn = IF pc \in {"net", "write", "load"} THEN TRUE ELSE db.torn
    BY DEF Fail, RunInv, TypeOK, Tables
  <1>3. told.known = FALSE
    BY <1>1 DEF RunInv, AnswerInv, TypeOK, Answer, NoAnswer
  <1>4. OneRun(db')
    <2>1. CASE pc \in {"net", "write", "load"}
      BY <1>2, <2>1 DEF OneRun
    <2>2. CASE pc \notin {"net", "write", "load"}
      <3>1. OneRun(db)
        BY <2>2 DEF RunInv, SettledInv, TypeOK, PC
      <3> QED
        BY <1>2, <2>2, <3>1, OneRunSame
    <2> QED
      BY <2>1, <2>2
  <1> QED
    BY <1>1, <1>3, <1>4, QuietStep DEF RunInv, SettledInv

\* Every step keeps the invariant.
LEMMA StepRunInv == RunInv /\ [Next]_vars => RunInv'
  <1> SUFFICES ASSUME RunInv, [Next]_vars PROVE RunInv'
    OBVIOUS
  <1>0. TypeOK /\ TypeOK'
    BY StepTypeOK DEF RunInv
  <1>a. OneRun(disk) /\ (pc \in {"idle", "populate"} => OneRun(db))
    BY DEF RunInv, SettledInv
  <1>1. ASSUME DemoBuild PROVE Parts'
    BY <1>1, <1>a, NothingKnown, QuietStep DEF DemoBuild, Request
  <1>2. ASSUME Populate PROVE Parts'
    <2>1. told.known = FALSE
      BY <1>2 DEF Populate, RunInv, AnswerInv, TypeOK, Answer, NoAnswer
    <2>2. OneRun(db')
      BY <1>0, <1>2, <1>a, OneRunSame DEF Populate, TypeOK, Tables
    <2> QED
      BY <1>2, <1>a, <2>1, <2>2, QuietStep DEF Populate
  <1>3. ASSUME MappingCommit PROVE Parts'
    BY <1>0, <1>3, ChangesStep DEF MappingCommit, TypeOK, Tables
  <1>4. ASSUME OverrideFails PROVE Parts'
    BY <1>4, <1>a, NothingKnown, QuietStep DEF OverrideFails, Changes, Request
  <1>5. ASSUME NEW d \in Rate, NEW c \in Rate, SetGrowth(d, c) PROVE Parts'
    BY <1>0, <1>5, ChangesStep DEF SetGrowth, TypeOK, Tables
  <1>6. ASSUME NEW b \in Bucket, OverrideSet(b) PROVE Parts'
    BY <1>0, <1>6, ChangesStep DEF OverrideSet, TypeOK, Tables
  <1>7. ASSUME NEW b \in Bucket, OverrideClear(b) PROVE Parts'
    BY <1>0, <1>7, ChangesStep DEF OverrideClear, TypeOK, Tables
  <1>8. ASSUME NEW source \in Source, PlanRun(source) PROVE Parts'
    BY <1>8, PlanRunStep
  <1>9. ASSUME Close PROVE Parts'
    BY <1>9, <1>a, NothingKnown, QuietStep DEF Close
  <1>10. ASSUME UNCHANGED vars PROVE Parts'
    BY <1>10 DEF vars, RunInv, Parts, SettledInv, RatesInv, ForecastInv, BasisInv,
                 WrittenInv, AnswerInv, AnswerDescribesTables, Inputs
  <1>11. Parts'
    BY <1>1, <1>2, <1>3, <1>4, <1>5, <1>6, <1>7, <1>8, <1>9, <1>10, FitStep, NetStep,
       WriteStep, LoadStep, FailStep DEF Next
  <1> QED
    BY <1>0, <1>11 DEF RunInv, Parts

\* The stages of a run keep the promises the later ones rest on, for any rates,
\* days and number of requests.
THEOREM SessionInvariant == Spec => []RunInv
  BY InitRunInv, StepRunInv, PTL DEF Spec

\* Whatever fails, is rolled back or restarted in between: the assumptions
\* printed with a plan are the ones its tables were computed under.
THEOREM AnswersDescribeTables == Spec => []AnswerDescribesTables
  <1>1. RunInv => AnswerDescribesTables
    BY DEF RunInv, AnswerInv
  <1> QED
    BY <1>1, SessionInvariant, PTL

\* The measures of a plan, its forecast and its load come from one run, in the
\* process and in the file.
THEOREM PlansAreNeverMixed == Spec => []NoMixedPlan
  <1>1. RunInv => NoMixedPlan
    BY DEF RunInv, SettledInv, NoMixedPlan
  <1> QED
    BY <1>1, SessionInvariant, PTL
==============================================================================
