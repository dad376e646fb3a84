----------------------------- MODULE PlanSession -----------------------------
(***************************************************************************)
(* The requests a planner's session is made of: planbrain/backend/api.py   *)
(* over planbrain/forecast, planbrain/netreq and planbrain/rccp.           *)
(*                                                                         *)
(* plan.run is three engines in a row, each reading from the tables what   *)
(* the one before wrote, and none of them commits: only the overrides do.  *)
(* The data set itself (parts, calendar, horizon) is an attribute of the   *)
(* process, not of the database, so tables and process can disagree after  *)
(* a failure or a restart.                                                 *)
(*                                                                         *)
(* Quantities are abstracted to their lineage: a derived measure holds the *)
(* inputs it was computed from.  A measure without rows is what an empty   *)
(* history would give, as in the sparse storage of the code.               *)
(***************************************************************************)
EXTENDS Integers, Sequences, FiniteSets

CONSTANTS
    Bucket,     \* the days a planner may fix, or an order may be overdue for
    Rate,       \* growth assumptions
    Late(_),    \* the days netting finds overdue, given what it is computed from
    MaxCalls    \* bound on the requests of a behaviour

ASSUME RateAssumption == 0 \in Rate
ASSUME CallAssumption == MaxCalls \in Nat

VARIABLES
    db,     \* the tables, as this process sees them
    disk,   \* the tables, as the next process would find them
    demo,   \* whether this process holds a data set (state.demo)
    pc,     \* what the request in progress does next, or "idle"
    run,    \* the locals of plan.run
    told,   \* history: the last plan.run's answer, while nothing it rests on changed
    calls   \* requests made, for the bound

vars == <<db, disk, demo, pc, run, told, calls>>

------------------------------------------------------------------------------
History == {"none", "demo", "own"}     \* whose demand history is stored
Source  == {"naive_replay", "forecast"}
PC      == {"idle", "populate", "fit", "net", "write", "load"}

\* What write_plans writes, in its order; the last one is a sparse list.
OutputMeasures == <<"gross_req", "net_req", "projected_on_hand",
                    "planned_order_receipt", "planned_order_release",
                    "past_due_release">>
Dense == {OutputMeasures[i] : i \in 1..5}

Forecast == [hist : History, rate : Rate]

\* The inputs of a netting run.
Basis == [source : Source, hist : History, rate : Rate, firm : SUBSET Bucket]

\* A day netting finds overdue is one of the horizon's.
ASSUME LateAssumption == \A basis \in Basis : Late(basis) \subseteq Bucket

Unplanned == [source |-> "naive_replay", hist |-> "none", rate |-> 0, firm |-> {}]

\* torn is history: a plan.run failed after it had begun to write, and no run
\* has completed since.
Tables ==
    [hist     : History,
     drate    : Rate,
     crate    : Rate,
     firm     : SUBSET Bucket,
     forecast : Forecast,
     plan     : [Dense -> Basis],
     past     : [Bucket -> SUBSET Basis],
     load     : [plan : Basis, rate : Rate],
     torn     : BOOLEAN]

Run      == [source : Source, drate : Rate, crate : Rate, basis : Basis, next : 1..6]
Idle     == [source |-> "forecast", drate |-> 0, crate |-> 0, basis |-> Unplanned,
             next |-> 1]
NoAnswer == [known |-> FALSE]
Answer   == [known : {TRUE}, source : Source, drate : Rate, crate : Rate]

TypeOK ==
    /\ db \in Tables
    /\ disk \in Tables
    /\ demo \in BOOLEAN
    /\ pc \in PC
    /\ run \in Run
    /\ told \in Answer \cup {NoAnswer}
    /\ calls \in 0..MaxCalls

Empty ==
    [hist |-> "none", drate |-> 0, crate |-> 0, firm |-> {},
     forecast |-> [hist |-> "none", rate |-> 0],
     plan |-> [m \in Dense |-> Unplanned],
     past |-> [b \in Bucket |-> {}],
     load |-> [plan |-> Unplanned, rate |-> 0],
     torn |-> FALSE]

\* session(): a new database, or the one the last process left.
Init ==
    /\ db = Empty
    /\ disk = Empty
    /\ demo = FALSE
    /\ pc = "idle"
    /\ run = Idle
    /\ told = NoAnswer
    /\ calls = 0

------------------------------------------------------------------------------
(***************************************************************************)
(* Requests other than plan.run.                                           *)
(***************************************************************************)
Request ==
    /\ pc = "idle"
    /\ calls < MaxCalls
    /\ calls' = calls + 1

\* A request answered in one step that changes an input: the last answer no
\* longer describes the tables.
Changes(tables) ==
    /\ Request
    /\ db' = tables
    /\ told' = NoAnswer
    /\ UNCHANGED <<pc, run>>

\* demo.build: the process has the data set before the tables have its facts.
DemoBuild ==
    /\ Request
    /\ demo' = TRUE
    /\ pc' = "populate"
    /\ told' = NoAnswer
    /\ UNCHANGED <<db, disk, run>>

Populate ==
    /\ pc = "populate"
    /\ db' = [db EXCEPT !.hist = "demo"]
    /\ pc' = "idle"
    /\ UNCHANGED <<disk, demo, run, told, calls>>

\* mapping.commit of a history table that validates.
MappingCommit ==
    /\ Changes([db EXCEPT !.hist = "own"])
    /\ UNCHANGED <<disk, demo>>

\* scenario.growth with rates.
SetGrowth(d, c) ==
    /\ Changes([db EXCEPT !.drate = d, !.crate = c])
    /\ UNCHANGED <<disk, demo>>

\* override.set and override.clear commit, and with them all that is pending.
OverrideSet(b) ==
    /\ demo
    /\ Changes([db EXCEPT !.firm = @ \cup {b}])
    /\ disk' = db'
    /\ UNCHANGED demo

OverrideClear(b) ==
    /\ demo
    /\ Changes([db EXCEPT !.firm = @ \ {b}])
    /\ disk' = db'
    /\ UNCHANGED demo

\* An override whose transaction fails rolls back all that is pending.
OverrideFails ==
    /\ demo
    /\ Changes(disk)
    /\ UNCHANGED <<disk, demo>>

------------------------------------------------------------------------------
(***************************************************************************)
(* plan.run.                                                               *)
(***************************************************************************)
\* The growth rates of the answer are read here, before any engine runs.
PlanRun(source) ==
    /\ demo
    /\ Request
    /\ pc' = "fit"
    /\ run' = [Idle EXCEPT !.source = source, !.drate = db.drate, !.crate = db.crate]
    /\ told' = NoAnswer
    /\ UNCHANGED <<db, disk, demo>>

\* A stage of plan.run: none of them commits, or answers.
Stage(label, next) ==
    /\ pc = label
    /\ pc' = next
    /\ UNCHANGED <<disk, demo, calls>>

\* Mutant of FitForecast: the series is stored before growth is applied.
FitWithoutGrowth ==
    /\ Stage("fit", "net")
    /\ db' = [db EXCEPT !.forecast = [hist |-> db.hist, rate |-> 0]]
    /\ UNCHANGED <<run, told>>

\* forecast.run: one series per key of the data set, grown at the demand rate.
\* A history without rows is fitted with zeros.
FitForecast ==
    /\ Stage("fit", "net")
    /\ db' = [db EXCEPT !.forecast =
                IF db.hist = "none" THEN [hist |-> "none", rate |-> 0]
                ELSE [hist |-> db.hist, rate |-> db.drate]]
    /\ UNCHANGED <<run, told>>

\* resolve_gross_req, with the fixed quantities netting will honour.
Inputs(source) ==
    IF source = "forecast"
    THEN [source |-> source, hist |-> db.forecast.hist, rate |-> db.forecast.rate,
          firm |-> db.firm]
    ELSE [source |-> source, hist |-> db.hist, rate |-> 0, firm |-> db.firm]

\* GrossReqSourceError: a forecast of nothing was never written.
DemandIsUsable(basis) == basis.source = "forecast" => basis.hist # "none"

\* netreq.run up to its first write.
NetRequirements ==
    /\ DemandIsUsable(Inputs(run.source))
    /\ Stage("net", "write")
    /\ run' = [run EXCEPT !.basis = Inputs(run.source)]
    /\ UNCHANGED <<db, told>>

\* One measure written.  A dense series clears the zeros of the last run; the
\* overdue releases are upserted where this run has one, and nowhere else.
Written(tables, m, basis) ==
    IF m \in Dense
    THEN [tables EXCEPT !.plan[m] = basis]
    ELSE [tables EXCEPT !.past = [b \in Bucket |->
            IF b \in Late(basis) THEN {basis} ELSE @[b]]]

NextMeasure(i) == IF i = Len(OutputMeasures) THEN i ELSE i + 1

\* Mutant of WritePlan: each measure in a transaction of its own.
CommitEachMeasure ==
    /\ pc = "write"
    /\ db' = Written(db, OutputMeasures[run.next], run.basis)
    /\ disk' = db'
    /\ pc' = IF run.next = Len(OutputMeasures) THEN "load" ELSE "write"
    /\ run' = [run EXCEPT !.next = NextMeasure(@)]
    /\ UNCHANGED <<demo, told, calls>>

\* write_plans: one write_facts per measure.
WritePlan ==
    /\ Stage("write", IF run.next = Len(OutputMeasures) THEN "load" ELSE "write")
    /\ db' = Written(db, OutputMeasures[run.next], run.basis)
    /\ run' = [run EXCEPT !.next = NextMeasure(@)]
    /\ UNCHANGED told

\* Whether a plan has releases: something is demanded, or somebody fixed it.
HasReleases(basis) == basis.hist # "none" \/ basis.firm # {}

\* rccp.run, and the answer: NoPlanError when there is nothing to load.
LoadCapacity ==
    /\ HasReleases(db.plan["planned_order_release"])
    /\ Stage("load", "idle")
    /\ db' = [db EXCEPT
                !.load = [plan |-> db.plan["planned_order_release"], rate |-> db.crate],
                !.torn = FALSE]
    /\ told' = [known |-> TRUE, source |-> run.source,
                drate |-> run.drate, crate |-> run.crate]
    /\ run' = Idle

------------------------------------------------------------------------------
\* The request in progress raises: what it wrote stays pending.  One write_facts
\* is one step here; FactStore looks inside it.
Fail ==
    /\ pc # "idle"
    /\ pc' = "idle"
    /\ db' = [db EXCEPT !.torn = IF pc \in {"net", "write", "load"} THEN TRUE ELSE @]
    /\ run' = Idle
    /\ UNCHANGED <<disk, demo, told, calls>>

\* The window is closed, or the process killed, and the application started
\* again: nothing commits on the way out, and no data set is loaded.
Close ==
    /\ demo \/ pc # "idle" \/ db # disk
    /\ db' = disk
    /\ demo' = FALSE
    /\ pc' = "idle"
    /\ run' = Idle
    /\ told' = NoAnswer
    /\ UNCHANGED <<disk, calls>>

Next ==
    \/ DemoBuild \/ Populate \/ MappingCommit \/ OverrideFails
    \/ \E d, c \in Rate : SetGrowth(d, c)
    \/ \E b \in Bucket : OverrideSet(b) \/ OverrideClear(b)
    \/ \E source \in Source : PlanRun(source)
    \/ FitForecast \/ NetRequirements \/ WritePlan \/ LoadCapacity
    \/ Fail \/ Close

Spec == Init /\ [][Next]_vars

------------------------------------------------------------------------------
(***************************************************************************)
(* Properties.                                                             *)
(***************************************************************************)
\* The assumptions printed with a plan are the ones it was computed under, in
\* every table: the forecast, each measure of the plan and the capacity load, and
\* every order of it that should already have gone out is on the list of risks.
\* No answer rests on a forecast nobody fitted ("a confident, empty plan"), even
\* when the data set is in the process and its facts are not in the tables.
AnswerDescribesTables ==
    told.known =>
        LET basis == Inputs(told.source) IN
        /\ db.forecast.hist = db.hist
        /\ told.source = "forecast" => db.hist # "none"
        /\ db.forecast.hist # "none" => db.forecast.rate = told.drate
        /\ \A m \in Dense : db.plan[m] = basis
        /\ db.load = [plan |-> basis, rate |-> told.crate]
        /\ \A b \in Late(basis) : db.past[b] = {basis}

\* No plan mixes two runs: whatever commits, rollbacks and restarts came in
\* between, the stored measures come from one run and the load from that plan,
\* unless a run failed halfway.
OneRun(d) ==
    \/ d.torn
    \/ LET basis == d.plan["planned_order_release"] IN
       /\ \A m \in Dense : d.plan[m] = basis
       /\ d.load.plan = basis
       /\ basis.source = "forecast" =>
            d.forecast = [hist |-> basis.hist, rate |-> basis.rate]
NoMixedPlan == (pc = "idle" => OneRun(db)) /\ OneRun(disk)

\* tests/test_netreq_pipeline.py: "A second run must not double-count or leave
\* stale rows behind".
NoStaleRows ==
    told.known =>
        \A b \in Bucket : db.past[b] \subseteq {db.plan["planned_order_release"]}

\* tests/test_persistence.py: "Closing the window must not discard the work".
WorkSurvivesClose == [][Close /\ pc = "idle" => db' = db]_vars
==============================================================================
