# A verification project for Planning Brain

Planning Brain is a desktop planner: a Tauri shell (Rust) around a web page and
a Python backend that keeps a planning database in one SQLite file, forecasts
demand, nets it through a bill of materials, checks capacity and shares out
long-haul trips. This directory holds TLA+ models of it, the TLC configurations
that check them on small instances, and proofs that the TLA+ proof system checks
for every size. Everything is translated from the source; file and line of each
definition are in `PROJECT.json` under `map`.

    tlc -workers 2 -config MCFactStore.cfg MCFactStore.tla    # check one run
    tlapm FactStoreProofs.tla                                 # check one module's proofs

## The system

| component | state | operations | who calls it |
|---|---|---|---|
| fact store (`facts/`) | scenario rows, three sparse fact tables, the connection's open transaction | `write_facts`, `set_growth`, `copy_scenario`, `commit_scenario`; reads | engines, importer, overrides |
| planner overrides (`overrides.py`) | `plan_override` rows beside the measure `firm_planned_order` | `set_override`, `clear_override`; audit and listings read | request interface |
| request interface (`backend/api.py`) | the connection, the data set held by the process | the closed method table; `plan.run` chains three engines | backend process |
| backend process (`backend/__main__.py`) | the request in progress, its `emit` callback | read a line, handle, write a line; `ready`, progress, `shutdown` | shell, over two pipes |
| shell (`desktop/src-tauri/src/main.rs`) | early-line buffer under a mutex, `listening` flag, child handle | two reader threads, `call_backend`, `drain_backend`, window destroyed | the page and the operating system |
| page (`desktop/dist/index.html`) | listeners, map of pending calls, status text, buttons | `call`, three event handlers, the start-up script, click handlers | the planner |
| netting (`netreq/core.py`) | the loops of `plan_item` | net, lot-size, project, offset | explosion, reconciliation |
| BOM explosion (`netreq/explode.py`) | gross requirements per part, low-level codes | plan parents before components | `netreq.run` |
| table adapters (`netreq/adapters.py`) | none of its own | read demand, receipts and fixed quantities; write six measures | `netreq.run` |
| forecasting (`forecast/`) | results per series, the report's counts | classify, fit, fall back, suppress a trend, grow, write one measure; rolling-origin backtest | `plan.run`, reports |
| capacity (`rccp/`) | hours per resource and bucket, hours per contributor | load releases onto resources, judge, explain overloads; refuse an empty plan | `plan.run`, reports |
| replay (`simulate/core.py`) | stock, pipeline, backlog, counts | collect, order, serve, bucket by bucket | service studies, reconciliation |
| service study (`simulate/__init__.py`) | series evaluated, left out, unmatched | split, fit five policies, replay them over the holdout, summarise | reports |
| reconciliation (`reconcile/`) | a running balance; the ladder's rungs per series | replay a fixed schedule, explain differences, refuse a portfolio that does not match | reports |
| haul plan (`haulplan/`) | fairness ledger, busy trucks | assign each trip to the truck furthest behind | reports |
| import (`importer/`) | an error log with a limit, the rows accepted so far | read spreadsheets, parse row by row, compare tables, write history | request interface, `tools/import_data.py` |
| column mapping (`mapping/`, the page's second pane) | the page's mapping and header row, profiles on disk | find the header, suggest columns, apply a mapping, save and load a profile | request interface, the planner |
| orders, alerts, fixed numbers | none | list, filter, rank, cut to a page and export what the tables hold | request interface |
| calendar, demo data, offline guard, tools, packaging | none worth a model | | |

The components meet in three places. The engines, importer and overrides share
the tables and **one connection with one implicit transaction**: Python's
`sqlite3` opens it at the first write and nobody but the override functions and
their callers ever commits. `plan.run` passes its intermediate results **through
the tables**. Shell, page and backend exchange **lines over pipes, events and
commands**, on four threads.

What is hard in it:

- *several statements, one transaction, no commit*: an exception or a kill
  between any two statements of an operation, a rollback by somebody else's
  operation, a commit of somebody else's half-done one;
- *frozen snapshots* that four write paths must respect;
- *start-up of the shell*: lines are written before anybody listens, and
  buffered, drained and emitted by three threads;
- *calls without timeouts*: what happens to them when the backend dies;
- *late answers on the page*: handlers suspended at an `await` while the planner
  clicks on;
- *long checks before one write*: hundreds of rows in five tables, of which all or
  none may be written, and a log that lists only the first problems;
- *two readings of one thing*: the verdict on capacity and the list that explains
  it, the header that was shown and the header that is read, the engine that
  schedules and the one that replays, are written twice and must agree;
- *averages over a portfolio*: series that are short, unpriced, unmatched or
  unscorable must be counted and not dropped, and nothing may be fitted on what judges it;
- *sparse storage*: a row that nobody overwrites is still there tomorrow;
- *boundary arithmetic*: fixed buckets, lot excess, closed days, releases before
  the horizon, zero lead time, backlog.

`PROJECT.json` lists these hazards line by line, with the property that would
catch each.

## The modules

| module | models | lines of code it stands for |
|---|---|---|
| `FactStore` | fact store, scenarios, overrides, statement by statement | `facts/access.py`, `facts/scenario.py`, `overrides.py`, `facts/schema.sql` |
| `MCFactStore` | instance for TLC | |
| `FactStoreProofs` | theorems about `FactStore`: snapshots, overrides | |
| `PlanSession`, `MCPlanSession` | the requests of a session over the tables; the instance of findings 1 and 2 | `backend/api.py` and the `run` functions it calls |
| `PlanSessionProofs` | theorems about `PlanSession` | |
| `Delivery` | what the channel from backend to page promises | comments and code of `drain_backend` |
| `Shell` | backend process, pipes, reader threads, buffer, commands, page | `backend/__main__.py`, `main.rs`, the page's script |
| `ShellProofs` | theorems about `Shell`, the safety half of the refinement among them | |
| `Panes` | the page's two panes: buttons, menus, calls and late answers | the page's script, as seen by the planner |
| `MCSession` | both ends of a session: `PlanSession` or `Panes`, one per behaviour | |
| `PanesProofs` | theorems about `Panes` | |
| `WagnerWhitin` | the dynamic program | `netreq/core.py` |
| `Netting`, `MCNetting` | `plan_item`, one loop iteration per step | `netreq/core.py` |
| `NettingProofs` | theorems about `Netting`, `WagnerWhitin`, `Explode`, `Capacity` and `Screens` | |
| `Explode` | changeover costs, low-level codes and the explosion, with every step of `Netting` inside | `netreq/explode.py`, `netreq/__init__.py` |
| `Capacity` | the load of a finished plan, the verdict and its explanation; extends `Explode` | `rccp/`, `simulate/core.py` |
| `Screens` | order list, export, risk lists, fixed numbers; extends `Capacity` | `orders.py`, `alerts.py`, `overrides.py`, `backend/api.py` |
| `MCExplode` | plants for `Screens` and everything beneath it | |
| `Schedule` | what a bucket does to a balance | `reconcile/core.py` |
| `Replay` | the inventory replay, three steps per bucket | `simulate/core.py` |
| `Policies` | the replay under the rules that place its orders | `simulate/policies.py` |
| `ReplayProofs` | theorems about `Replay` and `Policies`, the refinement among them, and about `Study` | |
| `Study` | the four jobs that walk a portfolio series by series | `forecast/`, `simulate/__init__.py`, `reconcile/` |
| `MCPolicies` | rules for `Policies`, a portfolio for `Study` | |
| `Import`, `MCImport` | spreadsheets checked, mapped and written, row by row | `importer/`, `mapping/apply.py`, `mapping/io.py`, `tools/import_data.py` |
| `Mapping`, `MCMapping` | how a spreadsheet gets its columns: header, suggestion, page, profile | `mapping/`, the page's second pane |
| `HaulPlan`, `MCHaulPlan` | assignment of trips, fairness ledger, index and its bound | `haulplan/` |
| `DeskProofs` | theorems about `Import`, `HaulPlan` and `Mapping` | |
| `Sums` | induction over numbers and finite sets, recursive functions, and lemmas about sums, for `NettingProofs`, `ReplayProofs` and `DeskProofs` | |
| `MCDesk` | the three parts that read no plan (`Import`, `Mapping`, `HaulPlan`), one at a time | |

### FactStore

`db` is what the connection sees, `disk` what a new connection would find. An
operation is a path of statements: `pc` names the next one, `call` holds its
arguments. `WriteFacts`, `SetOverride`, `ClearOverride`, `CopyScenario` and
`CommitScenario` start one after the guards of the code (`Writable` is
`assert_writable`); a refused call changes nothing, so it is a stutter. Then
`ClearRows` and `StoreRows` are the two `executemany` calls of `write_facts`,
`Explain` and `Forget` the provenance statement, `CommitBlock` the end of
`with con`, `Archive`, `InsertScenario`, `CopyFacts` and `Freeze` the statements
of the scenario functions. `Fail` may happen before any statement: inside
`with con` it rolls back everything pending, elsewhere it leaves everything
pending. `Crash` returns to `disk`; `CallerCommit` is a commit between calls.

Abstractions: an absent row is the quantity zero, as in the accessor; an
`executemany` that stops halfway is a smaller write, which the model also makes;
the bulk copy's three INSERTs are one step. `acked` (what callers were told) and
`fixedBy` (who really wrote a quantity) are history variables.

### PlanSession

One action per request that changes the tables or the process, and one step per
write for `plan.run`: `PlanRun`, `FitForecast`, `NetRequirements`, `WritePlan`
(six times), `LoadCapacity`. Quantities are replaced by their **lineage**: a
measure holds the inputs it was computed from (whose history, which growth, which
fixed days), so "the plan agrees with the forecast it was made from" becomes an
equality. Overdue releases are a set per day, because they are written sparsely:
only the days of this run are overwritten. Which days are overdue is the constant
`Late(_)`. `Fail` ends a request between writes, `OverrideFails` rolls back
everything pending, `Close` is a shutdown, an end of input or a kill, followed by
a restart. History is kept at one representative address, and stock is left out:
releases exist exactly if there is demand.

### Shell and Delivery

The actions follow the threads: the backend's `Announce`, `ReadRequest`,
`ReportProgress`, `Respond`, `Complain` (the interpreter or a library begins a line
on stderr) and `Warn` (writes it; the process has one thread, so until then it does
nothing else, and a full pipe on stderr stops it altogether), `Die`; for each
reader thread `ReadLine`, `EndOfStream`, `TakeLock`, `CheckFlag`, then `Push` or
`Emit`; the page's `Attach`, `InvokeDrain`, `HandleReply`, `HandleEvent`,
`MakeCall`; the commands `DrainLock`, `Drain`, `CallBackend`; and `CloseWindow`.
`deliver` drops the mutex before it emits, so `Emit` is a step of its own. Tauri
is external: an event reaches the listeners present when it is emitted, events
keep their order, and a command's reply travels separately, so a live event may
be handled before the drained lines.

`Delivery` is the abstract channel: a set of lines sent, each handled at most
once and, with fairness, at least once while the window is open. `Shell`
implements it with `sent` mapped to every line that is somewhere in the system.

### Netting and WagnerWhitin

`plan_item` is a state machine over the pass (`net`, `lots`, `project`, `offset`)
and the bucket. `NetFirm`, `NetShort` and `NetEnough` are the three branches of
the greedy pass and of `_net_requirements`; `ChooseLots` calls the dynamic
program, a recursive function; `OffsetNothing`, `OffsetInTime` and
`OffsetPastDue` the branches of `_offset`. Quantities are integers; the final
rounding to six decimals and the 1e-9 tolerances have no counterpart.

### Explode

`Explode` EXTENDS `Netting` and runs it once per part. Its stages are those of
`netreq.run`: `PriceLots` (or `AsMaster`, `RefuseRouting`) sets the lot rules,
`RelaxEdge` and `NextRound` are the relaxation that computes low-level codes edge
by edge in list order, `RefuseEdge` and `RefuseCycle` its two errors;
`StartPlanning` sorts the parts, `PlanItem` takes the steps of `plan_item`, and
`HandDown` adds the releases, times quantity, to the components' gross
requirements. A plant (parts, BOM, prices) is chosen initially. Costs and
quantities are integers.

### Capacity and Screens

`Capacity` starts where `Explode` ends. `LoadRouting` is one routing of
`compute_load`, `Judge` the verdict; `AttributeRouting` is one routing of
`explain_overload`, which walks the same tables again, and `Explain` ranks the
contributors, measures spare hours in the window and divides the excess.
`RefuseEmptyPlan` and `RefuseRelief` are the refusals. `Braked` is
`capacity_factor`, which the replay reads. `spent` is the code's `per_bucket`, a
table of hours per SKU for every resource and bucket. Hours are integers; shares of an
excess are kept exact by a common multiple of the loads, `scale`. `Sorted` puts a set
in a strict order: the member in place *n* is the one that *n* - 1 others come before.

`Screens` asks for one page once the plan has run: `PlanOrders`, `PlanExport` or
`RefuseExport`, `PlanRisks`, `OverrideList`. A list is a set of rows sorted as the
code sorts it, filtered, then cut to `PageLimit`; the totals are taken where the
code takes them. Names, locations and lead times joined to a row are left out.

### HaulPlan

One trip per step, in the code's order (`IsNext`): `Assign` takes, among the trucks
that can carry the trip and are free in its bucket, the one with the fewest long-haul
kilometres, opening position included, and records the haul in the ledger;
`LeaveUnassigned` keeps the reason; `RaiseKeyError` is a truck without a ledger row.
`JainIndex`, `Ceiling` and `Verdict` are `fairness.py`, as exact fractions and
comparisons of integers. The code pours the work into the trucks in sorted order;
`Ceiling` says which trucks that levels (those whose level the work reaches) and to
what height, which no sorting decides.

### Panes

Each click handler is cut at its `await`s: `RunPlan`, `GrowthSet`,
`PlanAnswered`, `OverridesShown`, `RisksShown`, `OrdersShown` are one handler,
and `RunFailed` its `catch`. `LoadDemo`, `ChangeMenu`, `FixNumber` (setting and
clearing alike), `Inspect`, `Preview`, `Commit` start the others; `EditForm` and
`EditMapping` are the fields. A click needs a button that is enabled and a section
that is visible. `Serve`, `Refuse` and `RefuseImport` are the backend, which takes
requests in order; that answers arrive in order too is what `Shell` shows. A plan
is its number: `runs` counts the plans computed, a list on the screen remembers
which of them and which choice it shows. Opening the file dialog, saving a profile
and exporting the order list change nothing the properties speak of.

### Import

One module for both ways in: `import_check` and `tools/import_data.py` walk the tables
of a directory (`SkipTable`, `RejectHeader`, `OpenTable`, then `SkipRow`, `RejectRow`,
`RejectDuplicate` or `AcceptRow` for each row, `CloseTable`), compare them
(`CrossCheck` is `validate_cross_references`) and `Decide`; `mapping_preview` and
`mapping_commit` do the same with one sheet, without the comparison. The loops of
`load_table` and `apply_mapping` are separate in the code and the same, so they share
the actions; the three readers differ in how far they read (`LastRow`) and how they
number rows (`RowNumber`). `Add` is the error log with its limit. A row is its key and
the number of its bad cells. What a parser accepts, guessing a header row and
suggesting columns are left out: a sheet comes with its header row, and a mapping
either fits, names columns that are not there, each a problem of its own (`lacks`), or
leaves a required field out. That the fact table applies rows as an upsert is
`FactStore`'s business.

### Mapping

A cell is the sequence of words its text is normalised to; the filled cells of a row
are the set of their columns, and the rows read a set of records, each with its
number. `Inspect` is `detect.py` (merged cells filled, rows scored, a group label
above the header merged with it), `Suggest` the offers of the headings (`TailOffers`)
and the claims of the fields, one after the other (`Claim`), of `apply.py`, `Resolve`
and `Apply` the mapping applied up to the parsers, `AsDict` and `Loaded` the profile
file and its row number. The scores are exact: everything is times 1200, over rows of
up to six cells. A spelling of a number is in `Digits` if it is written with digits
alone: only of these does the code tell a leading zero. The actions are the planner's:
`MappingInspect`, `EditRow`, `EditField`, `SaveProfile`, `ApplyProfile`,
`MappingPreview`; the page always sends its header row, and a profile's row replaces
it; a preview with a row past the end of the sheet is an error and no answer. Whether
late answers reach the right form is `Panes`'s business, what becomes of the rows
`Import`'s.

### Replay and Schedule

A bucket of `replay` is three steps: `Collect` pops the pipeline, then
`OrderNothing`, `OrderForToday` (zero lead time, straight into stock) or
`OrderAhead`, then `Serve`. The policy is a parameter of the code, so the model
lets it order anything. Demand and delivery factor are lists the code reads one
entry at a time, so each entry is chosen when it is read; the factor is taken at
0 and 1. `Schedule` is `replay_schedule`, the separately written engine of the
reconciliation ladder, and serves as the abstract specification.

### Policies

`Policies` EXTENDS `Replay` and takes its orders from a rule. `Wanted` is the
quantity each of the four functions answers a review with: order up to a forecast
(a forecast of zero is the list of one zero, as in the code), the reorder point,
the moving average. They differ in what they expect (`Expected`), when they order
(`Trigger`) and up to where (`Target`). What a rule is fitted on is abstracted: a
forecast is a list of whole numbers, a mean or moving average a rate, the sigma
term or the days of cover a safety stock; a lot of 0 is no order quantity. The
rule "any" orders what it likes, which keeps every behaviour of `Replay` in the
run; `came` remembers whether the plant and the customers did as the rule
expected. The sigma term of the reorder point is negative at a service level below
one half, so a safety stock may be.

### Study

One series per step, for one of four jobs: `ForecastSeries` (`forecast.run`),
`BacktestKey` (`forecast.backtest`), `CompareKey` (`simulate.compare`) and
`ReconcileKey` (`reconcile.reconcile`); `TooShort` and `Unmatched` are the series
the last two leave out. The report actions count, group and refuse. `Classify` is
the classification by interval and variation in integer arithmetic; `BacktestKey`
applies it to the whole series, `CompareKey` and `ReconcileKey` to the training part
only. `RollingOriginWindows` are the folds, `BuildLadder` the ladder with both of its
engines; `LotFor` rounds up to the lots of `_lot_sizing_for`, all but Wagner-Whitin,
which `LotSizing` refuses of a part that carries no costs. A statistical model is
external: `Fits` says whether it raises, and what numbers, finite or not, with or
without trend, it returns. A forecast takes up to two answers of it (`AnswersOf`): under
a growth rate a fitted trend is taken away and the model fitted again
(`TrendTaken`). What is filed is the answer, or the fallback's, clipped at zero and
multiplied by the growth factor of its bucket (`Grown`, in parts of `Unit`; `Factor` is
external, the powers of the rate). `tally` is the report's two counters, of fallbacks
and of suppressed trends, kept as the code keeps them. Scores are counts, and a rung is
a sum over the holdout, of which the code takes the mean.

## What the runs check

| run | instance | distinct states | result |
|---|---|---|---|
| `fact_store` | 3 scenarios, 1 address, 2 measures, 2 people, 4 operations | 95,260 | holds |
| `session` | 2 days, 2 rates, 6 requests; or 2 choices per menu, 2 forms, 2 mappings, 5 clicks, 1 refusal | 1,115,024 | holds |
| `rerun`, `close_window` | 5 requests | | violated: findings 1 and 2 |
| `shell` | 2 calls, 1 call and 1 stderr line, or 2 stderr lines, 1 progress line each, pipes of 1 line, fairness | 161,631 | holds |
| `material_plan` | 4 buckets, demands 0..2; 3 parts, BOMs of up to 3 edges; 2 parts on 2 resources, pages of 2 rows | 447,030 | holds |
| `fixed_bucket` | 3 buckets | | violated: finding 3 |
| `replay` | 4 buckets, 9 rules, demands to 2, lead times to 2; portfolios of 2 series | 253,048 | holds |
| `backtest_choice` | the portfolios of `replay` | | violated: finding 6 |
| `desk` | 3 tables of up to 2 rows, grids of up to 3, log of 2, reader of 3 rows; 127 spreadsheets of 4 columns; 4 trips, 3 trucks, 2 buckets | 331,554 | holds |
| `whole_file` | 1 file of 4 rows, reader of 4 with the header | | violated: finding 4 |
| `grouped_header` | the spreadsheets of `desk` | | violated: finding 5 |

`session`, `replay` and `desk` hold modules that share no state, one of which runs per
behaviour: `PlanSession` or `Panes`, `Policies` or `Study`, and `Import`, `Mapping` or
`HaulPlan`. Type
invariants are proved rather than checked. Every property of a passing run has a
mutant: a plausible bug, written beside the definition it changes, under which TLC
finds the property violated.

**fact_store.** `FrozenForever`: once a snapshot is in the file its rows never
change, whatever fails. `FreezesTheSource`: what a commit freezes is what its
source held when the copy was made. `AckedOverridesKept`: an override the caller
was told about is in the file, with a person behind it, until replaced; the
commit in `api.py` and the one in `with con` both matter. `WorkingAttributed`:
the name beside a fixed quantity of the working plan belongs to the person who
fixed *that* quantity, although number and name are written by two statements.
Four operations are enough for: fix, commit, fix again, fail; the second planner
and the second name are there so that a wrong attribution can show. Five gave the
same verdicts.
Three scenarios are needed to archive one committed plan and make another.

**session.** Of the tables: `AnswerDescribesTables`: while nothing its answer rests on
has changed, the tables are what the last `plan.run` said they are, under the growth
it printed; it had demand, and its overdue days are on the risk list. `NoMixedPlan`:
neither the tables between requests nor the file hold measures of two runs, except
after a run that failed once it had begun to write (the history flag `torn`); the next
complete run mends that. Six requests cover: data, plan, new history or growth,
override, plan, restart; seven gave the same verdicts. Of the page: `ScreenIsOnePlan`:
once everything is answered, verdict, risks and orders are of the plan in the tables
and lists are of the choice in their menu, whatever was clicked meanwhile; loading the
demonstration data during a run enables the run button, so two runs may overlap. It
says nothing after a run that failed half-way: with two overlapping runs the first
one's verdict then stays beside the second one's error. `FixesAreAnnounced`: "Done."
never stands beside a number fixed after that plan. `ButtonsComeBack`: a refusal
leaves no button disabled. Five clicks are: load, run, and three of anything during
the run or after it.

**shell.** `AnswersAreComplete`: a call off the page's map was answered by its own
response, once, and has shown all progress, unless it was made before the shell was
told to emit. `ImplementsDelivery`: every line written is handled at
most once, none leaves the system unhandled while the window is open, and, with
fairness, every line *is* handled. `CallsSettle`: a call is answered or the backend
has ended, and the status bar leaves "starting". It would fail if nobody read stderr:
the backend would stop at the second warning, with a call unanswered. Pipes of one line
make every writer block at some point; two calls make replies of different calls
overlap, a call and a stderr line put both reader threads at the mutex, and two stderr
lines fill the pipe behind one that is not read.

**material_plan.** Of a part: `StockIsJustEnough`: a bucket the engine is free to
plan closes at or above safety stock and, under the rules that size lots bucket by
bucket, with less than a lot to spare, so that the excess of one lot reduces later
ones. `ReleasedInTime`: what is received is released, all of it, on an open day no
later than need less lead time, or else on the first day and reported overdue; and
it is reported exactly if no open bucket is left to release it in.
`LotsAreCheapest`: no other covering plan costs less than Wagner-Whitin's; stated
for a first bucket that needs something, because the program charges a setup there
in any case. Of the bill of materials: `RequirementsAreComplete`: when a part is
planned, its gross requirements hold all that its parents release, at whatever
depth and in whatever order the edges are listed. `RefusedForCause`: a BOM is
refused exactly for an unknown SKU or a cycle. Of capacity: `FeasiblePlansFit`: the
verdict is that of the releases, summed per resource and bucket, closed days
included, and a feasible plan is not braked unless growth is assumed.
`OverloadsAreExplained`: the explanation, worked
out in a loop of its own, names the overloads of the verdict, its contributors add
up to the load, and the excess is blamed on SKUs completely. Of the screens:
`PagesOwnUp`: a page is the first rows of the whole list, however filtered and
ranked, its totals are of the whole list, and an export is never a page.
`ScreensTellOnePlan`: what is overdue is on the order list, shortages stand only
where a planner fixed a number, and the orders listed cover what is needed. Four
buckets let a lot cover a later bucket across a fixed one and across a receipt.
Three parts make a part used at two depths, every cycle and every order of a chain
with a short cut. Two routings of one SKU on one resource, a resource without hours
and routings without releases are among the shops.

**replay.** `NoOrderVanishes`: opening stock and orders are in stock, served, coming
or withheld. `DemandAddsUp`, `OwedFirst`: see the theorems. `ImplementsSchedule`: the
replay refines `Schedule`. Four buckets exceed the longest lead time by two, so orders
overlap and arrive. `ExpectedDemandIsServed`: while deliveries and demand come as a
rule expects, every customer is served on the day from the bucket the first order can
arrive in; it is what the protection window is for, and it has to hold at every lead
time and review period. `NeverOrderedTwice`: no review lifts the position past the
rule's target and one lot, however many orders are on their way. The rules are
forecasts with a gap and with a rise, a forecast of zero, and rates, with and without
lots, and one with a service level below one half, of which `ExpectedDemandIsServed`
says nothing; no rule wants as much as `MaxOrder`, 20, which therefore cuts nothing
off. Of the portfolio: `HoldoutIsUnseen`: what `compare` and `reconcile` say of two
series that differ only in what was held out is the same, up to where they are judged:
pattern, fits, opening stock, and the rungs that are planned; and a backtest fits no
fold on its own buckets and judges none twice. That a backtest also chooses the model
blind is what `backtest_choice` refutes. `HardSeriesAreCounted`: model and baseline
are scored on the same folds, denominators and what they leave out add up to the
portfolio, and so do the groups. `FiledForecastsAreSound`: what is filed is finite and
not negative, whatever the library returned and whatever the growth, and has no fitted
trend under a growth rate; the fallbacks reported are the series that got other
numbers than their model's, and the trends reported as suppressed are those found and
taken away. `TermsMeanWhatTheySay`: each term of the ladder has the sign its name
promises and the two engines leave no residual. The seven histories have every class
of demand, series too short for the holdout and for every fold, folds whose baseline
cannot be scored, and two that are alike until their fold.

**desk.** `AllOrNothing`: what is written is all of the history that was read or
nothing, and nothing exactly if something is wrong in any table, between two, or with
the mapping, even when the log was full before. `EveryProblemIsReported`: faults
listed and faults counted add up to the faults in the sheets, worked out from the
sheets alone, and a fault listed for a row is a fault of the row the spreadsheet shows
under that number. `NoPhantomReferences`: a part that is in the part master, perhaps
in a row with a bad cell, is never reported missing. Two rows of a table make a
repeat, a row of three bad cells alone overflows a log of two, and a grid of three
rows passes the reader's limit. `InspectionIsRight`: the header row found is the one
the sheet was laid out with, under every mixture of titles, blank rows, periods and
group labels, and what is suggested is one column per field, none overlooked that
bears a field's name. `PreviewIsWhatWasInspected`: with the suggestion as it came,
every cell of a preview is from the column shown, the rows are those under the header
with the spreadsheet's numbers, and profiles saved and applied change none of it; two
numbers written with digits alone that would be merged, `007` and `7`, are warned
about. `OneTripPerBucket`: no truck has two trips in a bucket. `LongHaulsComeFirst`: a
long haul is left over only if every truck able to carry it is on another long haul.
`FairnessIsEarned`: the ledger is the opening one plus exactly what was assigned, no
plan is fairer than the bound the report calls unreachable, and both are measured or
neither. `GapIsBounded`: if every truck can carry every trip and long hauls are of one
length, no gap between two trucks exceeds that length or the widest opening gap. The
fleet includes a truck that is too small, one that is unavailable and one without a
ledger row.

### Fairness

Safety runs assume none. `Shell` has weak fairness on what a scheduler provides: the
backend's own steps once it can take them, each reader thread, the shell's commands,
the page's start-up script and its event loop. People (`MakeCall`, `CloseWindow`), the
beginning of a warning (`Complain`), progress lines and the end of the process (`Die`)
have none. Strong fairness is never needed: the mutex is held by one thread for one or
two steps, and the page asks to drain once. `Delivery` has weak fairness on handling.

Deadlock is not checked, because every model ends: operations, calls and buckets
are bounded by `MaxCalls`, `Horizon` and the like. Where a stop would be a fault
(the shell), a liveness property says so.

### Bounds

Every unbounded thing has a named bound: `MaxCalls`, `MaxStages`, `MaxFaults`,
`MaxTraffic`, `MaxClicks`, `MaxErrors` and `MaxEdits` count what people, faults and
the outside world may do; `Horizon`, `MaxQty`, `MaxDemand`, `MaxLead`, `MaxReview` and
`MaxOrder` are sizes of inputs; `Capacity`, `Limit`, `MaxRows`, `MaxScan`,
`PageLimit`, `Holdout`, `FoldLength`, `FoldCount`, `MinTrain`, `MinNonzero` and
`Recent` are limits of the code itself, made small enough to be hit. Growth has two
rates, none and one whose factor differs from bucket to bucket, in halves (`Unit`).

## What is proved

TLAPS checks the following for **every** value of the constants: any number of
scenarios, addresses, people, operations, requests, clicks, calls and lines in a
pipe; any horizon, lead time, calendar, demand.

| theorem | statement |
|---|---|
| `TypeCorrect` | `Spec => []TypeOK` for `FactStore` |
| `SnapshotsNeverChange` | `Spec => FrozenForever` |
| `SnapshotsAreTheirSource` | `Spec => FreezesTheSource` |
| `AckedOverridesSurvive` | `Spec => []AckedOverridesKept` |
| `QuantitiesAreAttributed` | `Spec => []WorkingAttributed` |
| `SessionTypeCorrect` | `Spec => []TypeOK` for `PlanSession` |
| `AnswersDescribeTables` | `Spec => []AnswerDescribesTables` |
| `PlansAreNeverMixed` | `Spec => []NoMixedPlan` |
| `ShellTypeCorrect` | `Spec => []TypeOK` for `Shell` |
| `AnswersComeWhole` | `Spec => []AnswersAreComplete` |
| `BufferIsDrainedOnce` | `Spec => []NothingIsStranded`: nothing waits in the early buffer once the shell emits |
| `ShellDeliversOnce` | `Spec => Abstract!Safety`: `Shell` implements the safety half of `Delivery` |
| `PanesTypeCorrect` | `PanesSpec => []PanesTypeOK` |
| `ButtonsAlwaysComeBack` | `PanesSpec => []ButtonsComeBack` |
| `FixesAreAlwaysAnnounced` | `PanesSpec => []FixesAreAnnounced` |
| `ScreenIsAlwaysOnePlan` | `PanesSpec => []ScreenIsOnePlan` |
| `PlanTypeCorrect` | `Spec => []TypeOK` for `Netting`, under every lot rule |
| `PlansBuyJustEnough` | `Spec => []StockIsJustEnough`, under every lot rule |
| `LotsAreAlwaysCheapest` | `Spec => []LotsAreCheapest`: no covering plan costs less than Wagner-Whitin's |
| `ReleasedAlwaysInTime` | `Spec => []ReleasedInTime`, under every lot rule |
| `OverdueIsAlwaysReported` | `Spec => []OverdueIsReported`, under every lot rule |
| `FixedStaysFixed` | `Spec => [](PerBucket => FixedMeansFixed)` |
| `EveryItemBuysJustEnough`, `EveryItemsLotsAreCheapest`, `EveryItemIsReleasedInTime` | the same of every item planned over a product structure: `ScreensSpec => []StockIsJustEnough` and so on |
| `BomsAreRefusedForCause` | `ScreensSpec => []RefusedForCause` |
| `RequirementsAreAlwaysComplete` | `ScreensSpec => []RequirementsAreComplete` |
| `FeasiblePlansAlwaysFit` | `ScreensSpec => []FeasiblePlansFit` |
| `OverloadsAreAlwaysExplained` | `ScreensSpec => []OverloadsAreExplained` |
| `PagesAlwaysOwnUp` | `ScreensSpec => []PagesOwnUp` |
| `ScreensAlwaysTellOnePlan` | `ScreensSpec => []ScreensTellOnePlan` |
| `ReplayTypeCorrect` | `Spec => []TypeOK` for `Replay` |
| `DemandAlwaysAddsUp` | `Spec => []DemandAddsUp` |
| `OwedAreServedFirst` | `Spec => OwedFirst` |
| `OrdersNeverVanish` | `Spec => []NoOrderVanishes` |
| `ReplayImplementsSchedule` | `Spec => ImplementsSchedule`, that is, `Ladder!Spec` |
| `PoliciesAreReplays` | `PolicySpec => Spec`: every rule's replay is a behaviour of `Replay` |
| `PoliciesAddUp` | `PolicySpec => []DemandAddsUp /\ OwedFirst /\ ImplementsSchedule` |
| `ExpectedDemandAlwaysServed` | `PolicySpec => ExpectedDemandIsServed` |
| `PoliciesNeverOrderTwice` | `PolicySpec => NeverOrderedTwice` |
| `HoldoutIsAlwaysUnseen` | `StudySpec => []HoldoutIsUnseen` |
| `HardSeriesAreAlwaysCounted` | `StudySpec => []HardSeriesAreCounted` |
| `FiledForecastsAreAlwaysSound` | `StudySpec => []FiledForecastsAreSound` |
| `TermsAlwaysMeanWhatTheySay` | `StudySpec => []TermsMeanWhatTheySay` |
| `ImportIsAllOrNothing` | `Spec => []AllOrNothing` for `Import` |
| `ProblemsAreAlwaysReported` | `Spec => []EveryProblemIsReported` |
| `PhantomsAreNeverReported` | `Spec => []NoPhantomReferences` |
| `HaulTypeCorrect` | `HaulSpec => []TypeOK` for `HaulPlan` |
| `NoTruckInTwoPlaces` | `HaulSpec => []OneTripPerBucket` |
| `LongHaulsHaveFirstClaim` | `HaulSpec => []LongHaulsComeFirst` |
| `FairnessNeverOverstated` | `HaulSpec => []FairnessIsEarned` |
| `TheGapStaysBounded` | `HaulSpec => []GapIsBounded` |
| `MappingTypeCorrect` | `MappingSpec => []MappingTypeOK` |
| `SuggestionIsSound` | every suggested heading is a column, not blank, names its field, and is suggested for no other, whatever the sheet |
| `InspectionHolds` | `MappingSpec => []((shape.known => ClearHeader(sheet) /\ Unambiguous(shape.columns)) => InspectionIsRight)` |
| `PreviewHolds` | `MappingSpec => []PreviewIsWhatWasInspected` |

`PerBucket` says that the item's lot rule is one of the three that size lots bucket
by bucket. Run `fixed_bucket` shows that `FixedStaysFixed` is false of the fourth,
Wagner-Whitin. `ClearHeader` and `Unambiguous` are explained under *Mapping* below.

*Assumptions*: the named `ASSUME`s of the modules, which TLC evaluates on every run:
of `FactStore` (scenario ids are naturals and include 0, the seed name exists, `NoAck`
is not a quantity, and the like), `RateAssumption`, `CallAssumption` and
`LateAssumption` of `PlanSession` (0 is a rate, the bound a natural, what is late lies
in the horizon), `BoundAssumption` of `Shell` (bounds are naturals, a pipe holds at
least a line), `BoundAssumption` and `ChoiceAssumption` of `Panes` (a menu has a
choice), `HorizonAssumption` and `ItemAssumption` of `Netting` (quantities are
naturals, fixed lots and Wagner-Whitin's two costs positive), `PlantAssumption` of
`Explode` (a plant has finitely many parts, all on one calendar, and its BOM is a list
of edges, which may name anything), `ShopAssumption` of `Capacity` (its shop has a
list of routings, naturals for hours, growth factors that are not zero),
`SizeAssumption` of `Replay`, `RuleAssumption` of `Policies` (a rule's parameters have
their types; its safety stock may be negative), `PortfolioAssumption`,
`WindowAssumption`, `GrowthAssumption` and `FitAssumption` of `Study` (histories are
lists of integers, a part's lots are not Wagner-Whitin's, a fold and a week are not
empty, growth factors are positive, and a model that does not raise has a value for
every bucket it was asked for), `FileAssumption` and `SizeAssumption` of `Import`
(sheets are lists of rows, those of a directory mapped by nobody, and the log has room
for a problem), `IdAssumption` and `InputAssumption` of `HaulPlan` (finitely many
trucks and trips, naturals for kilometres), and those of `Mapping`: sheets are rows of
one to six cells, a field has a list of names that are not blank, and of two spellings
of one number with digits alone one has leading zeros. Nothing is assumed of other
spellings, with a decimal point or a comma: see the observations below.

*FactStore.* `FrozenForever` is about `disk`, which changes only by a commit, so
it does not follow from itself: a commit publishes whatever is in `db`. The
inductive invariant `SnapshotInv` adds that every snapshot of `disk` is the same
in `db` (`FrozenInv`), that a statement in progress never targets a frozen
scenario (`TargetInv`), which is why the freeze comes last, and that `pc` and
`call` agree (`CallInv`). `OverrideInv` adds what is acknowledged is in `disk`
unless the operation that replaces it is under way (`AckInv`, `ProgressInv`);
`AttributedInv` adds that number and author agree in `db` except between their
two statements, and always in `disk` (`AttributionInv`). `FreezesTheSource` speaks of
every step, so it takes two facts: between the copy and the freeze the snapshot has
the rates and the facts of its source (`SourceInv`), and no other step freezes
anything (`OnlyFreezeFreezes`), since a rollback or a restart returns to a file whose
snapshots are all frozen in `db` already.

*PlanSession.* An answer is given at the end of a run, about what was read at its
start, so `RunInv` follows the run: the rates it read are still those of the tables
(`RatesInv`), the forecast it fitted is of this history and these rates
(`ForecastInv`), netting's inputs do not change under it and hold some demand
(`BasisInv`), the measures written so far, in their order, are of this run
(`WrittenInv`). `SettledInv` is `NoMixedPlan` with its exception: only a run that has
begun to write leaves the tables mixed, and none of its writes reaches the file
before it is over. Nothing of this would hold if another request could
come between two stages; the backend takes one request at a time.

*Shell.* The argument is about places. `Where` gives every line of the system a place:
a pipe, a reader thread's hand, the buffer, the drained reply, the event queue, or
among those handled. `Apart` says no line is in two places and `QueueInv` none
twice in one, so a line is handled once;
a step moves one line, or the whole buffer, from a place to the next, or adds a line
that is in none (`WrittenInv`; a warning begun is a line not yet sent), so none gets
lost. `LockInv` says who holds the
mutex and that nobody is on the way to the buffer once it has been drained.
`OrderInv` is for complete answers: a call made once the shell emits finds the
buffer drained, so its lines all go one way, through queues, progress before
response. `RequestInv` is the same argument for requests on their way in.

*Panes.* A disabled button is owed by a call under way (`ButtonInv`): the handler that
will enable it waits in the requests or the answers. `FixInv` says that a number the
last plan has not seen is still to be announced, by an answer that no plan's answer
comes after or by a call to come, unless it has been. That a later plan's answer
does not matter is what makes the invariant subtle: such a plan has seen the number.
`ScreenIsOnePlan` rests on answers coming in the order of the plans they speak of
(`Ordered`), so that a list of the last plan is never replaced by an older one. After
the answer of any plan comes that of the last, if it was computed to its end
(`VerdictInv`); beside its verdict each list is of that plan, or the run that put
the verdict there has the list's call still to make or under way (`ListInv`); and the
last call for a list asks for what its menu says (`MenuInv`).

*Sums.* The library states induction for a predicate, which the provers cannot
instantiate; here the predicate is the *set* of the values that have it
(`NatInduct`, `Along`, `ShrinkInduct`), and whatever is recursive is a function that
solves an equation: `Recursion` and `Walk` say that there is one. The sums of the
community modules are such solutions: `SumsExist` and `SumsUnique` make the choice
inside them harmless, and `SumRemove`, `SumUnion`, `SumMonotone`, `SumScale`,
`SumOfGroups` and the rest are what the proofs about quantities cite. Sums over
renamed and padded tables, products, and sets in an order belong here too: in a
strict order of a finite set every place is taken once (`RankPlaces`), so `PlacesSort`
can say that a sorted list has every member, once, in order.

*Netting.* Two passes walk the balance, one to size lots and one to project. `PassInv`
ties them by a path, the opening balance of every bucket, which the first pass lays
(`NetInv`) and the second walks again (`ProjectInv`); the property is a fact about
the path. `RoundUpCovers` and `LotCovers` state what a lot does: it covers the need
and exceeds it by less than the rule's granularity. Wagner-Whitin sizes lots after
the pass, so its path is another, the course that buying exactly what is asked for
would take (`WholeInv`): the projection is that course and what the lots order ahead,
which is never negative. `OffsetInv` says that each
bucket passed is reported as it should be and that a closed day releases
nothing. `ReleaseInv` adds quantities: what has been released up to a day is at least
what was to be received by the bucket that has its last chance on that day, and all
together is what was received. `PreviousWorking` is the search for an open
day; `Least` and `Last` supply the extremes that it chooses.

*Wagner-Whitin.* That its lots are cheapest is the dynamic program's own argument.
The best cost of the first *u* buckets is least among all sets of order points of
these buckets, by taking off the last order (`CostSplits`, `BestIsLeast`); the walk
back through the table attains it (`WalkBackAttains`). The cost of a plan is counted
unit by unit, by how long each waits, and `StockIsWait` shows that to be the stock
held at bucket ends. Every bucket is covered by the last order at or before it
(`LotsCover`), orders for nothing are never placed and only make the program's cost
an overestimate (`PlacedCostsLess`), and any covering plan orders at points of its
own, which the program has considered.

*Explode.* An edge is slack while its component is not below its parent.
`LevelInv` (`Walked`) says that a slack edge has a parent raised since that edge was
last looked at, so that whatever changes in round *r* has a code of at least *r*.
Without a loop a code is at most the number of SKUs above (`FewAbove`), so a change
after the last round means a loop, and codes that rise along every edge exclude one
(`RisingCodes`); what is reached by edges is complete after as many steps as there
are SKUs (`ReachCloses`). `PlanningInv` says that what is planned is first in the
order of the codes and that dependent demand is the sum over the edges of the
parents planned: since the edges into the next SKU all have planned parents
(`ParentsAreDone`), its requirement is complete when it is netted. `NettingInv`, the
invariant of `Netting`, starts again with every item (`BeginsNetting`).

*Capacity.* `LoadInv`: while the routings are walked a slot holds what those passed
ask of it, and the verdict, once given, is about the sum over all of them. That sum is
units and setups apart (`WorkSplits`), and the braking factor compares sums over the
resources of what fits each (`NothingBraked`). `SpentInv` is about the second walk,
which sets every SKU's hours apart: after the same routings its entries add up to what
the first walk had loaded (`Parts`), so both find the same overloads. The excess is
shared out completely because a sum over overloads of sums over SKUs may be taken in
either order (`ExcessIsShared`), the scale being a multiple of every load
(`ScaleDivides`).

*Screens.* What is on a page is about the outcome of every item planned before, so
`BookInv` keeps for each (`IsOutcome`) what the proofs about `Netting` say of the item
at hand: what is overdue is part of what is released on the first day (`LateInv`), the
last balance is what came less what was asked for (`FlowInv`), and the balance is at
safety stock wherever nothing is fixed. `PlanningInv` says that the item at hand still
has its part's stock and fixed quantities (`KeepsPart`). Rows of a list differ in date
or SKU (`IsRows`), so either ranking is a strict order and a page is its first rows
(`PageIsTop`); `PageInv` ties a page to the plans it was asked of, which no later step
changes.

*Replay.* `ReplayInv` is `TypeOK`, `PipelineInv`, `DemandAddsUp` and `LadderInv`.
`PipelineInv` says that no order is under way for the bucket the next review would
order for; without it a bucket could receive two orders and the schedule's bound on
receipts would fail. At zero lead time it says the pipeline is empty. `LadderInv`
relates the two engines: stock less debt is the ladder's balance plus what arrived
since. `ServeEffect` states the arithmetic of a service once, and `ServeIsABucket`
that `Serve` is one step of the schedule; all other steps stutter. `DemandAddsUp` is
needed for the refinement too: with lost sales the two engines agree only because
nobody is owed. A step under a rule is a step of `Replay` (`PolicyStep`), so the
theorems carry over to `Policies`. What the rules themselves promise is `PolicyInv`:
as long as everything came as expected, stock and pipeline cover what is owed and
expected up to every bucket that the reviews held so far answer for (`CoverInv`,
unless the rule's safety stock is negative), that is, that an order could have reached
and the next review's order cannot; serving a bucket takes one bucket off both sides,
and a review moves the last bucket answered for. `CollectedInv` says that what was
collected has left the pipeline.

*Study.* `StudyInv` says of every result what was true when it was entered: the folds
lie apart and behind what was fitted, a filed forecast is clipped and the kind of its
series right, the rungs of a ladder are those of the two engines, and what comes
before the judgement is a function of the training part, the part, the working days
and the library's answer (`PlanRung`): two results that share these are alike, which
is `HoldoutIsUnseen`. `TallyInv` counts on: each counter is the number of results so
far that called for it (`OneMore`), so the report's figures are those of the
portfolio. The reports count and add over results, so what they say follows from
`SumOfGroups` and from partitions of the portfolio. The ladder's terms compare two
walks over the same demand: more stock at the start, or an order truncated less, is
never less stock in any later bucket.

*Import.* What was counted is compared at the end with what is there, so `CountInv` says
it of every prefix: behind the reader (`Been`), every fault of every row and every
unreadable header is listed or counted, once. It needs to know what the reader knows:
which keys of the table it has seen, each at the number of a row before
(`SeenInv`), and that it has kept the key of every row that repeats none
(`ParsedInv`), no key twice, so that a comparison that counts keys counts rows
(`BreakingIs`). Each entry tells the truth about the sheets, whatever is still to be
read (`LogInv`). That the part master is clean is concluded from a log that has not
grown while it was read, and a full log never grows; `FirstInv` says why this is right,
the part master is read first, into an empty log. `EndInv` adds what the comparisons
found (`DanglingIs`, `LoopingIs`), faults of other kinds than those of rows.

*HaulPlan.* `HaulInv` is `TypeOK`, `BusyInv`, `OrderInv` and both properties.
`BusyInv` says that the busy set is exactly what was assigned and that a trip is
assigned once: without it, a free truck might have a trip already. `OrderInv` says
that trips handled precede those to come, so when a short run takes a truck no
long haul is left to want it. `LedgerInv` adds that the ledger is the plan, truck by
truck. The fairness index is the square of a sum over a sum of squares; every
sharing-out of the same work has the same sum, and water-filling has the least sum of
squares, which comparing each truck with the common level shows.
`GapInv` bounds the difference between any two trucks by one long haul or the widest
opening gap, and says what the bound will be after a truck still to be sent: the
one furthest behind goes, so it passes the others by one haul at most.

*Mapping.* `MappingInv` says that what is known of a sheet is `Answer(sheet)`, and
that a preview is of the row number and mapping on the page, since every change clears
it; the rest is about what `Inspect`, `Suggest` and `Apply` answer. Which of two
doubtful rows wins depends on the sheet, but no row scores more than 1800
twelve-hundredths, and a row scores that if and only if it is `Clear`: filled from end
to end, with text, no two headings alike, over rows of its width with numbers in them
(`ScoreIs`). So if a row is clear and none above it is (`ClearHeader`), `inspect`
finds it, whatever titles, labels and data the sheet holds besides (`BestRowIs`); 91
of the run's 127 sheets are of this kind. What is suggested is `Proper` after the
claim of every field (`ClaimIs`): each heading claimed is a column, offers a name of
its field, and is claimed once. A column with a whole name of a field goes by only if
another field took each heading the field could have had, and so names both: under
`Unambiguous` that cannot be (`NothingGoesBy`). With the names listed in `apply.py`
the condition holds of every heading, since none of them ends in a name of another
field of its table; an alias added without regard to that would make the suggestion
depend on the order of the fields. For the preview, the columns of the answer and
those of the row read with agree but for blanks at the end (`HeaderIsAnswered`), so
every heading suggested is found, and its first place is a column of the answer
(`PlaceIs`).

*Only model-checked.* Liveness needs ENABLED: the fairness half of
`ImplementsDelivery`, and `CallsSettle`. The header of a sheet that is not clear, with
an unnamed column or with text alone beneath, is found by the sum of several weights:
run `desk` checks the layouts it lists, and we state nothing for all such sheets.

## Findings

1. A second planning run does not remove overdue releases of the first that it
   does not overwrite. Running the code confirms it: netting again with no
   history leaves every row of the first run's risk list.
2. An answered demo build, import, growth change or plan is lost when the window
   closes, unless an override was set afterwards. Running the code confirms it.
3. Wagner-Whitin places its first lot in the first bucket, needed or not, so a
   bucket the planner fixed can receive a lot on top. Running the code confirms
   it: fixed 5, demands 5, 3, 3 gives a first receipt of 11.
4. Importing a mapped file writes its first 199 rows and reports success: the
   commit reads the sheet with the preview's limit of 200 rows. Running the code
   confirms it: of 300 days, 199 are written, and `rows` says 199.
5. A spreadsheet whose header has a group label above it cannot be previewed as it
   was suggested: the page sends the number of the header row back, the reader then
   takes that row without the label, and the suggested headings are "not in this
   file". Running the code confirms it: `Material` over `Code` is suggested as
   `Material Code`, and the preview with header row 2 finds no such column.
6. A backtest chooses the model of a series by classifying its whole history, the
   buckets it is about to be judged by included, and then fits that model on the
   training part of each fold. `backtest.py` says that the report cannot flatter itself
   because training data never includes the evaluation window. `compare` and
   `reconcile` classify the training part only.

Each is a `violation` run; the quoted promise and its line are in `PROJECT.json`.

Smaller observations without a run:

- *Page and shell.* When the backend dies, the page shows it (`main.rs:195-197`
  wants no interface "waiting for a reply that will never come") but calls under way
  are never settled, and the buttons they disabled stay so. A preview answered after
  the mapping was edited enables Import for a mapping never previewed, although "any
  edit invalidates the last preview" (`index.html:763`), and an edit of the path, the
  table or the header row does not disable Import at all.
- *Import and mapping.* A directory without a part master is refused, "because parts
  did not parse cleanly", although a table not present is "not an error"
  (`tools/import_data.py:74`). The CSV reader does not count empty lines, and the
  comparison of tables counts accepted rows, so either may name another row than "the
  spreadsheet numbers" (`importer/__init__.py:10`). "An exact header always beats an
  expansion of a different one" (`mapping/apply.py:151-152`) only if it comes first: the
  first heading to offer a key keeps it, so `Old Item Code` before `Item Code` is
  suggested as the SKU. Leading zeros are the one conversion that is warned about
  (`mapping/apply.py:273`): SKUs written `7` and `7.0`, or `1000` and `1,000`, become one
  without a word, although of such conversions "the user needs to see them before
  committing" (`mapping/apply.py:32-33`).
- *Tables.* `commit_scenario`, which nothing but tests calls so far, archives the
  committed plan first, and if a later statement raises, the next commit by anybody
  persists an archived plan and no committed one. `copy_scenario` copies fixed
  quantities and not the people behind them. Fixing a quantity of zero leaves a reason
  with no quantity. A failing override rolls back pending work of other requests.
- *Plan.* The page enables its run button only after a demo build of this session, so
  own data imported earlier cannot be planned without one. `plan.run` after an import,
  without `demo.build`, advises the import just made.
- *Reports.* `capacity_factor` takes the hours before growth, so it may brake a plan
  that `rccp` calls feasible under a growth assumption, and adds up resources, so an
  idle machine lends its hours to an overloaded one. A backtest fold dropped for too
  little training is counted as unscored only if every fold of the series was. `compare`
  and `reconcile` make their forecasters without counters, so that a series that falls
  back to the baseline there is not reported, although fallbacks are "reported rather
  than swallowed" (`forecast/models.py:49`).

## Not modelled

- the arithmetic of the statistical models: floating point and an external library;
  what they may answer is chosen freely in `Study`;
- what a parser accepts in a cell, delimiters, encodings, cached formulas: text
  processing, better tested;
- means, deviations and normal quantiles that order policies are fitted with, and
  averages: their denominators are modelled, the divisions are not;
- reads without a judgement of their own: `import.columns`, `scenario.list`, the file
  dialog, the layout of an exported list;
- the demo generator: a seeded pseudo-random script whose result is one step here;
- the offline guard, which replaces socket functions once at start-up and has no
  state afterwards;
- tools, packaging, data sets: not part of the running system.

## Plan

Done, in this order: `FactStore` and its proofs, `Shell` with `Delivery`,
`Netting` with `WagnerWhitin`, `PlanSession`, `Replay` with `Schedule` and its
proofs, `Explode`, `HaulPlan` and its proofs, `Panes`, `Policies`, `Import`; then
`Study`, `Capacity`, `Screens`, `Mapping`, fairness in `HaulPlan`; then the proofs of
`PlanSession`, `Netting`, `Panes` and `Shell`; then `Sums`, and with it the proofs of
everything that adds up: the replay's orders, the policies, the ledger and its
fairness, `Study`, releases, Wagner-Whitin, the explosion, the load and its
explanation, and the screens; then the proofs of `Import` and of `Mapping`.

Next, by importance:

1. Commands that outlive the backend: what the page should do with calls under way
   when it exits, once the code decides (first observation above).
2. The mapping pane and `Panes` as one module, so that a late preview meets a profile.
