--------------------------------- MODULE Panes ---------------------------------
(***************************************************************************)
(* The planning and import panes of desktop/dist/index.html: every button  *)
(* and menu as an asynchronous handler that changes the screen up to its   *)
(* next "await call(...)" and goes on when that call is answered.          *)
(*                                                                         *)
(* The backend answers calls one at a time in the order they were made,    *)
(* and the answers arrive in that order (module Shell, once the shell      *)
(* emits).  Between a call and its answer the planner may click anything   *)
(* that is enabled.  Requests and answers name the handler that waits.     *)
(***************************************************************************)
EXTENDS Naturals, Sequences

CONSTANTS
    Choice,     \* what the orders can be filtered by, the risks sorted by
    Form,       \* path, table, sheet and header row of the import pane
    Mapping,    \* column mappings
    Valid(_, _),\* whether a file read with this form and mapping validates
    MaxClicks,  \* bound on what the planner does
    MaxErrors   \* bound on the calls the backend refuses

ASSUME BoundAssumption == {MaxClicks, MaxErrors} \subseteq Nat
ASSUME ChoiceAssumption == Choice # {}

VARIABLES
    \* the planning pane
    dataLoaded,
    enabled,    \* which of the buttons runPlan, loadDemo and commit can be clicked
    note,       \* planNote
    verdict,    \* the run planResult shows, 0 if it is empty
    section,    \* riskSection and ordersSection: visible, the run and choice shown
    fixing,     \* whether overrideSection is visible
    choice,     \* riskOrder and orderFilter
    \* the import pane
    form,
    mapping,
    shape,      \* whether a file has been inspected
    \* the channel
    requests,   \* calls the backend has not come to
    answers,    \* answers the page has not handled
    \* the backend
    runs,       \* plans computed, to the end or not
    complete,   \* whether the last of them was
    fixes,      \* quantities fixed or cleared
    planned,    \* how many of them the last plan has seen
    clicks,
    errors

plan    == <<dataLoaded, note, verdict, section, fixing, choice>>
import  == <<form, mapping, shape>>
backend == <<runs, complete, fixes, planned, errors>>
paneVars    == <<plan, enabled, import, requests, answers, backend, clicks>>

View == {"plan.risks", "plan.orders"}
Button == {"runPlan", "loadDemo", "commit"}
Method == View \cup {"demo.build", "scenario.growth", "plan.run", "override.set",
                     "override.list", "mapping.inspect", "mapping.preview", "mapping.commit"}
Handler == {"loadDemo", "runPlan", "fix", "menu", "inspect", "preview", "commit"}
Blank == [visible |-> FALSE, run |-> 0, choice |-> CHOOSE c \in Choice : TRUE]

PageCall == [method : Method, by : Handler, choice : Choice, form : Form, mapping : Mapping]

PanesTypeOK ==
    /\ dataLoaded \in BOOLEAN
    /\ enabled \subseteq Button
    /\ note \in {"", "ready", "stage", "done", "fixed", "error"}
    /\ verdict \in 0..runs
    /\ section \in [View -> [visible : BOOLEAN, run : 0..runs, choice : Choice]]
    /\ fixing \in BOOLEAN
    /\ choice \in [View -> Choice]
    /\ form \in Form
    /\ mapping \in Mapping
    /\ shape \in BOOLEAN
    /\ requests \in Seq(PageCall)
    /\ answers \in Seq([to : PageCall, ok : BOOLEAN, run : Nat])
    /\ \A i \in DOMAIN answers : answers[i].run <= runs
    /\ complete \in BOOLEAN
    /\ {runs, fixes, planned, clicks, errors} \subseteq Nat
    /\ planned <= fixes

PanesInit ==
    /\ dataLoaded = FALSE
    /\ enabled = {"loadDemo"}
    /\ note = ""
    /\ verdict = 0
    /\ section = [v \in View |-> Blank]
    /\ fixing = FALSE
    /\ choice = [v \in View |-> Blank.choice]
    /\ form \in Form
    /\ mapping \in {m \in Mapping : \A f \in Form : ~Valid(f, m)}    \* none yet
    /\ shape = FALSE
    /\ requests = <<>>
    /\ answers = <<>>
    /\ runs = 0
    /\ complete = TRUE
    /\ fixes = 0
    /\ planned = 0
    /\ clicks = 0
    /\ errors = 0

------------------------------------------------------------------------------
(***************************************************************************)
(* What the planner does.                                                  *)
(***************************************************************************)
\* A call carries what the screen says when it is made.
Asking(method, handler) ==
    [method |-> method, by |-> handler, form |-> form, mapping |-> mapping,
     choice |-> IF method \in View THEN choice'[method] ELSE Blank.choice]

Call(method, handler) == requests' = Append(requests, Asking(method, handler))

Click ==
    /\ clicks < MaxClicks
    /\ clicks' = clicks + 1
    /\ UNCHANGED <<answers, backend>>

LoadDemo ==
    /\ Click
    /\ "loadDemo" \in enabled
    /\ enabled' = enabled \ {"loadDemo"}
    /\ UNCHANGED <<plan, import>>
    /\ Call("demo.build", "loadDemo")

RunPlan ==
    /\ Click
    /\ "runPlan" \in enabled
    /\ dataLoaded
    /\ enabled' = enabled \ {"runPlan"}
    /\ verdict' = 0
    /\ section' = [v \in View |-> [section[v] EXCEPT !.visible = FALSE]]
    /\ fixing' = FALSE
    /\ UNCHANGED <<dataLoaded, note, choice, import>>
    /\ Call("scenario.growth", "runPlan")

\* Mutant of ChangeMenu: nothing is asked while an answer is under way.
ChangeWhenIdle(view, c) ==
    /\ Click
    /\ section[view].visible
    /\ c # choice[view]
    /\ choice' = [choice EXCEPT ![view] = c]
    /\ UNCHANGED <<dataLoaded, note, verdict, section, fixing, enabled, import>>
    /\ IF requests = <<>> THEN Call(view, "menu") ELSE UNCHANGED requests

\* riskOrder.onchange and orderFilter.onchange, on a section that can be seen.
ChangeMenu(view, c) ==
    /\ Click
    /\ section[view].visible
    /\ c # choice[view]
    /\ choice' = [choice EXCEPT ![view] = c]
    /\ UNCHANGED <<dataLoaded, note, verdict, section, fixing, enabled, import>>
    /\ Call(view, "menu")

\* ovSet, and the clear buttons, which do the same by override.clear.
FixNumber ==
    /\ Click
    /\ fixing
    /\ UNCHANGED <<plan, enabled, import>>
    /\ Call("override.set", "fix")

EditForm(f) ==
    /\ Click
    /\ f # form
    /\ form' = f
    /\ UNCHANGED <<plan, enabled, mapping, shape, requests>>

\* A column menu or a saved profile.
EditMapping(m) ==
    /\ Click
    /\ shape
    /\ m # mapping
    /\ mapping' = m
    /\ enabled' = enabled \ {"commit"}
    /\ UNCHANGED <<plan, form, shape, requests>>

Inspect == Click /\ UNCHANGED <<plan, enabled, import>> /\ Call("mapping.inspect", "inspect")

Preview ==
    /\ Click
    /\ UNCHANGED <<plan, enabled, form, mapping, shape>>
    /\ Call("mapping.preview", "preview")

Commit ==
    /\ Click
    /\ "commit" \in enabled
    /\ UNCHANGED <<plan, enabled, import>>
    /\ Call("mapping.commit", "commit")

------------------------------------------------------------------------------
(***************************************************************************)
(* The backend: one request at a time, in order.                           *)
(***************************************************************************)
Computes == Head(requests).method = "plan.run"
Fixing == Head(requests).method = "override.set"

\* The call is answered from the plan that is in the tables when it has been run.
Reply(ok) ==
    /\ requests # <<>>
    /\ runs' = IF Computes THEN runs + 1 ELSE runs
    /\ complete' = IF Computes THEN ok ELSE complete
    /\ requests' = Tail(requests)
    /\ answers' = Append(answers, [to |-> Head(requests), ok |-> ok, run |-> runs'])
    /\ UNCHANGED <<plan, enabled, import, clicks>>

Rejected ==
    /\ Head(requests).method = "mapping.commit"
    /\ ~Valid(Head(requests).form, Head(requests).mapping)

Serve ==
    /\ Reply(TRUE)
    /\ ~Rejected
    /\ fixes' = IF Fixing THEN fixes + 1 ELSE fixes
    /\ planned' = IF Computes THEN fixes ELSE planned
    /\ UNCHANGED errors

\* The override, growth, planning and import methods can raise; a plan run may
\* have written some of its measures by then.
Refuse ==
    /\ Reply(FALSE)
    /\ Head(requests).method \notin View \cup {"override.list"}
    /\ errors < MaxErrors
    /\ errors' = errors + 1
    /\ UNCHANGED <<fixes, planned>>

\* mapping.commit validates the whole file before it writes a row.
RefuseImport ==
    /\ Reply(FALSE)
    /\ Rejected
    /\ UNCHANGED <<fixes, planned, errors>>

------------------------------------------------------------------------------
(***************************************************************************)
(* The handlers go on.                                                     *)
(***************************************************************************)
\* The next answer, to this call of this handler.
Answered(method, handler) ==
    /\ answers # <<>>
    /\ Head(answers).to.method = method
    /\ Head(answers).to.by = handler
    /\ answers' = Tail(answers)
    /\ UNCHANGED <<backend, clicks>>

Granted == Head(answers).ok

DemoBuilt ==
    /\ Answered("demo.build", "loadDemo")
    /\ IF Granted
       THEN /\ dataLoaded' = TRUE
            /\ enabled' = enabled \cup {"runPlan", "loadDemo"}
            /\ note' = "ready"
       ELSE /\ enabled' = enabled \cup {"loadDemo"}
            /\ UNCHANGED <<dataLoaded, note>>
    /\ UNCHANGED <<verdict, section, fixing, choice, import, requests>>

\* Mutant of RunFailed: the button comes back only at the end of a good run.
RunFailedForGood ==
    /\ Answered("scenario.growth", "runPlan") \/ Answered("plan.run", "runPlan")
    /\ ~Granted
    /\ note' = "error"
    /\ UNCHANGED <<dataLoaded, verdict, section, fixing, choice, enabled, import, requests>>

RunFailed ==
    /\ Answered("scenario.growth", "runPlan") \/ Answered("plan.run", "runPlan")
    /\ ~Granted
    /\ note' = "error"
    /\ enabled' = enabled \cup {"runPlan"}
    /\ UNCHANGED <<dataLoaded, verdict, section, fixing, choice, import, requests>>

GrowthSet ==
    /\ Answered("scenario.growth", "runPlan")
    /\ Granted
    /\ UNCHANGED <<plan, enabled, import>>
    /\ Call("plan.run", "runPlan")

\* The backend reports progress while plan.run is the call it works on.
Progress ==
    /\ answers = <<>>
    /\ requests # <<>>
    /\ Head(requests).method = "plan.run"
    /\ note # "stage"
    /\ note' = "stage"
    /\ UNCHANGED <<dataLoaded, verdict, section, fixing, choice, enabled, import,
                   requests, answers, backend, clicks>>

PlanAnswered ==
    /\ Answered("plan.run", "runPlan")
    /\ Granted
    /\ note' = "done"
    /\ verdict' = Head(answers).run
    /\ UNCHANGED <<dataLoaded, section, fixing, choice, enabled, import>>
    /\ Call("override.list", "runPlan")

OverridesShown ==
    /\ Answered("override.list", "runPlan")
    /\ fixing' = TRUE
    /\ UNCHANGED <<dataLoaded, note, verdict, section, choice, enabled, import>>
    /\ Call("plan.risks", "runPlan")

Shown(view) ==
    section' = [section EXCEPT ![view] =
        [visible |-> TRUE, run |-> Head(answers).run, choice |-> Head(answers).to.choice]]

RisksShown ==
    /\ Answered("plan.risks", "runPlan")
    /\ Shown("plan.risks")
    /\ UNCHANGED <<dataLoaded, note, verdict, fixing, choice, enabled, import>>
    /\ Call("plan.orders", "runPlan")

OrdersShown ==
    /\ Answered("plan.orders", "runPlan")
    /\ Shown("plan.orders")
    /\ enabled' = enabled \cup {"runPlan"}
    /\ UNCHANGED <<dataLoaded, note, verdict, fixing, choice, import, requests>>

MenuAnswered(view) ==
    /\ Answered(view, "menu")
    /\ Shown(view)
    /\ UNCHANGED <<dataLoaded, note, verdict, fixing, choice, enabled, import, requests>>

NumberFixed ==
    /\ Answered("override.set", "fix")
    /\ UNCHANGED <<plan, enabled, import>>
    /\ IF Granted THEN Call("override.list", "fix") ELSE UNCHANGED requests

\* Mutant of FixShown: what a run under way says is not overwritten.
FixShownUnlessRunning ==
    /\ Answered("override.list", "fix")
    /\ fixing' = TRUE
    /\ note' = IF "runPlan" \in enabled THEN "fixed" ELSE note
    /\ UNCHANGED <<dataLoaded, verdict, section, choice, enabled, import, requests>>

FixShown ==
    /\ Answered("override.list", "fix")
    /\ fixing' = TRUE
    /\ note' = "fixed"
    /\ UNCHANGED <<dataLoaded, verdict, section, choice, enabled, import, requests>>

\* The header row found goes into the form, the suggestion into the mapping.
Inspected ==
    /\ Answered("mapping.inspect", "inspect")
    /\ IF Granted
       THEN /\ shape' = TRUE
            /\ form' \in Form
            /\ mapping' \in Mapping
            /\ enabled' = enabled \ {"commit"}
       ELSE UNCHANGED <<shape, form, mapping, enabled>>
    /\ UNCHANGED <<plan, requests>>

PreviewShown ==
    /\ Answered("mapping.preview", "preview")
    /\ LET asked == Head(answers).to
           passed == Valid(asked.form, asked.mapping)
       IN IF Granted
          THEN enabled' = IF passed THEN enabled \cup {"commit"} ELSE enabled \ {"commit"}
          ELSE UNCHANGED enabled
    /\ UNCHANGED <<plan, import, requests>>

Imported ==
    /\ Answered("mapping.commit", "commit")
    /\ enabled' = IF Granted THEN enabled \ {"commit"} ELSE enabled
    /\ UNCHANGED <<plan, import, requests>>

------------------------------------------------------------------------------
PanesNext ==
    \/ LoadDemo \/ RunPlan \/ FixNumber \/ Inspect \/ Preview \/ Commit
    \/ \E v \in View, c \in Choice : ChangeMenu(v, c)
    \/ \E f \in Form : EditForm(f)
    \/ \E m \in Mapping : EditMapping(m)
    \/ Serve \/ Refuse \/ RefuseImport
    \/ DemoBuilt \/ RunFailed \/ GrowthSet \/ Progress \/ PlanAnswered
    \/ OverridesShown \/ RisksShown \/ OrdersShown
    \/ \E v \in View : MenuAnswered(v)
    \/ NumberFixed \/ FixShown
    \/ Inspected \/ PreviewShown \/ Imported

PanesSpec == PanesInit /\ [][PanesNext]_paneVars

------------------------------------------------------------------------------
(***************************************************************************)
(* Properties.                                                             *)
(***************************************************************************)
Quiet == requests = <<>> /\ answers = <<>>

\* Once everything is answered and the last plan was computed to its end, a
\* verdict on the screen and the lists beside it are of that plan, though two
\* runs may have overlapped (loading the demonstration data enables the button
\* again) and menus were used meanwhile; a list that can be seen is the one its
\* menu asks for.  renderPlan, renderRisk and renderOrders, each after an await.
ScreenIsOnePlan ==
    Quiet =>
        /\ verdict # 0 /\ complete =>
              /\ verdict = runs
              /\ \A v \in View : section[v].visible /\ section[v].run = runs
        /\ \A v \in View : section[v].visible => section[v].choice = choice[v]

\* "Done." is never the last word on a plan that does not know of a number
\* fixed since: the planner is told to run it again (ovSet and runPlan share
\* planNote).
FixesAreAnnounced == Quiet /\ note = "done" => planned = fixes

\* No refusal and no overlap of handlers leaves a button disabled for good: the
\* finally blocks of loadDemo and runPlan.
ButtonsComeBack ==
    Quiet => "loadDemo" \in enabled /\ (dataLoaded => "runPlan" \in enabled)
==============================================================================
