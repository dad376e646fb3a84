----------------------------- MODULE PanesProofs -----------------------------
(***************************************************************************)
(* Theorems about Panes, for any menus, forms and mappings and any number  *)
(* of clicks and refusals.                                                 *)
(*                                                                         *)
(* What a handler still owes the screen is owed by a call of its own that  *)
(* is under way: in the requests the backend has not come to or in the     *)
(* answers the page has not handled.                                       *)
(***************************************************************************)
EXTENDS Panes, SequenceTheorems, TLAPS

USE BoundAssumption, ChoiceAssumption

AnswerType == [to : PageCall, ok : BOOLEAN, run : Nat]

------------------------------------------------------------------------------
(***************************************************************************)
(* Two queues.                                                             *)
(***************************************************************************)
LEMMA Appended ==
    ASSUME NEW S, NEW s \in Seq(S), NEW e \in S
    PROVE  /\ Append(s, e) \in Seq(S)
           /\ Len(Append(s, e)) = Len(s) + 1
           /\ \A i \in 1..Len(s) : Append(s, e)[i] = s[i]
           /\ Append(s, e)[Len(s) + 1] = e
  BY AppendProperties

LEMMA Taken ==
    ASSUME NEW S, NEW s \in Seq(S), s # <<>>
    PROVE  /\ Tail(s) \in Seq(S)
           /\ Head(s) \in S /\ Head(s) = s[1]
           /\ Len(s) \in Nat \ {0} /\ Len(Tail(s)) = Len(s) - 1
           /\ \A i \in 1..Len(Tail(s)) : Tail(s)[i] = s[i + 1]
  BY HeadTailProperties, EmptySeq

LEMMA Indices == ASSUME NEW S, NEW s \in Seq(S) PROVE DOMAIN s = 1..Len(s) /\ Len(s) \in Nat
  BY LenProperties

------------------------------------------------------------------------------
(***************************************************************************)
(* Types.                                                                  *)
(***************************************************************************)
LEMMA BlankType ==
    /\ Blank.choice \in Choice
    /\ Blank \in [visible : BOOLEAN, run : 0..0, choice : Choice]
  BY DEF Blank

LEMMA InitTypeOK == PanesInit => PanesTypeOK
  <1> SUFFICES ASSUME PanesInit PROVE PanesTypeOK
    OBVIOUS
  <1>1. section \in [View -> [visible : BOOLEAN, run : 0..runs, choice : Choice]]
    BY BlankType DEF PanesInit
  <1>2. choice \in [View -> Choice]
    BY BlankType DEF PanesInit
  <1>0. /\ requests = <<>> /\ answers = <<>> /\ verdict = 0 /\ runs = 0 /\ fixes = 0
        /\ planned = 0 /\ clicks = 0 /\ errors = 0 /\ mapping \in Mapping
    BY Zenon DEF PanesInit
  <1>3. /\ requests \in Seq(PageCall) /\ answers \in Seq([to : PageCall, ok : BOOLEAN, run : Nat])
        /\ DOMAIN answers = {}
    BY <1>0, EmptySeq
  <1>4. verdict \in 0..runs /\ {runs, fixes, planned, clicks, errors} \subseteq Nat /\ planned <= fixes
    BY <1>0
  <1> QED
    BY <1>0, <1>1, <1>2, <1>3, <1>4 DEF PanesInit, PanesTypeOK, Button

LEMMA AskingType ==
    ASSUME PanesTypeOK, choice' \in [View -> Choice], NEW m \in Method, NEW h \in Handler
    PROVE  Asking(m, h) \in PageCall
  BY BlankType DEF Asking, PanesTypeOK, PageCall, View

LEMMA CallType ==
    ASSUME PanesTypeOK, choice' \in [View -> Choice], NEW m \in Method, NEW h \in Handler,
           Call(m, h)
    PROVE  requests' \in Seq(PageCall)
  BY AskingType, Appended DEF Call, PanesTypeOK

LEMMA TakenType ==
    ASSUME PanesTypeOK, answers # <<>>, answers' = Tail(answers), runs' = runs
    PROVE  /\ answers' \in Seq(AnswerType)
           /\ \A i \in DOMAIN answers' : answers'[i].run <= runs'
           /\ Head(answers) \in AnswerType /\ Head(answers).run \in 0..runs
  <1>1. answers \in Seq(AnswerType) /\ \A i \in 1..Len(answers) : answers[i].run <= runs
    BY Indices DEF PanesTypeOK, AnswerType
  <1>2. /\ answers' \in Seq(AnswerType)
        /\ Head(answers) \in AnswerType /\ Head(answers) = answers[1]
        /\ Len(answers) \in Nat \ {0} /\ Len(answers') = Len(answers) - 1
        /\ \A i \in 1..Len(answers') : answers'[i] = answers[i + 1]
    BY <1>1, Taken
  <1>3. DOMAIN answers' = 1..Len(answers')
    BY <1>2, Indices
  <1>4. Head(answers).run \in Nat /\ runs \in Nat
    BY <1>2 DEF AnswerType, PanesTypeOK
  <1> QED
    BY <1>1, <1>2, <1>3, <1>4

LEMMA ShownType ==
    ASSUME PanesTypeOK, NEW v \in View, Shown(v), answers # <<>>, answers' = Tail(answers), runs' = runs
    PROVE  section' \in [View -> [visible : BOOLEAN, run : 0..runs', choice : Choice]]
  <1> DEFINE new == [visible |-> TRUE, run |-> Head(answers).run,
                     choice |-> Head(answers).to.choice]
  <1>1. Head(answers) \in AnswerType /\ Head(answers).run \in 0..runs
    BY TakenType
  <1>2. Head(answers).to.choice \in Choice
    BY <1>1 DEF AnswerType, PageCall
  <1>3. new \in [visible : BOOLEAN, run : 0..runs', choice : Choice]
    BY <1>1, <1>2
  <1>4. section' = [section EXCEPT ![v] = new]
    BY DEF Shown
  <1> HIDE DEF new
  <1> QED
    BY <1>3, <1>4 DEF PanesTypeOK

LEMMA AnswerTypes ==
    ASSUME PanesTypeOK, NEW ok \in BOOLEAN, Reply(ok)
    PROVE  /\ requests' \in Seq(PageCall)
           /\ runs' \in Nat /\ runs' >= runs /\ complete' \in BOOLEAN
           /\ answers' \in Seq(AnswerType)
           /\ \A i \in DOMAIN answers' : answers'[i].run <= runs'
  <1> DEFINE a == [to |-> Head(requests), ok |-> ok, run |-> runs']
  <1>1. runs' \in Nat /\ runs' >= runs /\ complete' \in BOOLEAN
    <2>1. runs \in Nat /\ complete \in BOOLEAN
      BY DEF PanesTypeOK
    <2> QED
      BY <2>1 DEF Reply
  <1>2. requests' \in Seq(PageCall) /\ Head(requests) \in PageCall
    BY Taken DEF Reply, PanesTypeOK
  <1>3. a \in AnswerType /\ a.run = runs'
    BY <1>1, <1>2 DEF AnswerType
  <1>4. answers \in Seq(AnswerType) /\ \A i \in 1..Len(answers) : answers[i].run <= runs
    BY Indices DEF PanesTypeOK, AnswerType
  <1>5. answers' = Append(answers, a)
    BY DEF Reply
  <1> HIDE DEF a
  <1>6. /\ answers' \in Seq(AnswerType)
        /\ Len(answers') = Len(answers) + 1
        /\ \A i \in 1..Len(answers) : answers'[i] = answers[i]
        /\ answers'[Len(answers) + 1] = a
    BY <1>3, <1>4, <1>5, Appended
  <1>7. /\ DOMAIN answers' = 1..Len(answers') /\ Len(answers) \in Nat
        /\ \A i \in 1..Len(answers) : answers[i].run \in Nat
    <2>1. \A i \in 1..Len(answers) : answers[i] \in AnswerType
      BY <1>4, ElementOfSeq
    <2> QED
      BY <1>4, <1>6, <2>1, Indices DEF AnswerType
  <1>8. \A i \in 1..(Len(answers) + 1) : answers'[i].run <= runs'
    <2>0. runs \in Nat
      BY DEF PanesTypeOK
    <2>1. \A i \in 1..(Len(answers) + 1) : i = Len(answers) + 1 \/ i \in 1..Len(answers)
      BY <1>7
    <2>2. ASSUME NEW i \in 1..Len(answers) PROVE answers'[i].run <= runs'
      <3>1. answers'[i].run = answers[i].run /\ answers[i].run <= runs /\ answers[i].run \in Nat
        BY <1>4, <1>6, <1>7
      <3> QED
        BY <1>1, <2>0, <3>1
    <2>3. answers'[Len(answers) + 1].run <= runs'
      BY <1>1, <1>3, <1>6
    <2> QED
      BY <2>1, <2>2, <2>3
  <1> QED
    BY <1>1, <1>2, <1>6, <1>7, <1>8
\* The screen, apart from the lists, and the counters.
ScreenType ==
    /\ dataLoaded \in BOOLEAN
    /\ enabled \subseteq Button
    /\ note \in {"", "ready", "stage", "done", "fixed", "error"}
    /\ verdict \in 0..runs
    /\ fixing \in BOOLEAN
    /\ choice \in [View -> Choice]
    /\ form \in Form /\ mapping \in Mapping /\ shape \in BOOLEAN
    /\ complete \in BOOLEAN
    /\ runs \in Nat /\ fixes \in Nat /\ planned \in Nat /\ clicks \in Nat /\ errors \in Nat
    /\ planned <= fixes

ListType == section \in [View -> [visible : BOOLEAN, run : 0..runs, choice : Choice]]

QueueType ==
    /\ requests \in Seq(PageCall)
    /\ answers \in Seq(AnswerType)
    /\ \A i \in DOMAIN answers : answers[i].run <= runs

LEMMA Types == PanesTypeOK <=> ScreenType /\ ListType /\ QueueType
  BY DEF PanesTypeOK, ScreenType, ListType, QueueType, AnswerType

LEMMA TypesNext == PanesTypeOK' <=> ScreenType' /\ ListType' /\ QueueType'
  BY DEF PanesTypeOK, ScreenType, ListType, QueueType, AnswerType

\* What the planner clicks.
LEMMA ClickTypes ==
    ASSUME PanesTypeOK,
           \/ LoadDemo \/ RunPlan \/ FixNumber \/ Inspect \/ Preview \/ Commit
           \/ \E v \in View, c \in Choice : ChangeMenu(v, c)
           \/ \E f \in Form : EditForm(f)
           \/ \E m \in Mapping : EditMapping(m)
    PROVE  PanesTypeOK'
  <1>1. ScreenType /\ ListType /\ QueueType
    BY Types
  <1>2. ScreenType'
    <2>1. clicks' = clicks + 1 /\ UNCHANGED <<runs, complete, fixes, planned, errors>>
      BY DEF LoadDemo, RunPlan, FixNumber, Inspect, Preview, Commit, ChangeMenu,
             EditForm, EditMapping, Click, backend
    <2>2. /\ dataLoaded' = dataLoaded /\ note' = note
          /\ enabled' \subseteq enabled
          /\ verdict' = verdict \/ verdict' = 0
          /\ fixing' = fixing \/ fixing' = FALSE
          /\ choice' = choice \/ \E v \in View, c \in Choice : choice' = [choice EXCEPT ![v] = c]
          /\ form' = form \/ form' \in Form
          /\ mapping' = mapping \/ mapping' \in Mapping
          /\ shape' = shape
      <3> USE DEF plan, import
      <3>1. CASE RunPlan
        BY <3>1 DEF RunPlan
      <3>2. CASE LoadDemo \/ FixNumber \/ Inspect \/ Preview \/ Commit
        BY <3>2 DEF LoadDemo, FixNumber, Inspect, Preview, Commit
      <3>3. CASE \E v \in View, c \in Choice : ChangeMenu(v, c)
        BY <3>3 DEF ChangeMenu
      <3>4. CASE \E f \in Form : EditForm(f)
        BY <3>4 DEF EditForm
      <3>5. CASE \E m \in Mapping : EditMapping(m)
        BY <3>5 DEF EditMapping
      <3> QED
        BY <3>1, <3>2, <3>3, <3>4, <3>5
    <2>3. /\ clicks' \in Nat /\ verdict' \in 0..runs' /\ choice' \in [View -> Choice]
          /\ enabled' \subseteq Button /\ fixing' \in BOOLEAN
      <3>1. /\ clicks \in Nat /\ runs \in Nat /\ verdict \in 0..runs
            /\ choice \in [View -> Choice] /\ enabled \subseteq Button /\ fixing \in BOOLEAN
        BY <1>1 DEF ScreenType
      <3>2. choice' \in [View -> Choice]
        BY <2>2, <3>1
      <3>3. clicks' \in Nat /\ verdict' \in 0..runs'
        BY <2>1, <2>2, <3>1
      <3> QED
        BY <2>2, <3>1, <3>2, <3>3
    <2> QED
      BY <1>1, <2>1, <2>2, <2>3 DEF ScreenType
  <1>3. ListType'
    <2>1. CASE RunPlan
      BY <1>1, <2>1 DEF ListType, RunPlan, Click, backend
    <2>2. CASE UNCHANGED <<section, runs>>
      BY <1>1, <2>2 DEF ListType
    <2> QED
      BY <2>1, <2>2 DEF LoadDemo, FixNumber, Inspect, Preview, Commit, ChangeMenu,
                        EditForm, EditMapping, Click, plan, backend
  <1>4. requests' \in Seq(PageCall)
    <2> USE DEF Method, Handler, View
    <2>1. choice' \in [View -> Choice]
      BY <1>2 DEF ScreenType
    <2>2. CASE \E m \in Method, h \in Handler : Call(m, h)
      BY <2>1, <2>2, CallType
    <2>3. CASE UNCHANGED requests
      BY <1>1, <2>3 DEF QueueType
    <2> QED
      BY <2>2, <2>3 DEF LoadDemo, RunPlan, FixNumber, Inspect, Preview, Commit, ChangeMenu,
                        EditForm, EditMapping
  <1>5. QueueType'
    BY <1>1, <1>4 DEF QueueType, LoadDemo, RunPlan, FixNumber, Inspect, Preview, Commit,
                      ChangeMenu, EditForm, EditMapping, Click, backend
  <1> QED
    BY <1>2, <1>3, <1>5, TypesNext

LEMMA BackendTypes ==
    ASSUME PanesTypeOK, Serve \/ Refuse \/ RefuseImport
    PROVE  PanesTypeOK'
  <1>1. ScreenType /\ ListType
    BY Types
  <1>2. /\ requests' \in Seq(PageCall)
        /\ runs' \in Nat /\ runs' >= runs /\ complete' \in BOOLEAN
        /\ answers' \in Seq(AnswerType)
        /\ \A i \in DOMAIN answers' : answers'[i].run <= runs'
    BY AnswerTypes DEF Serve, Refuse, RefuseImport
  <1>3. UNCHANGED <<plan, enabled, import, clicks>>
    BY DEF Serve, Refuse, RefuseImport, Reply
  <1>4. /\ fixes' \in Nat /\ planned' \in Nat /\ errors' \in Nat /\ planned' <= fixes'
    <2>1. fixes \in Nat /\ planned \in Nat /\ errors \in Nat /\ planned <= fixes
      BY <1>1 DEF ScreenType
    <2>2. CASE Serve
      BY <2>1, <2>2 DEF Serve
    <2>3. CASE Refuse
      BY <2>1, <2>3 DEF Refuse
    <2>4. CASE RefuseImport
      BY <2>1, <2>4 DEF RefuseImport
    <2> QED
      BY <2>2, <2>3, <2>4
  <1>5. 0..runs \subseteq 0..runs'
    <2>1. runs \in Nat
      BY <1>1 DEF ScreenType
    <2> QED
      BY <1>2, <2>1
  <1>6. ScreenType'
    <2>1. /\ dataLoaded' = dataLoaded /\ enabled' = enabled /\ note' = note /\ verdict' = verdict
          /\ fixing' = fixing /\ choice' = choice /\ form' = form /\ mapping' = mapping
          /\ shape' = shape /\ clicks' = clicks
      BY <1>3 DEF plan, import
    <2> QED
      BY <1>1, <1>2, <1>4, <1>5, <2>1 DEF ScreenType
  <1>7. ListType'
    <2>1. section' = section
      BY <1>3 DEF plan
    <2> QED
      BY <1>1, <1>5, <2>1 DEF ListType
  <1> QED
    BY <1>2, <1>6, <1>7, TypesNext DEF QueueType

\* The handlers that go on.
Continues ==
    \/ DemoBuilt \/ RunFailed \/ GrowthSet \/ PlanAnswered
    \/ OverridesShown \/ RisksShown \/ OrdersShown
    \/ \E v \in View : MenuAnswered(v)
    \/ NumberFixed \/ FixShown
    \/ Inspected \/ PreviewShown \/ Imported

LEMMA ContinueTypes ==
    ASSUME PanesTypeOK, Continues
    PROVE  PanesTypeOK'
  <1>1. ScreenType /\ ListType /\ QueueType
    BY Types
  <1>2. answers # <<>> /\ answers' = Tail(answers) /\ UNCHANGED <<backend, clicks>>
    BY DEF Continues, DemoBuilt, RunFailed, GrowthSet, PlanAnswered, OverridesShown, RisksShown,
           OrdersShown, MenuAnswered, NumberFixed, FixShown, Inspected, PreviewShown, Imported,
           Answered
  <1>3. UNCHANGED <<runs, complete, fixes, planned, errors, clicks>>
    BY <1>2 DEF backend
  <1>4. /\ answers' \in Seq(AnswerType)
        /\ \A i \in DOMAIN answers' : answers'[i].run <= runs'
        /\ Head(answers) \in AnswerType /\ Head(answers).run \in 0..runs
    BY <1>2, <1>3, TakenType
  <1>5. ScreenType'
    BY <1>1, <1>3, <1>4, ZenonT(30)
       DEF ScreenType, Continues, DemoBuilt, RunFailed, GrowthSet, PlanAnswered, OverridesShown,
           RisksShown, OrdersShown, MenuAnswered, NumberFixed, FixShown, Inspected,
           PreviewShown, Imported, plan, import, Button
  <1>6. ListType'
    <2>1. CASE \E v \in View : Shown(v)
      BY <1>2, <1>3, <2>1, ShownType DEF ListType
    <2>2. CASE UNCHANGED section
      BY <1>1, <1>3, <2>2 DEF ListType
    <2> QED
      BY <2>1, <2>2
         DEF Continues, DemoBuilt, RunFailed, GrowthSet, PlanAnswered, OverridesShown, RisksShown,
             OrdersShown, MenuAnswered, NumberFixed, FixShown, Inspected, PreviewShown,
             Imported, plan, View
  <1>7. requests' \in Seq(PageCall)
    <2>1. choice' \in [View -> Choice]
      BY <1>5 DEF ScreenType
    <2>2. CASE \E m \in Method, h \in Handler : Call(m, h)
      BY <2>1, <2>2, CallType
    <2>3. CASE UNCHANGED requests
      BY <1>1, <2>3 DEF QueueType
    <2> QED
      BY <2>2, <2>3
         DEF Continues, DemoBuilt, RunFailed, GrowthSet, PlanAnswered, OverridesShown, RisksShown,
             OrdersShown, MenuAnswered, NumberFixed, FixShown, Inspected, PreviewShown,
             Imported, Method, Handler, View
  <1> QED
    BY <1>4, <1>5, <1>6, <1>7, TypesNext DEF QueueType

LEMMA StepTypeOK == PanesTypeOK /\ [PanesNext]_paneVars => PanesTypeOK'
  <1> SUFFICES ASSUME PanesTypeOK, [PanesNext]_paneVars PROVE PanesTypeOK'
    OBVIOUS
  <1>1. CASE Progress
    <2>1. ScreenType /\ ListType /\ QueueType
      BY Types
    <2>2. ScreenType' /\ ListType' /\ QueueType'
      BY <1>1, <2>1 DEF Progress, ScreenType, ListType, QueueType, import, backend
    <2> QED
      BY <2>2, TypesNext
  <1>2. CASE UNCHANGED paneVars
    BY <1>2 DEF paneVars, plan, import, backend, PanesTypeOK
  <1> QED
    BY <1>1, <1>2, ClickTypes, BackendTypes, ContinueTypes DEF PanesNext, Continues

\* The page, its calls and the backend keep their types; in particular no screen
\* ever shows a plan that was not computed.
THEOREM PanesTypeCorrect == PanesSpec => []PanesTypeOK
  BY InitTypeOK, StepTypeOK, PTL DEF PanesSpec
------------------------------------------------------------------------------
(***************************************************************************)
(* Calls under way.                                                        *)
(***************************************************************************)
InRequests(h) == \E i \in 1..Len(requests) : requests[i].by = h
InAnswers(h) == \E i \in 1..Len(answers) : answers[i].to.by = h
Waiting(h) == InRequests(h) \/ InAnswers(h)

\* What the two queues become when a call is made, answered or handled.
Called(r) ==
    /\ Len(requests') = Len(requests) + 1
    /\ \A i \in 1..Len(requests) : requests'[i] = requests[i]
    /\ requests'[Len(requests) + 1] = r

Moved(a) ==
    /\ requests # <<>> /\ a.to = requests[1]
    /\ Len(requests') = Len(requests) - 1 /\ Len(answers') = Len(answers) + 1
    /\ \A i \in 1..Len(requests') : requests'[i] = requests[i + 1]
    /\ \A i \in 1..Len(answers) : answers'[i] = answers[i]
    /\ answers'[Len(answers) + 1] = a

Handled ==
    /\ Len(answers) > 0 /\ Len(answers') = Len(answers) - 1
    /\ Head(answers) = answers[1]
    /\ \A i \in 1..Len(answers') : answers'[i] = answers[i + 1]

Lengths == Len(requests) \in Nat /\ Len(answers) \in Nat

LEMMA QueueLengths == PanesTypeOK => Lengths
  BY Indices DEF PanesTypeOK, Lengths

LEMMA CallIs ==
    ASSUME PanesTypeOK, PanesTypeOK', NEW m \in Method, NEW h \in Handler, Call(m, h)
    PROVE  \E r \in PageCall : Called(r) /\ r.by = h /\ r.method = m
  <1>1. choice' \in [View -> Choice]
    BY DEF PanesTypeOK
  <1>2. Asking(m, h) \in PageCall
    BY <1>1, AskingType
  <1>3. requests \in Seq(PageCall) /\ requests' = Append(requests, Asking(m, h))
    BY DEF PanesTypeOK, Call
  <1>4. Called(Asking(m, h))
    BY <1>2, <1>3, Appended DEF Called
  <1>5. Asking(m, h).by = h /\ Asking(m, h).method = m
    BY DEF Asking
  <1> QED
    BY <1>2, <1>4, <1>5

LEMMA AnswerIs ==
    ASSUME PanesTypeOK, NEW ok \in BOOLEAN, Reply(ok)
    PROVE  Moved([to |-> requests[1], ok |-> ok, run |-> runs'])
  <1> DEFINE a == [to |-> Head(requests), ok |-> ok, run |-> runs']
  <1>1. requests \in Seq(PageCall) /\ requests # <<>> /\ requests' = Tail(requests)
    BY DEF PanesTypeOK, Reply
  <1>2. /\ Head(requests) \in PageCall /\ Head(requests) = requests[1]
        /\ Len(requests') = Len(requests) - 1
        /\ \A i \in 1..Len(requests') : requests'[i] = requests[i + 1]
    BY <1>1, Taken
  <1>3. answers \in Seq(AnswerType) /\ answers' = Append(answers, a)
    BY DEF PanesTypeOK, Reply, AnswerType
  <1>4. a \in AnswerType
    BY <1>2, AnswerTypes DEF AnswerType
  <1>5. a.to = requests[1] /\ a = [to |-> requests[1], ok |-> ok, run |-> runs']
    BY <1>2
  <1> HIDE DEF a
  <1>6. /\ Len(answers') = Len(answers) + 1
        /\ \A i \in 1..Len(answers) : answers'[i] = answers[i]
        /\ answers'[Len(answers) + 1] = a
    BY <1>3, <1>4, Appended
  <1>7. Moved(a)
    BY <1>1, <1>2, <1>5, <1>6 DEF Moved
  <1> QED
    BY <1>5, <1>7

LEMMA TakingIs ==
    ASSUME PanesTypeOK, answers # <<>>, answers' = Tail(answers)
    PROVE  Handled
  <1>1. answers \in Seq(AnswerType)
    BY DEF PanesTypeOK, AnswerType
  <1> QED
    BY <1>1, Taken DEF Handled

LEMMA CallWaits ==
    ASSUME Lengths, NEW r, NEW h, Called(r), r.by = h
    PROVE  InRequests(h)' /\ \A g : InRequests(g) => InRequests(g)'
  BY DEF Lengths, Called, InRequests

LEMMA AnswerWaits ==
    ASSUME Lengths, NEW a, Moved(a)
    PROVE  \A g : Waiting(g) => Waiting(g)'
  <1>1. ASSUME NEW g, InRequests(g) PROVE Waiting(g)'
    <2>1. PICK i \in 1..Len(requests) : requests[i].by = g
      BY <1>1 DEF InRequests
    <2>2. CASE i = 1
      <3>1. Len(answers) + 1 \in 1..Len(answers') /\ answers'[Len(answers) + 1].to.by = g
        BY <2>1, <2>2 DEF Lengths, Moved
      <3> QED
        BY <3>1 DEF Waiting, InAnswers
    <2>3. CASE i # 1
      <3>1. i - 1 \in 1..Len(requests')
        BY <2>3 DEF Lengths, Moved
      <3>2. requests'[i - 1] = requests[(i - 1) + 1] /\ (i - 1) + 1 = i
        BY <3>1 DEF Moved
      <3> QED
        BY <2>1, <3>1, <3>2 DEF Waiting, InRequests
    <2> QED
      BY <2>2, <2>3
  <1>2. ASSUME NEW g, InAnswers(g) PROVE Waiting(g)'
    BY <1>2 DEF Lengths, Moved, Waiting, InAnswers
  <1> QED
    BY <1>1, <1>2 DEF Waiting

LEMMA HandledWaits ==
    ASSUME Lengths, Handled
    PROVE  \A g : InAnswers(g) /\ Head(answers).to.by # g => InAnswers(g)'
  <1> SUFFICES ASSUME NEW g, InAnswers(g), Head(answers).to.by # g
               PROVE  InAnswers(g)'
    OBVIOUS
  <1>1. PICK i \in 1..Len(answers) : answers[i].to.by = g
    BY DEF InAnswers
  <1>2. i # 1
    BY <1>1 DEF Handled
  <1>3. i - 1 \in 1..Len(answers')
    BY <1>2 DEF Lengths, Handled
  <1>4. answers'[i - 1] = answers[(i - 1) + 1] /\ (i - 1) + 1 = i
    BY <1>3 DEF Handled
  <1> QED
    BY <1>1, <1>3, <1>4 DEF InAnswers

------------------------------------------------------------------------------
(***************************************************************************)
(* Buttons.                                                                *)
(***************************************************************************)
\* A button that is disabled is owed by a call under way.
ButtonInv ==
    /\ "loadDemo" \in enabled \/ Waiting("loadDemo")
    /\ dataLoaded => "runPlan" \in enabled \/ Waiting("runPlan")

LEMMA ClickButtons ==
    ASSUME PanesTypeOK, PanesTypeOK', ButtonInv,
           \/ LoadDemo \/ RunPlan \/ FixNumber \/ Inspect \/ Preview \/ Commit
           \/ \E v \in View, c \in Choice : ChangeMenu(v, c)
           \/ \E f \in Form : EditForm(f)
           \/ \E m \in Mapping : EditMapping(m)
    PROVE  ButtonInv'
  <1> USE DEF Method, Handler, View
  <1>0. Lengths
    BY QueueLengths
  <1>1. answers' = answers /\ dataLoaded' = dataLoaded
    BY DEF LoadDemo, RunPlan, FixNumber, Inspect, Preview, Commit, ChangeMenu,
           EditForm, EditMapping, Click, plan
  <1>2. /\ LoadDemo => Call("demo.build", "loadDemo")
        /\ RunPlan => Call("scenario.growth", "runPlan")
        /\ "loadDemo" \in enabled => "loadDemo" \in enabled' \/ LoadDemo
        /\ "runPlan" \in enabled => "runPlan" \in enabled' \/ RunPlan
    BY DEF LoadDemo, RunPlan, FixNumber, Inspect, Preview, Commit, ChangeMenu,
           EditForm, EditMapping
  <1>3. (\E m \in Method, h \in Handler : Call(m, h)) \/ requests' = requests
    BY DEF LoadDemo, RunPlan, FixNumber, Inspect, Preview, Commit, ChangeMenu,
           EditForm, EditMapping
  <1>4. \A g : InAnswers(g) => InAnswers(g)'
    BY <1>1 DEF InAnswers
  <1>5. \A g : InRequests(g) => InRequests(g)'
    <2>1. CASE requests' = requests
      BY <2>1 DEF InRequests
    <2>2. ASSUME NEW m \in Method, NEW h \in Handler, Call(m, h)
          PROVE  \A g : InRequests(g) => InRequests(g)'
      BY <1>0, <2>2, CallIs, CallWaits
    <2> QED
      BY <1>3, <2>1, <2>2
  <1>6. /\ LoadDemo => InRequests("loadDemo")'
        /\ RunPlan => InRequests("runPlan")'
    <2>1. ASSUME NEW m \in Method, NEW h \in Handler, Call(m, h) PROVE InRequests(h)'
      <3>1. PICK r \in PageCall : Called(r) /\ r.by = h
        BY <2>1, CallIs
      <3> QED
        BY <1>0, <3>1, CallWaits
    <2> QED
      BY <1>2, <2>1
  <1> QED
    BY <1>1, <1>2, <1>4, <1>5, <1>6 DEF ButtonInv, Waiting
LEMMA BackendButtons ==
    ASSUME PanesTypeOK, ButtonInv, Serve \/ Refuse \/ RefuseImport
    PROVE  ButtonInv'
  <1>1. PICK ok \in BOOLEAN : Reply(ok)
    BY DEF Serve, Refuse, RefuseImport
  <1>2. \A g : Waiting(g) => Waiting(g)'
    <2>1. \E a : Moved(a)
      BY <1>1, AnswerIs
    <2> QED
      BY <2>1, QueueLengths, AnswerWaits
  <1>3. enabled' = enabled /\ dataLoaded' = dataLoaded
    BY <1>1 DEF Reply, plan
  <1> QED
    BY <1>2, <1>3 DEF ButtonInv

\* What every handler that goes on does to the queues.
LEMMA ContinueIs ==
    ASSUME PanesTypeOK, PanesTypeOK', Continues
    PROVE  /\ Handled
           /\ \/ requests' = requests
              \/ \E m \in Method, h \in Handler : Call(m, h)
           /\ UNCHANGED <<fixes, planned>>
  <1>1. answers # <<>> /\ answers' = Tail(answers) /\ UNCHANGED <<fixes, planned>>
    BY DEF Continues, DemoBuilt, RunFailed, GrowthSet, PlanAnswered, OverridesShown, RisksShown,
           OrdersShown, MenuAnswered, NumberFixed, FixShown, Inspected, PreviewShown, Imported,
           Answered, backend
  <1>2. requests' = requests \/ \E m \in Method, h \in Handler : Call(m, h)
    BY DEF Continues, DemoBuilt, RunFailed, GrowthSet, PlanAnswered, OverridesShown, RisksShown,
           OrdersShown, MenuAnswered, NumberFixed, FixShown, Inspected, PreviewShown, Imported,
           Method, Handler, View
  <1> QED
    BY <1>1, <1>2, TakingIs

LEMMA ContinueButtons ==
    ASSUME PanesTypeOK, PanesTypeOK', ButtonInv, Continues
    PROVE  ButtonInv'
  <1>0. Lengths /\ Handled
    BY QueueLengths, ContinueIs
  <1>1. /\ "loadDemo" \in enabled => "loadDemo" \in enabled'
        /\ "runPlan" \in enabled => "runPlan" \in enabled'
        /\ dataLoaded' = dataLoaded \/ "runPlan" \in enabled'
    BY DEF Continues, DemoBuilt, RunFailed, GrowthSet, PlanAnswered, OverridesShown, RisksShown,
           OrdersShown, MenuAnswered, NumberFixed, FixShown, Inspected, PreviewShown, Imported,
           plan
  <1>2. /\ Head(answers).to.by = "loadDemo" => "loadDemo" \in enabled'
        /\ Head(answers).to.by = "runPlan" =>
             "runPlan" \in enabled' \/ \E m \in Method : Call(m, "runPlan")
    BY DEF Continues, DemoBuilt, RunFailed, GrowthSet, PlanAnswered, OverridesShown, RisksShown,
           OrdersShown, MenuAnswered, NumberFixed, FixShown, Inspected, PreviewShown, Imported,
           Answered, Method, View
  <1>3. \A m \in Method, h \in Handler :
            Call(m, h) => InRequests(h)' /\ \A g : InRequests(g) => InRequests(g)'
    <2>1. SUFFICES ASSUME NEW m \in Method, NEW h \in Handler, Call(m, h)
                   PROVE  InRequests(h)' /\ \A g : InRequests(g) => InRequests(g)'
      OBVIOUS
    <2>2. PICK r \in PageCall : Called(r) /\ r.by = h
      BY <2>1, CallIs
    <2> QED
      BY <1>0, <2>2, CallWaits
  <1>4. \A g : InRequests(g) => InRequests(g)'
    BY <1>3, ContinueIs DEF InRequests
  <1>5. \A g : InAnswers(g) /\ Head(answers).to.by # g => InAnswers(g)'
    BY <1>0, HandledWaits
  <1>6. Head(answers).to.by = "runPlan" => "runPlan" \in enabled' \/ InRequests("runPlan")'
    BY <1>2, <1>3 DEF Handler
  <1> QED
    BY <1>1, <1>2, <1>4, <1>5, <1>6 DEF ButtonInv, Waiting

LEMMA ButtonsInvariant == PanesSpec => [](PanesTypeOK /\ ButtonInv)
  <1>1. PanesInit => ButtonInv
    BY Zenon DEF PanesInit, ButtonInv
  <1>2. PanesTypeOK /\ ButtonInv /\ [PanesNext]_paneVars => ButtonInv'
    <2> SUFFICES ASSUME PanesTypeOK, ButtonInv, [PanesNext]_paneVars PROVE ButtonInv'
      OBVIOUS
    <2>1. PanesTypeOK'
      BY StepTypeOK
    <2>2. CASE Progress \/ UNCHANGED paneVars
      BY <2>2 DEF Progress, paneVars, plan, ButtonInv, Waiting, InRequests, InAnswers
    <2> QED
      BY <2>1, <2>2, ClickButtons, BackendButtons, ContinueButtons DEF PanesNext, Continues
  <1> QED
    BY <1>1, <1>2, PanesTypeCorrect, PTL DEF PanesSpec

\* However handlers overlap and whatever the backend refuses: when nothing is under
\* way, demonstration data can be loaded, and with data loaded a plan can be run.
THEOREM ButtonsAlwaysComeBack == PanesSpec => []ButtonsComeBack
  <1>1. PanesTypeOK /\ ButtonInv => ButtonsComeBack
    BY DEF ButtonInv, ButtonsComeBack, Quiet, Waiting, InRequests, InAnswers
  <1> QED
    BY <1>1, ButtonsInvariant, PTL

------------------------------------------------------------------------------
(***************************************************************************)
(* Fixed quantities.                                                       *)
(***************************************************************************)
PlanAnswer(a) == a.to.method = "plan.run" /\ a.ok

FixAnswer(a) ==
    \/ a.to.method = "override.set" /\ a.ok
    \/ a.to.method = "override.list" /\ a.to.by = "fix"

FixRequest ==
    \E i \in 1..Len(requests) : requests[i].method = "override.list" /\ requests[i].by = "fix"

\* A fix the last plan has not seen is still to be announced: by an answer no plan's
\* answer comes after, or by a call, unless it has been.
Announces(i) ==
    FixAnswer(answers[i]) /\ \A j \in 1..Len(answers) : j > i => ~PlanAnswer(answers[j])

Announced ==
    /\ \A j \in 1..Len(answers) : ~PlanAnswer(answers[j])
    /\ note # "done" \/ FixRequest

FixInv ==
    planned # fixes => (\E i \in 1..Len(answers) : Announces(i)) \/ Announced

LEMMA CallKeepsFix ==
    ASSUME Lengths, NEW r, Called(r)
    PROVE  /\ FixRequest => FixRequest'
           /\ r.method = "override.list" /\ r.by = "fix" => FixRequest'
  BY DEF Lengths, Called, FixRequest

LEMMA BackendFixes ==
    ASSUME PanesTypeOK, FixInv, Serve \/ Refuse \/ RefuseImport
    PROVE  FixInv'
  <1>1. PICK ok \in BOOLEAN :
            /\ Reply(ok)
            /\ ok => Serve
            /\ ~ok => /\ UNCHANGED <<fixes, planned>>
                      /\ Head(requests).method # "override.list"
    BY DEF Serve, Refuse, RefuseImport, Rejected
  <1>2. PICK a : Moved(a) /\ a.to = requests[1] /\ a.ok = ok
    <2> DEFINE x == [to |-> requests[1], ok |-> ok, run |-> runs']
    <2>1. Moved(x)
      BY <1>1, AnswerIs
    <2>2. x.to = requests[1] /\ x.ok = ok
      OBVIOUS
    <2> HIDE DEF x
    <2> QED
      BY <2>1, <2>2
  <1>3. Lengths /\ requests[1] = Head(requests) /\ note' = note
    <2>1. requests \in Seq(PageCall) /\ requests # <<>>
      BY <1>1 DEF PanesTypeOK, Reply
    <2> QED
      BY <1>1, <2>1, Taken, QueueLengths DEF Reply, plan
  <1>4. PICK k \in 1..Len(answers') : k = Len(answers) + 1 /\ answers'[k] = a
    BY <1>2, <1>3 DEF Moved, Lengths
  <1>5. CASE PlanAnswer(a)
    BY <1>1, <1>2, <1>3, <1>5 DEF PlanAnswer, Serve, Computes, Fixing, FixInv
  <1>6. CASE FixAnswer(a)
    <2>1. \A j \in 1..Len(answers') : ~(j > k)
      BY <1>2, <1>3, <1>4 DEF Moved, Lengths
    <2>2. Announces(k)'
      BY <1>4, <1>6, <2>1 DEF Announces
    <2> QED
      BY <1>4, <2>2 DEF FixInv
  <1>7. CASE ~PlanAnswer(a) /\ ~FixAnswer(a)
    <2>1. UNCHANGED <<fixes, planned>>
      BY <1>1, <1>2, <1>3, <1>7 DEF Serve, Computes, Fixing, PlanAnswer, FixAnswer
    <2>2. \A j \in 1..Len(answers') : j \in 1..Len(answers) \/ answers'[j] = a
      BY <1>2, <1>3 DEF Moved, Lengths
    <2>3. \A j \in 1..Len(answers) : answers'[j] = answers[j] /\ j \in 1..Len(answers')
      BY <1>2, <1>3 DEF Moved, Lengths
    <2>4. ASSUME NEW i \in 1..Len(answers), Announces(i)
          PROVE  i \in 1..Len(answers') /\ Announces(i)'
      BY <1>7, <2>2, <2>3, <2>4 DEF Announces
    <2>5. ASSUME Announced PROVE Announced'
      <3>1. \A j \in 1..Len(answers') : ~PlanAnswer(answers'[j])
        BY <1>7, <2>2, <2>3, <2>5 DEF Announced
      <3>2. ASSUME FixRequest PROVE FixRequest'
        <4>1. PICK i \in 1..Len(requests) :
                  requests[i].method = "override.list" /\ requests[i].by = "fix"
          BY <3>2 DEF FixRequest
        <4>2. i # 1
          BY <1>2, <1>7, <4>1 DEF FixAnswer
        <4>3. i - 1 \in 1..Len(requests')
          BY <1>2, <1>3, <4>2 DEF Moved, Lengths
        <4>4. requests'[i - 1] = requests[(i - 1) + 1] /\ (i - 1) + 1 = i
          BY <1>2, <4>3 DEF Moved
        <4> QED
          BY <4>1, <4>3, <4>4 DEF FixRequest
      <3> QED
        BY <1>3, <2>5, <3>1, <3>2 DEF Announced
    <2> QED
      BY <2>1, <2>4, <2>5 DEF FixInv
  <1> QED
    BY <1>5, <1>6, <1>7

LEMMA ContinueFixes ==
    ASSUME PanesTypeOK, PanesTypeOK', FixInv, Continues
    PROVE  FixInv'
  <1>0. Lengths /\ Handled /\ UNCHANGED <<fixes, planned>>
    BY QueueLengths, ContinueIs
  <1>1. /\ note' = "done" => note = "done" \/ PlanAnswer(Head(answers))
        /\ FixAnswer(Head(answers)) => note' = "fixed" \/ Call("override.list", "fix")
    BY DEF Continues, DemoBuilt, RunFailed, GrowthSet, PlanAnswered, OverridesShown, RisksShown,
           OrdersShown, MenuAnswered, NumberFixed, FixShown, Inspected, PreviewShown, Imported,
           Answered, Granted, PlanAnswer, FixAnswer, plan, View
  <1>2. /\ FixRequest => FixRequest'
        /\ Call("override.list", "fix") => FixRequest'
    <2>1. \A m \in Method, h \in Handler : Call(m, h) =>
              /\ FixRequest => FixRequest'
              /\ m = "override.list" /\ h = "fix" => FixRequest'
      BY <1>0, CallIs, CallKeepsFix
    <2> QED
      BY <2>1, ContinueIs DEF FixRequest, Method, Handler
  <1>3. \A j \in 1..Len(answers') : /\ answers'[j] = answers[j + 1]
                                   /\ j + 1 \in 1..Len(answers)
    BY <1>0 DEF Handled, Lengths
  <1>4. Head(answers) = answers[1] /\ 1 \in 1..Len(answers)
    BY <1>0 DEF Handled, Lengths
  <1>5. ASSUME NEW i \in 1..Len(answers), Announces(i), i # 1
        PROVE  i - 1 \in 1..Len(answers') /\ Announces(i - 1)'
    <2>1. i - 1 \in 1..Len(answers')
      BY <1>0, <1>5 DEF Handled, Lengths
    <2>2. answers'[i - 1] = answers[(i - 1) + 1] /\ (i - 1) + 1 = i
      BY <1>3, <2>1
    <2>3. \A j \in 1..Len(answers') : j > i - 1 => ~PlanAnswer(answers'[j])
      <3>1. i \in Int /\ \A j \in 1..Len(answers') : j \in Int /\ (j > i - 1 => j + 1 > i)
        BY <1>0, <1>5 DEF Lengths
      <3> QED
        BY <1>3, <1>5, <3>1 DEF Announces
    <2> QED
      BY <1>5, <2>1, <2>2, <2>3 DEF Announces
  <1>6. ASSUME Announces(1) PROVE Announced'
    <2>1. \A j \in 1..Len(answers') : ~PlanAnswer(answers'[j])
      BY <1>3, <1>6 DEF Announces
    <2>2. note' # "done" \/ FixRequest'
      BY <1>1, <1>2, <1>4, <1>6 DEF Announces
    <2> QED
      BY <2>1, <2>2 DEF Announced
  <1>7. ASSUME Announced PROVE Announced'
    <2>1. \A j \in 1..Len(answers') : ~PlanAnswer(answers'[j])
      BY <1>3, <1>7 DEF Announced
    <2>2. note' # "done" \/ FixRequest'
      BY <1>1, <1>2, <1>4, <1>7 DEF Announced
    <2> QED
      BY <2>1, <2>2 DEF Announced
  <1> QED
    BY <1>0, <1>5, <1>6, <1>7 DEF FixInv

LEMMA ClickFixes ==
    ASSUME PanesTypeOK, PanesTypeOK', FixInv,
           \/ LoadDemo \/ RunPlan \/ FixNumber \/ Inspect \/ Preview \/ Commit
           \/ \E v \in View, c \in Choice : ChangeMenu(v, c)
           \/ \E f \in Form : EditForm(f)
           \/ \E m \in Mapping : EditMapping(m)
    PROVE  FixInv'
  <1>1. UNCHANGED <<answers, fixes, planned, note>>
    BY DEF LoadDemo, RunPlan, FixNumber, Inspect, Preview, Commit, ChangeMenu,
           EditForm, EditMapping, Click, plan, backend
  <1>2. (\E m \in Method, h \in Handler : Call(m, h)) \/ requests' = requests
    BY DEF LoadDemo, RunPlan, FixNumber, Inspect, Preview, Commit, ChangeMenu,
           EditForm, EditMapping, Method, Handler, View
  <1>3. FixRequest => FixRequest'
    BY <1>2, CallIs, CallKeepsFix, QueueLengths DEF FixRequest
  <1> QED
    BY <1>1, <1>3 DEF FixInv, Announces, Announced

LEMMA FixesInvariant == PanesSpec => [](PanesTypeOK /\ FixInv)
  <1>1. PanesInit => FixInv
    BY Zenon DEF PanesInit, FixInv
  <1>2. PanesTypeOK /\ FixInv /\ [PanesNext]_paneVars => FixInv'
    <2> SUFFICES ASSUME PanesTypeOK, FixInv, [PanesNext]_paneVars PROVE FixInv'
      OBVIOUS
    <2>1. PanesTypeOK'
      BY StepTypeOK
    <2>2. CASE Progress
      BY <2>2 DEF Progress, backend, FixInv, Announces, Announced
    <2>3. CASE UNCHANGED paneVars
      BY <2>3 DEF paneVars, plan, backend, FixInv, Announces, Announced, FixRequest
    <2> QED
      BY <2>1, <2>2, <2>3, ClickFixes, BackendFixes, ContinueFixes DEF PanesNext, Continues
  <1> QED
    BY <1>1, <1>2, PanesTypeCorrect, PTL DEF PanesSpec

\* "Done." never stands on the screen, with nothing under way, over a plan that does
\* not know of a quantity fixed since.
THEOREM FixesAreAlwaysAnnounced == PanesSpec => []FixesAreAnnounced
  <1>1. PanesTypeOK /\ FixInv => FixesAreAnnounced
    BY DEF FixInv, FixesAreAnnounced, Quiet, Announced, FixRequest
  <1> QED
    BY <1>1, FixesInvariant, PTL
------------------------------------------------------------------------------
(***************************************************************************)
(* One plan on the screen.                                                 *)
(***************************************************************************)
\* Answers come in the order of the plans they speak of, and the screen shows no
\* later plan than they do.
Ordered ==
    \A i \in 1..Len(answers) :
        /\ \A j \in 1..Len(answers) : i < j => answers[i].run <= answers[j].run
        /\ verdict <= answers[i].run
        /\ \A v \in View : section[v].run <= answers[i].run

\* The answer of the last plan, here or after an older plan's.
LastFrom(i) ==
    \E j \in 1..Len(answers) : i <= j /\ PlanAnswer(answers[j]) /\ answers[j].run = runs

VerdictInv ==
    complete =>
        /\ \A i \in 1..Len(answers) : PlanAnswer(answers[i]) => LastFrom(i)
        /\ verdict # 0 => verdict = runs \/ LastFrom(1)

\* What a run calls up to the answer that shows a list.
Before(v) ==
    {"override.list", "plan.risks"} \cup (IF v = "plan.orders" THEN {"plan.orders"} ELSE {})

RequestBefore(v) ==
    \E i \in 1..Len(requests) : requests[i].by = "runPlan" /\ requests[i].method \in Before(v)

AnswerBefore(v) ==
    \E i \in 1..Len(answers) :
        /\ answers[i].to.by = "runPlan" /\ answers[i].to.method \in Before(v)
        /\ answers[i].run = runs

Current(v) == section[v].visible /\ section[v].run = runs

\* A list beside the last plan's verdict is of that plan or will be.
ListInv ==
    complete /\ verdict # 0 /\ verdict = runs =>
        \A v \in View : Current(v) \/ RequestBefore(v) \/ AnswerBefore(v)

\* The last call for a list asks for what its menu says, and so does a list nothing
\* is under way for.
LastRequest(v, i) == \A j \in 1..Len(requests) : j > i => requests[j].method # v
LastAnswer(v, i) == \A j \in 1..Len(answers) : j > i => answers[j].to.method # v

ListRequested(v) ==
    \E i \in 1..Len(requests) :
        requests[i].method = v /\ requests[i].choice = choice[v] /\ LastRequest(v, i)

ListAnswered(v) ==
    /\ LastRequest(v, 0)
    /\ \E i \in 1..Len(answers) :
           answers[i].to.method = v /\ answers[i].to.choice = choice[v] /\ LastAnswer(v, i)

ListShown(v) ==
    /\ LastRequest(v, 0) /\ LastAnswer(v, 0)
    /\ section[v].visible => section[v].choice = choice[v]

MenuInv == \A v \in View : ListRequested(v) \/ ListAnswered(v) \/ ListShown(v)

\* What a click leaves: at most one call more, and the screen as it was or cleared
\* for a run.
LEMMA ClickScreen ==
    ASSUME PanesTypeOK,
           \/ LoadDemo \/ RunPlan \/ FixNumber \/ Inspect \/ Preview \/ Commit
           \/ \E v \in View, c \in Choice : ChangeMenu(v, c)
           \/ \E f \in Form : EditForm(f)
           \/ \E m \in Mapping : EditMapping(m)
    PROVE  /\ UNCHANGED <<answers, runs, complete>>
           /\ requests' = requests \/ \E m \in Method, h \in Handler : Call(m, h)
           /\ verdict' = 0 \/ UNCHANGED <<verdict, section>>
           /\ verdict' = 0 \/ verdict' = verdict
           /\ \A v \in View : /\ section'[v].run = section[v].run
                              /\ section'[v].choice = section[v].choice
                              /\ section'[v].visible => section[v].visible
           /\ \A v \in View : choice'[v] = choice[v] \/ Call(v, "menu")
  <1>0. ListType /\ choice \in [View -> Choice]
    BY Types DEF ScreenType
  <1>1. CASE RunPlan
    <2>1. /\ UNCHANGED <<answers, runs, complete>> /\ verdict' = 0 /\ choice' = choice
          /\ Call("scenario.growth", "runPlan")
          /\ section' = [v \in View |-> [section[v] EXCEPT !.visible = FALSE]]
      BY <1>1 DEF RunPlan, Click, backend
    <2>2. \A v \in View : /\ section'[v].run = section[v].run
                          /\ section'[v].choice = section[v].choice
                          /\ section'[v].visible = FALSE
      BY <1>0, <2>1 DEF ListType
    <2> QED
      BY <2>1, <2>2 DEF Method, Handler
  <1>2. CASE \E v \in View, c \in Choice : ChangeMenu(v, c)
    <2>1. PICK w \in View, c \in Choice : ChangeMenu(w, c)
      BY <1>2
    <2>2. /\ UNCHANGED <<answers, runs, complete, verdict, section>>
          /\ Call(w, "menu") /\ choice' = [choice EXCEPT ![w] = c]
      BY <2>1 DEF ChangeMenu, Click, backend
    <2>3. \A v \in View : choice'[v] = choice[v] \/ v = w
      BY <1>0, <2>2
    <2> QED
      BY <2>2, <2>3 DEF Method, Handler
  <1>3. CASE \/ LoadDemo \/ FixNumber \/ Inspect \/ Preview \/ Commit
             \/ \E f \in Form : EditForm(f)
             \/ \E m \in Mapping : EditMapping(m)
    <2>1. UNCHANGED <<answers, runs, complete, verdict, section, choice>>
      BY <1>3 DEF LoadDemo, FixNumber, Inspect, Preview, Commit, EditForm, EditMapping,
                  Click, backend, plan
    <2>2. requests' = requests \/ \E m \in Method, h \in Handler : Call(m, h)
      BY <1>3 DEF LoadDemo, FixNumber, Inspect, Preview, Commit, EditForm, EditMapping,
                  Method, Handler
    <2> QED
      BY <2>1, <2>2
  <1> QED
    BY <1>1, <1>2, <1>3

\* What an answer of the backend leaves: the first request moves to the answers, with
\* the number of plans run by then.
LEMMA BackendIs ==
    ASSUME PanesTypeOK, Serve \/ Refuse \/ RefuseImport
    PROVE  \E a : /\ Moved(a) /\ a.run = runs' /\ a.ok \in BOOLEAN
                  /\ UNCHANGED <<verdict, section, choice>>
                  /\ a.to.method = "plan.run" => runs' = runs + 1 /\ complete' = a.ok
                  /\ a.to.method # "plan.run" => UNCHANGED <<runs, complete>>
  <1>1. PICK ok \in BOOLEAN : Reply(ok)
    BY DEF Serve, Refuse, RefuseImport
  <1> DEFINE a == [to |-> requests[1], ok |-> ok, run |-> runs']
  <1>2. Moved(a)
    BY <1>1, AnswerIs
  <1>3. requests[1] = Head(requests)
    <2>1. requests \in Seq(PageCall) /\ requests # <<>>
      BY <1>1 DEF PanesTypeOK, Reply
    <2> QED
      BY <2>1, Taken
  <1>4. /\ a.run = runs' /\ a.ok = ok /\ a.to = requests[1]
        /\ UNCHANGED <<verdict, section, choice>>
    BY <1>1 DEF Reply, plan
  <1>5. /\ requests[1].method = "plan.run" => runs' = runs + 1 /\ complete' = ok
        /\ requests[1].method # "plan.run" => UNCHANGED <<runs, complete>>
    BY <1>1, <1>3 DEF Reply, Computes
  <1> HIDE DEF a
  <1> QED
    BY <1>2, <1>4, <1>5

\* What a handler that goes on does to the queues and the counters.
LEMMA ContinueScreen ==
    ASSUME PanesTypeOK, PanesTypeOK', Continues
    PROVE  /\ Handled /\ Lengths
           /\ requests' = requests \/ \E m \in Method, h \in Handler : Call(m, h)
           /\ UNCHANGED <<runs, complete, choice>>
           /\ IF PlanAnswer(answers[1])
              THEN /\ verdict' = answers[1].run
                   /\ Call("override.list", "runPlan")
              ELSE verdict' = verdict
           /\ IF answers[1].to.method \in View
              THEN section' = [section EXCEPT ![answers[1].to.method] =
                       [visible |-> TRUE, run |-> answers[1].run,
                        choice |-> answers[1].to.choice]]
              ELSE section' = section
           /\ answers[1].to.by = "runPlan" =>
                 /\ answers[1].to.method = "override.list" => Call("plan.risks", "runPlan")
                 /\ answers[1].to.method = "plan.risks" => Call("plan.orders", "runPlan")
  <1>1. Handled /\ Lengths /\ Head(answers) = answers[1]
    BY ContinueIs, QueueLengths DEF Handled
  <1>2. UNCHANGED <<runs, complete, choice>>
    BY DEF Continues, DemoBuilt, RunFailed, GrowthSet, PlanAnswered, OverridesShown, RisksShown,
           OrdersShown, MenuAnswered, NumberFixed, FixShown, Inspected, PreviewShown, Imported,
           Answered, backend, plan
  <1>3. IF PlanAnswer(Head(answers))
        THEN verdict' = Head(answers).run /\ Call("override.list", "runPlan")
        ELSE verdict' = verdict
    BY DEF Continues, DemoBuilt, RunFailed, GrowthSet, PlanAnswered, OverridesShown, RisksShown,
           OrdersShown, MenuAnswered, NumberFixed, FixShown, Inspected, PreviewShown, Imported,
           Answered, Granted, PlanAnswer, plan, View
  <1>4. IF Head(answers).to.method \in View
        THEN Shown(Head(answers).to.method)
        ELSE section' = section
    BY DEF Continues, DemoBuilt, RunFailed, GrowthSet, PlanAnswered, OverridesShown, RisksShown,
           OrdersShown, MenuAnswered, NumberFixed, FixShown, Inspected, PreviewShown, Imported,
           Answered, plan, View
  <1>5. Head(answers).to.by = "runPlan" =>
            /\ Head(answers).to.method = "override.list" => Call("plan.risks", "runPlan")
            /\ Head(answers).to.method = "plan.risks" => Call("plan.orders", "runPlan")
    BY DEF Continues, DemoBuilt, RunFailed, GrowthSet, PlanAnswered, OverridesShown, RisksShown,
           OrdersShown, MenuAnswered, NumberFixed, FixShown, Inspected, PreviewShown, Imported,
           Answered
  <1> QED
    BY <1>1, <1>2, <1>3, <1>4, <1>5, ContinueIs DEF Shown

\* Where the answers come to stand: when one more comes, and when one is handled.
LEMMA AnswerCame ==
    ASSUME Lengths, NEW a, Moved(a)
    PROVE  /\ \A i \in 1..Len(answers) : i \in 1..Len(answers') /\ answers'[i] = answers[i]
           /\ Len(answers') \in 1..Len(answers') /\ answers'[Len(answers')] = a
           /\ \A i \in 1..Len(answers') :
                 i <= Len(answers') /\ (i \in 1..Len(answers) \/ i = Len(answers'))
  BY DEF Lengths, Moved

LEMMA AnswerGone ==
    ASSUME Lengths, Handled
    PROVE  /\ 1 \in 1..Len(answers)
           /\ \A i \in 1..Len(answers') : i + 1 \in 1..Len(answers) /\ answers'[i] = answers[i + 1]
           /\ \A i \in 1..Len(answers) : i # 1 =>
                 i - 1 \in 1..Len(answers') /\ answers'[i - 1] = answers[i]
  <1>1. /\ 1 \in 1..Len(answers)
        /\ \A i \in 1..Len(answers') : i + 1 \in 1..Len(answers)
        /\ \A i \in 1..Len(answers) : i # 1 => i - 1 \in 1..Len(answers') /\ (i - 1) + 1 = i
    BY DEF Lengths, Handled
  <1> QED
    BY <1>1 DEF Handled

LEMMA RunTypes ==
    ASSUME PanesTypeOK
    PROVE  /\ runs \in Nat /\ verdict \in 0..runs /\ complete \in BOOLEAN
           /\ \A v \in View : section[v].run \in 0..runs
           /\ \A i \in 1..Len(answers) : answers[i].run \in 0..runs
  <1>1. ScreenType /\ ListType /\ QueueType
    BY Types
  <1>2. \A v \in View : section[v].run \in 0..runs
    BY <1>1 DEF ListType
  <1>3. ASSUME NEW i \in 1..Len(answers) PROVE answers[i].run \in 0..runs
    <2>1. answers[i] \in AnswerType /\ answers[i].run <= runs
      BY <1>1, Indices, ElementOfSeq DEF QueueType
    <2>2. answers[i].run \in Nat
      BY <2>1 DEF AnswerType
    <2>3. runs \in Nat
      BY <1>1 DEF ScreenType
    <2> QED
      BY <2>1, <2>2, <2>3
  <1> QED
    BY <1>1, <1>2, <1>3 DEF ScreenType

------------------------------------------------------------------------------
LEMMA ClickOrdered ==
    ASSUME PanesTypeOK, Ordered,
           /\ answers' = answers
           /\ verdict' = 0 \/ verdict' = verdict
           /\ \A v \in View : section'[v].run = section[v].run
    PROVE  Ordered'
  <1>1. \A i \in 1..Len(answers) : answers[i].run \in Nat
    BY RunTypes
  <1>2. \A i \in 1..Len(answers) : verdict' <= answers[i].run
    BY <1>1 DEF Ordered
  <1>3. ASSUME NEW i \in 1..Len(answers')
        PROVE  /\ \A j \in 1..Len(answers') : i < j => answers'[i].run <= answers'[j].run
               /\ verdict' <= answers'[i].run
               /\ \A v \in View : section'[v].run <= answers'[i].run
    BY <1>2, <1>3 DEF Ordered
  <1> QED
    BY <1>3 DEF Ordered

LEMMA BackendOrdered ==
    ASSUME PanesTypeOK, PanesTypeOK', Ordered, Serve \/ Refuse \/ RefuseImport
    PROVE  Ordered'
  <1>1. PICK a : /\ Moved(a) /\ a.run = runs' /\ UNCHANGED <<verdict, section>>
                 /\ runs' = runs + 1 \/ runs' = runs
    BY BackendIs
  <1>2. \A i \in 1..Len(answers) : i \in 1..Len(answers') /\ answers'[i] = answers[i]
    BY <1>1, AnswerCame, QueueLengths
  <1>3. \A i \in 1..Len(answers') :
            i <= Len(answers') /\ (i \in 1..Len(answers) \/ i = Len(answers'))
    BY <1>1, AnswerCame, QueueLengths
  <1>4. answers'[Len(answers')].run = runs' /\ Len(answers') \in 1..Len(answers')
    BY <1>1, AnswerCame, QueueLengths
  <1>5. /\ verdict' <= runs' /\ runs' <= runs'
        /\ \A v \in View : section'[v].run <= runs'
        /\ \A i \in 1..Len(answers) : answers[i].run <= runs'
    <2>1. /\ runs \in Nat /\ verdict \in 0..runs
          /\ \A v \in View : section[v].run \in 0..runs
          /\ \A i \in 1..Len(answers) : answers[i].run \in 0..runs
      BY RunTypes
    <2> QED
      BY <1>1, <2>1
  <1>6. ASSUME NEW i \in 1..Len(answers')
        PROVE  /\ \A j \in 1..Len(answers') : i < j => answers'[i].run <= answers'[j].run
               /\ verdict' <= answers'[i].run
               /\ \A v \in View : section'[v].run <= answers'[i].run
    <2>1. CASE i = Len(answers')
      <3>1. \A j \in 1..Len(answers') : ~(i < j)
        BY <1>3, <2>1
      <3> QED
        BY <1>4, <1>5, <2>1, <3>1
    <2>2. CASE i \in 1..Len(answers)
      <3>1. ASSUME NEW j \in 1..Len(answers'), i < j
            PROVE  answers'[i].run <= answers'[j].run
        <4>1. CASE j = Len(answers')
          BY <1>2, <1>4, <1>5, <2>2, <4>1
        <4>2. CASE j \in 1..Len(answers)
          BY <1>2, <2>2, <3>1, <4>2 DEF Ordered
        <4> QED
          BY <1>3, <4>1, <4>2
      <3>2. verdict' <= answers'[i].run /\ \A v \in View : section'[v].run <= answers'[i].run
        BY <1>1, <1>2, <2>2 DEF Ordered
      <3> QED
        BY <3>1, <3>2
    <2> QED
      BY <1>3, <2>1, <2>2
  <1> QED
    BY <1>6 DEF Ordered

LEMMA ContinueOrdered ==
    ASSUME PanesTypeOK, PanesTypeOK', Ordered, Continues
    PROVE  Ordered'
  <1>1. /\ Handled /\ Lengths
        /\ verdict' = answers[1].run \/ verdict' = verdict
    BY ContinueScreen
  <1>2. \A v \in View : section'[v].run = answers[1].run \/ section'[v].run = section[v].run
    <2>1. section \in [View -> [visible : BOOLEAN, run : 0..runs, choice : Choice]]
      BY DEF PanesTypeOK
    <2> QED
      BY <2>1, ContinueScreen
  <1>3. /\ 1 \in 1..Len(answers)
        /\ \A i \in 1..Len(answers') : i + 1 \in 1..Len(answers) /\ answers'[i] = answers[i + 1]
    BY <1>1, AnswerGone
  <1>4. ASSUME NEW i \in 1..Len(answers')
        PROVE  /\ \A j \in 1..Len(answers') : i < j => answers'[i].run <= answers'[j].run
               /\ verdict' <= answers'[i].run
               /\ \A v \in View : section'[v].run <= answers'[i].run
    <2>1. answers[1].run <= answers[i + 1].run
      <3>1. 1 < i + 1
        BY <1>1, <1>4
      <3> QED
        BY <1>3, <3>1 DEF Ordered
    <2>2. ASSUME NEW j \in 1..Len(answers'), i < j
          PROVE  answers'[i].run <= answers'[j].run
      <3>1. i + 1 < j + 1
        BY <1>1, <2>2
      <3> QED
        BY <1>3, <3>1 DEF Ordered
    <2>3. verdict' <= answers'[i].run
      BY <1>1, <1>3, <2>1 DEF Ordered
    <2>4. \A v \in View : section'[v].run <= answers'[i].run
      BY <1>2, <1>3, <2>1 DEF Ordered
    <2> QED
      BY <2>2, <2>3, <2>4
  <1> QED
    BY <1>4 DEF Ordered

------------------------------------------------------------------------------
LEMMA BackendVerdict ==
    ASSUME PanesTypeOK, PanesTypeOK', VerdictInv, Serve \/ Refuse \/ RefuseImport
    PROVE  VerdictInv'
  <1>1. PICK a : /\ Moved(a) /\ a.run = runs' /\ verdict' = verdict /\ a.ok \in BOOLEAN
                 /\ a.to.method = "plan.run" => complete' = a.ok
                 /\ a.to.method # "plan.run" => UNCHANGED <<runs, complete>>
    BY BackendIs
  <1>2. PICK k \in 1..Len(answers') :
            /\ answers'[k] = a
            /\ \A i \in 1..Len(answers') : i <= k /\ (i \in 1..Len(answers) \/ i = k)
    BY <1>1, AnswerCame, QueueLengths
  <1>3. \A i \in 1..Len(answers) : i \in 1..Len(answers') /\ answers'[i] = answers[i]
    BY <1>1, AnswerCame, QueueLengths
  <1> SUFFICES ASSUME complete'
               PROVE  /\ \A i \in 1..Len(answers') : PlanAnswer(answers'[i]) => LastFrom(i)'
                      /\ verdict' # 0 => verdict' = runs' \/ LastFrom(1)'
    BY DEF VerdictInv
  <1>4. CASE a.to.method = "plan.run"
    <2>1. PlanAnswer(answers'[k]) /\ answers'[k].run = runs'
      BY <1>1, <1>2, <1>4 DEF PlanAnswer
    <2>2. \A i \in 1..Len(answers') : LastFrom(i)'
      BY <1>2, <2>1 DEF LastFrom
    <2>3. 1 \in 1..Len(answers')
      BY <1>2
    <2> QED
      BY <2>2, <2>3
  <1>5. CASE a.to.method # "plan.run"
    <2>1. \A i : LastFrom(i) => LastFrom(i)'
      BY <1>1, <1>3, <1>5 DEF LastFrom
    <2>2. ~PlanAnswer(a) /\ complete /\ UNCHANGED <<verdict, runs>>
      BY <1>1, <1>5 DEF PlanAnswer
    <2> QED
      BY <1>2, <1>3, <2>1, <2>2 DEF VerdictInv
  <1> QED
    BY <1>4, <1>5

LEMMA ContinueVerdict ==
    ASSUME PanesTypeOK, PanesTypeOK', VerdictInv, Continues
    PROVE  VerdictInv'
  <1>1. /\ Handled /\ Lengths /\ UNCHANGED <<runs, complete>>
        /\ PlanAnswer(answers[1]) => verdict' = answers[1].run
        /\ ~PlanAnswer(answers[1]) => verdict' = verdict
    BY ContinueScreen
  <1>2. /\ 1 \in 1..Len(answers)
        /\ \A i \in 1..Len(answers') : i + 1 \in 1..Len(answers) /\ answers'[i] = answers[i + 1]
        /\ \A i \in 1..Len(answers) : i # 1 =>
              i - 1 \in 1..Len(answers') /\ answers'[i - 1] = answers[i]
    BY <1>1, AnswerGone
  <1> SUFFICES ASSUME complete
               PROVE  /\ \A i \in 1..Len(answers') : PlanAnswer(answers'[i]) => LastFrom(i)'
                      /\ verdict' # 0 => verdict' = runs' \/ LastFrom(1)'
    BY <1>1 DEF VerdictInv
  <1>3. ASSUME NEW j \in 1..Len(answers), j # 1, NEW i \in 1..Len(answers'), i <= j - 1,
               PlanAnswer(answers[j]), answers[j].run = runs
        PROVE  LastFrom(i)'
    BY <1>1, <1>2, <1>3 DEF LastFrom
  <1>4. ASSUME NEW i \in 1..Len(answers'), PlanAnswer(answers'[i])
        PROVE  LastFrom(i)'
    <2>1. PICK j \in 1..Len(answers) :
              i + 1 <= j /\ PlanAnswer(answers[j]) /\ answers[j].run = runs
      BY <1>2, <1>4 DEF VerdictInv, LastFrom
    <2>2. j # 1 /\ i <= j - 1
      BY <1>1, <2>1
    <2> QED
      BY <1>3, <2>1, <2>2
  <1>5. ASSUME LastFrom(1), ~(PlanAnswer(answers[1]) /\ answers[1].run = runs)
        PROVE  LastFrom(1)'
    <2>1. PICK j \in 1..Len(answers) : PlanAnswer(answers[j]) /\ answers[j].run = runs
      BY <1>5 DEF LastFrom
    <2>2. j # 1 /\ j - 1 \in 1..Len(answers')
      BY <1>2, <1>5, <2>1
    <2>3. 1 \in 1..Len(answers') /\ 1 <= j - 1
      BY <1>1, <2>2
    <2> QED
      BY <1>3, <2>1, <2>2, <2>3
  <1>6. verdict' # 0 => verdict' = runs' \/ LastFrom(1)'
    <2>1. CASE PlanAnswer(answers[1])
      <3>1. LastFrom(1)
        BY <1>2, <2>1 DEF VerdictInv
      <3> QED
        BY <1>1, <1>5, <2>1, <3>1
    <2>2. CASE ~PlanAnswer(answers[1])
      BY <1>1, <1>5, <2>2 DEF VerdictInv
    <2> QED
      BY <2>1, <2>2
  <1> QED
    BY <1>4, <1>6

------------------------------------------------------------------------------
LEMMA CallBefore ==
    ASSUME PanesTypeOK, PanesTypeOK', NEW m \in Method, NEW h \in Handler, Call(m, h), NEW v
    PROVE  /\ RequestBefore(v) => RequestBefore(v)'
           /\ h = "runPlan" /\ m \in Before(v) => RequestBefore(v)'
  <1>1. PICK r \in PageCall : Called(r) /\ r.by = h /\ r.method = m
    BY CallIs
  <1>2. /\ \A i \in 1..Len(requests) : i \in 1..Len(requests') /\ requests'[i] = requests[i]
        /\ Len(requests') \in 1..Len(requests') /\ requests'[Len(requests')] = r
    BY <1>1, QueueLengths DEF Called, Lengths
  <1> QED
    BY <1>1, <1>2 DEF RequestBefore, Before

LEMMA KeptBefore ==
    ASSUME PanesTypeOK, PanesTypeOK', NEW v,
           requests' = requests \/ \E m \in Method, h \in Handler : Call(m, h),
           RequestBefore(v)
    PROVE  RequestBefore(v)'
  BY CallBefore DEF RequestBefore, Before

LEMMA ClickLists ==
    ASSUME PanesTypeOK, PanesTypeOK', ListInv,
           UNCHANGED <<answers, runs, complete>>,
           requests' = requests \/ \E m \in Method, h \in Handler : Call(m, h),
           verdict' = 0 \/ UNCHANGED <<verdict, section>>
    PROVE  ListInv'
  <1>1. CASE verdict' = 0
    BY <1>1 DEF ListInv
  <1>2. CASE UNCHANGED <<verdict, section>>
    <2>1. \A v \in View : RequestBefore(v) => RequestBefore(v)'
      BY KeptBefore
    <2>2. \A v \in View : /\ AnswerBefore(v) => AnswerBefore(v)'
                          /\ Current(v) => Current(v)'
      BY <1>2 DEF AnswerBefore, Current, Before
    <2> QED
      BY <1>2, <2>1, <2>2 DEF ListInv
  <1> QED
    BY <1>1, <1>2

LEMMA BackendLists ==
    ASSUME PanesTypeOK, ListInv, Serve \/ Refuse \/ RefuseImport
    PROVE  ListInv'
  <1>1. PICK a : /\ Moved(a) /\ a.run = runs' /\ UNCHANGED <<verdict, section>>
                 /\ a.to.method = "plan.run" => runs' = runs + 1
                 /\ a.to.method # "plan.run" => UNCHANGED <<runs, complete>>
    BY BackendIs
  <1>2. runs \in Nat /\ verdict \in 0..runs
    BY RunTypes
  <1>3. CASE a.to.method = "plan.run"
    BY <1>1, <1>2, <1>3 DEF ListInv
  <1>4. CASE a.to.method # "plan.run"
    <2>1. /\ \A i \in 1..Len(answers) : i \in 1..Len(answers') /\ answers'[i] = answers[i]
          /\ Len(answers') \in 1..Len(answers') /\ answers'[Len(answers')] = a
      BY <1>1, AnswerCame, QueueLengths
    <2>2. \A v \in View : /\ Current(v) => Current(v)'
                          /\ AnswerBefore(v) => AnswerBefore(v)'
      BY <1>1, <1>4, <2>1 DEF Current, AnswerBefore, Before
    <2>3. ASSUME NEW v \in View, RequestBefore(v)
          PROVE  RequestBefore(v)' \/ AnswerBefore(v)'
      <3>1. PICK i \in 1..Len(requests) :
                requests[i].by = "runPlan" /\ requests[i].method \in Before(v)
        BY <2>3 DEF RequestBefore
      <3>2. CASE i = 1
        <4>1. a.to.by = "runPlan" /\ a.to.method \in Before(v)
          BY <1>1, <3>1, <3>2 DEF Moved
        <4> QED
          BY <1>1, <2>1, <4>1 DEF AnswerBefore, Before
      <3>3. CASE i # 1
        <4>1. i - 1 \in 1..Len(requests') /\ (i - 1) + 1 = i
          BY <1>1, <3>3, QueueLengths DEF Moved, Lengths
        <4>2. requests'[i - 1] = requests[i]
          BY <1>1, <4>1 DEF Moved
        <4> QED
          BY <3>1, <4>1, <4>2 DEF RequestBefore, Before
      <3> QED
        BY <3>2, <3>3
    <2> QED
      BY <1>1, <1>4, <2>2, <2>3 DEF ListInv
  <1> QED
    BY <1>3, <1>4

LEMMA ContinueLists ==
    ASSUME PanesTypeOK, PanesTypeOK', Ordered, ListInv, Continues
    PROVE  ListInv'
  <1>1. /\ Handled /\ Lengths /\ UNCHANGED <<runs, complete>>
        /\ requests' = requests \/ \E m \in Method, h \in Handler : Call(m, h)
        /\ PlanAnswer(answers[1]) => Call("override.list", "runPlan")
        /\ ~PlanAnswer(answers[1]) => verdict' = verdict
        /\ answers[1].to.by = "runPlan" =>
              /\ answers[1].to.method = "override.list" => Call("plan.risks", "runPlan")
              /\ answers[1].to.method = "plan.risks" => Call("plan.orders", "runPlan")
    BY ContinueScreen
  <1>2. /\ 1 \in 1..Len(answers)
        /\ \A i \in 1..Len(answers) : i # 1 =>
              i - 1 \in 1..Len(answers') /\ answers'[i - 1] = answers[i]
    BY <1>1, AnswerGone
  <1>3. /\ runs \in Nat /\ answers[1].run \in 0..runs
        /\ \A v \in View : section[v].run \in 0..runs
    BY <1>2, RunTypes
  <1>4. /\ {"override.list", "plan.risks", "plan.orders"} \subseteq Method
        /\ "runPlan" \in Handler
    BY DEF Method, View, Handler
  <1>5. CASE PlanAnswer(answers[1])
    <2>1. \A v \in View : RequestBefore(v)'
      BY <1>1, <1>4, <1>5, CallBefore DEF Before
    <2> QED
      BY <2>1 DEF ListInv
  <1>6. CASE ~PlanAnswer(answers[1])
    <2>1. \A v \in View : RequestBefore(v) => RequestBefore(v)'
      BY <1>1, KeptBefore
    <2>2. ASSUME NEW v \in View, answers[1].to.method = v
          PROVE  section'[v].visible /\ section'[v].run = answers[1].run
      <3>1. section' = [section EXCEPT ![v] =
                [visible |-> TRUE, run |-> answers[1].run, choice |-> answers[1].to.choice]]
        BY <2>2, ContinueScreen
      <3>2. section \in [View -> [visible : BOOLEAN, run : 0..runs, choice : Choice]]
        BY DEF PanesTypeOK
      <3> QED
        BY <3>1, <3>2
    <2>3. ASSUME NEW v \in View, answers[1].to.method # v
          PROVE  section'[v] = section[v]
      <3>1. section \in [View -> [visible : BOOLEAN, run : 0..runs, choice : Choice]]
        BY DEF PanesTypeOK
      <3> QED
        BY <2>3, <3>1, ContinueScreen
    <2>4. ASSUME NEW v \in View, Current(v) PROVE Current(v)'
      <3>1. CASE answers[1].to.method = v
        <4>1. runs <= answers[1].run
          BY <1>2, <2>4 DEF Ordered, Current
        <4> QED
          BY <1>1, <1>3, <2>2, <3>1, <4>1 DEF Current
      <3>2. CASE answers[1].to.method # v
        BY <1>1, <2>3, <2>4, <3>2 DEF Current
      <3> QED
        BY <3>1, <3>2
    <2>5. ASSUME NEW v \in View, AnswerBefore(v)
          PROVE  Current(v)' \/ RequestBefore(v)' \/ AnswerBefore(v)'
      <3>1. PICK i \in 1..Len(answers) :
                /\ answers[i].to.by = "runPlan" /\ answers[i].to.method \in Before(v)
                /\ answers[i].run = runs
        BY <2>5 DEF AnswerBefore
      <3>2. CASE i # 1
        BY <1>1, <1>2, <3>1, <3>2 DEF AnswerBefore, Before
      <3>3. CASE i = 1 /\ answers[1].to.method = v
        BY <1>1, <2>2, <3>1, <3>3 DEF Current
      <3>4. CASE i = 1 /\ answers[1].to.method # v
        <4>1. \/ answers[1].to.method = "override.list"
              \/ answers[1].to.method = "plan.risks" /\ v = "plan.orders"
          BY <3>1, <3>4 DEF Before, View
        <4>2. \/ Call("plan.risks", "runPlan")
              \/ Call("plan.orders", "runPlan") /\ v = "plan.orders"
          BY <1>1, <3>1, <3>4, <4>1
        <4> QED
          BY <1>4, <4>2, CallBefore DEF Before
      <3> QED
        BY <3>2, <3>3, <3>4
    <2> QED
      BY <1>1, <1>6, <2>1, <2>4, <2>5 DEF ListInv
  <1> QED
    BY <1>5, <1>6

------------------------------------------------------------------------------
LEMMA MenuCall ==
    ASSUME PanesTypeOK, PanesTypeOK', NEW m \in Method, NEW h \in Handler, Call(m, h), NEW v \in View
    PROVE  /\ m = v => ListRequested(v)'
           /\ m # v => /\ LastRequest(v, 0) => LastRequest(v, 0)'
                       /\ ListRequested(v) /\ choice'[v] = choice[v] => ListRequested(v)'
  <1>1. PICK r \in PageCall : /\ Called(r) /\ r.method = m
                              /\ m \in View => r.choice = choice'[m]
    <2>1. choice' \in [View -> Choice]
      BY DEF PanesTypeOK
    <2>2. Asking(m, h) \in PageCall
      BY <2>1, AskingType
    <2>3. requests \in Seq(PageCall) /\ requests' = Append(requests, Asking(m, h))
      BY DEF PanesTypeOK, Call
    <2>4. Called(Asking(m, h))
      BY <2>2, <2>3, Appended DEF Called
    <2>5. Asking(m, h).method = m /\ (m \in View => Asking(m, h).choice = choice'[m])
      BY DEF Asking
    <2> QED
      BY <2>2, <2>4, <2>5
  <1>2. PICK k \in 1..Len(requests') :
            /\ requests'[k] = r /\ k > 0
            /\ \A i \in 1..Len(requests') : ~(i > k) /\ (i \in 1..Len(requests) \/ i = k)
    BY <1>1, QueueLengths DEF Called, Lengths
  <1>3. \A i \in 1..Len(requests) : i \in 1..Len(requests') /\ requests'[i] = requests[i]
    BY <1>1, QueueLengths DEF Called, Lengths
  <1>4. CASE m = v
    BY <1>1, <1>2, <1>4 DEF ListRequested, LastRequest
  <1>5. CASE m # v
    <2>1. \A i \in Int : LastRequest(v, i) => LastRequest(v, i)'
      BY <1>1, <1>2, <1>3, <1>5 DEF LastRequest
    <2>2. ASSUME ListRequested(v), choice'[v] = choice[v] PROVE ListRequested(v)'
      <3>1. PICK i \in 1..Len(requests) :
                requests[i].method = v /\ requests[i].choice = choice[v] /\ LastRequest(v, i)
        BY <2>2 DEF ListRequested
      <3> QED
        BY <1>3, <2>1, <2>2, <3>1 DEF ListRequested
    <2> QED
      BY <1>5, <2>1, <2>2
  <1> QED
    BY <1>4, <1>5

LEMMA MenuCalls ==
    ASSUME PanesTypeOK, PanesTypeOK', NEW v \in View,
           requests' = requests \/ \E m \in Method, h \in Handler : Call(m, h)
    PROVE  \/ ListRequested(v)'
           \/ /\ LastRequest(v, 0) => LastRequest(v, 0)'
              /\ ~(ListRequested(v) /\ choice'[v] = choice[v])
  <1>1. CASE requests' = requests
    BY <1>1 DEF ListRequested, LastRequest
  <1>2. CASE \E m \in Method, h \in Handler : Call(m, h)
    BY <1>2, MenuCall
  <1> QED
    BY <1>1, <1>2

LEMMA ClickMenus ==
    ASSUME PanesTypeOK, PanesTypeOK', MenuInv, answers' = answers,
           requests' = requests \/ \E m \in Method, h \in Handler : Call(m, h),
           \A v \in View : section'[v].choice = section[v].choice
                           /\ (section'[v].visible => section[v].visible),
           \A v \in View : choice'[v] = choice[v] \/ Call(v, "menu")
    PROVE  MenuInv'
  <1> SUFFICES ASSUME NEW v \in View
               PROVE  (ListRequested(v) \/ ListAnswered(v) \/ ListShown(v))'
    BY DEF MenuInv
  <1>1. CASE Call(v, "menu")
    BY <1>1, MenuCall DEF Method, Handler
  <1>2. CASE choice'[v] = choice[v]
    <2>1. \A i : LastAnswer(v, i) => LastAnswer(v, i)'
      BY DEF LastAnswer
    <2>2. LastRequest(v, 0)' /\ ListAnswered(v) => ListAnswered(v)'
      BY <1>2, <2>1 DEF ListAnswered
    <2>3. LastRequest(v, 0)' /\ ListShown(v) => ListShown(v)'
      BY <1>2, <2>1 DEF ListShown
    <2>4. (ListAnswered(v) => LastRequest(v, 0)) /\ (ListShown(v) => LastRequest(v, 0))
      BY DEF ListAnswered, ListShown
    <2> QED
      BY <1>2, <2>2, <2>3, <2>4, MenuCalls DEF MenuInv
  <1> QED
    BY <1>1, <1>2

LEMMA BackendMenus ==
    ASSUME PanesTypeOK, MenuInv, Serve \/ Refuse \/ RefuseImport
    PROVE  MenuInv'
  <1>1. PICK a : Moved(a) /\ UNCHANGED <<section, choice>>
    BY BackendIs
  <1>2. PICK k \in 1..Len(answers') :
            /\ answers'[k] = a /\ k > 0
            /\ \A i \in 1..Len(answers') : ~(i > k) /\ (i \in 1..Len(answers) \/ i = k)
    BY <1>1, AnswerCame, QueueLengths
  <1>3. \A i \in 1..Len(answers) : i \in 1..Len(answers') /\ answers'[i] = answers[i]
    BY <1>1, AnswerCame, QueueLengths
  <1>4. 1 \in 1..Len(requests) /\ a.to = requests[1] /\ 1 > 0
    <2>1. requests \in Seq(PageCall) /\ requests # <<>> /\ a.to = requests[1]
      BY <1>1 DEF Moved, PanesTypeOK
    <2>2. Len(requests) \in Nat \ {0}
      BY <2>1, Taken
    <2> QED
      BY <2>1, <2>2
  <1>5. \A i \in 1..Len(requests') :
            /\ i + 1 \in 1..Len(requests) /\ i + 1 > 1 /\ requests'[i] = requests[i + 1]
    BY <1>1, QueueLengths DEF Moved, Lengths
  <1> SUFFICES ASSUME NEW v \in View
               PROVE  (ListRequested(v) \/ ListAnswered(v) \/ ListShown(v))'
    BY DEF MenuInv
  <1>6. (LastRequest(v, 0) \/ LastRequest(v, 1)) => LastRequest(v, 0)'
    BY <1>5 DEF LastRequest
  <1>7. CASE ListRequested(v)
    <2>1. PICK i \in 1..Len(requests) :
              requests[i].method = v /\ requests[i].choice = choice[v] /\ LastRequest(v, i)
      BY <1>7 DEF ListRequested
    <2>2. CASE i = 1
      <3>1. LastAnswer(v, k)'
        BY <1>2 DEF LastAnswer
      <3> QED
        BY <1>1, <1>2, <1>4, <1>6, <2>1, <2>2, <3>1 DEF ListAnswered
    <2>3. CASE i # 1
      <3>1. i - 1 \in 1..Len(requests') /\ (i - 1) + 1 = i
        BY <1>1, <2>3, QueueLengths DEF Moved, Lengths
      <3>2. requests'[i - 1] = requests[i]
        BY <1>5, <3>1
      <3>3. LastRequest(v, i - 1)'
        <4>1. \A j \in 1..Len(requests') : j > i - 1 => j + 1 > i
          BY QueueLengths DEF Lengths
        <4> QED
          BY <1>5, <2>1, <4>1 DEF LastRequest
      <3> QED
        BY <1>1, <2>1, <3>1, <3>2, <3>3 DEF ListRequested
    <2> QED
      BY <2>2, <2>3
  <1>8. CASE LastRequest(v, 0)
    <2>1. a.to.method # v
      BY <1>4, <1>8 DEF LastRequest
    <2>2. \A i : LastAnswer(v, i) => LastAnswer(v, i)'
      BY <1>2, <1>3, <2>1 DEF LastAnswer
    <2>3. ListAnswered(v) => ListAnswered(v)'
      BY <1>1, <1>3, <1>6, <1>8, <2>2 DEF ListAnswered
    <2>4. ListShown(v) => ListShown(v)'
      BY <1>1, <1>6, <1>8, <2>2 DEF ListShown
    <2>5. ListRequested(v) \/ ListAnswered(v) \/ ListShown(v)
      BY DEF MenuInv
    <2> QED
      BY <1>7, <2>3, <2>4, <2>5
  <1> QED
    BY <1>7, <1>8 DEF MenuInv, ListAnswered, ListShown

LEMMA ContinueMenus ==
    ASSUME PanesTypeOK, PanesTypeOK', MenuInv, Continues
    PROVE  MenuInv'
  <1>1. /\ Handled /\ Lengths /\ choice' = choice
        /\ requests' = requests \/ \E m \in Method, h \in Handler : Call(m, h)
    BY ContinueScreen
  <1>2. /\ 1 \in 1..Len(answers)
        /\ \A i \in 1..Len(answers') : /\ i + 1 \in 1..Len(answers) /\ i + 1 > 1
                                       /\ answers'[i] = answers[i + 1]
        /\ \A i \in 1..Len(answers) : i # 1 =>
              i - 1 \in 1..Len(answers') /\ answers'[i - 1] = answers[i]
    <2>1. \A i \in 1..Len(answers') : i + 1 > 1
      OBVIOUS
    <2> QED
      BY <1>1, <2>1, AnswerGone
  <1> SUFFICES ASSUME NEW v \in View
               PROVE  (ListRequested(v) \/ ListAnswered(v) \/ ListShown(v))'
    BY DEF MenuInv
  <1>3. \/ ListRequested(v)'
        \/ /\ LastRequest(v, 0) => LastRequest(v, 0)'
           /\ ListAnswered(v) \/ ListShown(v)
    BY <1>1, MenuCalls DEF MenuInv
  <1>4. (LastAnswer(v, 0) \/ LastAnswer(v, 1)) => LastAnswer(v, 0)'
    BY <1>2, SMTT(20) DEF LastAnswer
  <1>5. ASSUME ListAnswered(v), LastRequest(v, 0)'
        PROVE  (ListAnswered(v) \/ ListShown(v))'
    <2>1. PICK i \in 1..Len(answers) :
              /\ answers[i].to.method = v /\ answers[i].to.choice = choice[v]
              /\ LastAnswer(v, i)
      BY <1>5 DEF ListAnswered
    <2>2. CASE i = 1
      <3>1. section' = [section EXCEPT ![v] =
                [visible |-> TRUE, run |-> answers[1].run, choice |-> answers[1].to.choice]]
        BY <2>1, <2>2, ContinueScreen
      <3>2. section \in [View -> [visible : BOOLEAN, run : 0..runs, choice : Choice]]
        BY DEF PanesTypeOK
      <3>3. section'[v].choice = choice'[v]
        BY <1>1, <2>1, <2>2, <3>1, <3>2
      <3> QED
        BY <1>4, <1>5, <2>1, <2>2, <3>3 DEF ListShown
    <2>3. CASE i # 1
      <3>1. i - 1 \in 1..Len(answers') /\ answers'[i - 1] = answers[i]
        BY <1>2, <2>3
      <3>2. LastAnswer(v, i - 1)'
        <4>1. \A j \in 1..Len(answers') : j > i - 1 => j + 1 > i
          BY <1>1 DEF Lengths
        <4> QED
          BY <1>2, <2>1, <4>1, SMTT(20) DEF LastAnswer
      <3> QED
        BY <1>1, <1>5, <2>1, <3>1, <3>2 DEF ListAnswered
    <2> QED
      BY <2>2, <2>3
  <1>6. ASSUME ListShown(v), LastRequest(v, 0)'
        PROVE  ListShown(v)'
    <2>1. answers[1].to.method # v
      <3>1. 1 > 0
        OBVIOUS
      <3> QED
        BY <1>2, <1>6, <3>1 DEF ListShown, LastAnswer
    <2>2. section'[v] = section[v]
      <3>1. section \in [View -> [visible : BOOLEAN, run : 0..runs, choice : Choice]]
        BY DEF PanesTypeOK
      <3> QED
        BY <2>1, <3>1, ContinueScreen
    <2> QED
      BY <1>1, <1>4, <1>6, <2>2 DEF ListShown
  <1>7. (ListAnswered(v) => LastRequest(v, 0)) /\ (ListShown(v) => LastRequest(v, 0))
    BY DEF ListAnswered, ListShown
  <1> QED
    BY <1>3, <1>5, <1>6, <1>7

------------------------------------------------------------------------------
ScreenInv == Ordered /\ VerdictInv /\ ListInv /\ MenuInv

LEMMA InitScreen == PanesInit => ScreenInv
  <1> SUFFICES ASSUME PanesInit PROVE ScreenInv
    OBVIOUS
  <1>1. /\ answers = <<>> /\ requests = <<>> /\ verdict = 0
        /\ 1..Len(answers) = {} /\ 1..Len(requests) = {}
    <2>1. answers = <<>> /\ requests = <<>> /\ verdict = 0
      BY DEF PanesInit
    <2> QED
      BY <2>1
  <1>2. \A v \in View : section[v].choice = choice[v]
    BY DEF PanesInit
  <1>3. Ordered /\ VerdictInv /\ ListInv
    BY <1>1 DEF Ordered, VerdictInv, ListInv
  <1>4. \A v \in View : ListShown(v)
    BY <1>1, <1>2 DEF ListShown, LastRequest, LastAnswer
  <1> QED
    BY <1>3, <1>4 DEF ScreenInv, MenuInv

LEMMA NextScreen == PanesTypeOK /\ ScreenInv /\ [PanesNext]_paneVars => ScreenInv'
  <1> SUFFICES ASSUME PanesTypeOK, ScreenInv, [PanesNext]_paneVars PROVE ScreenInv'
    OBVIOUS
  <1>1. PanesTypeOK' /\ Ordered /\ VerdictInv /\ ListInv /\ MenuInv
    BY StepTypeOK DEF ScreenInv
  <1>2. CASE \/ LoadDemo \/ RunPlan \/ FixNumber \/ Inspect \/ Preview \/ Commit
             \/ \E v \in View, c \in Choice : ChangeMenu(v, c)
             \/ \E f \in Form : EditForm(f)
             \/ \E m \in Mapping : EditMapping(m)
    <2>1. /\ UNCHANGED <<answers, runs, complete>>
          /\ requests' = requests \/ \E m \in Method, h \in Handler : Call(m, h)
          /\ verdict' = 0 \/ UNCHANGED <<verdict, section>>
          /\ verdict' = 0 \/ verdict' = verdict
          /\ \A v \in View : /\ section'[v].run = section[v].run
                             /\ section'[v].choice = section[v].choice
                             /\ section'[v].visible => section[v].visible
          /\ \A v \in View : choice'[v] = choice[v] \/ Call(v, "menu")
      BY <1>2, ClickScreen
    <2>2. VerdictInv'
      BY <1>1, <2>1 DEF VerdictInv, LastFrom
    <2> QED
      BY <1>1, <2>1, <2>2, ClickOrdered, ClickLists, ClickMenus DEF ScreenInv
  <1>3. CASE Serve \/ Refuse \/ RefuseImport
    BY <1>1, <1>3, BackendOrdered, BackendVerdict, BackendLists, BackendMenus DEF ScreenInv
  <1>4. CASE Continues
    BY <1>1, <1>4, ContinueOrdered, ContinueVerdict, ContinueLists, ContinueMenus
       DEF ScreenInv
  <1>5. CASE Progress \/ UNCHANGED paneVars
    <2>1. UNCHANGED <<answers, requests, runs, complete, verdict, section, choice>>
      BY <1>5 DEF Progress, paneVars, plan, backend
    <2>2. Ordered' /\ VerdictInv'
      BY <1>1, <2>1 DEF Ordered, VerdictInv, LastFrom
    <2>3. ListInv'
      BY <1>1, <2>1 DEF ListInv, Current, RequestBefore, AnswerBefore
    <2>4. MenuInv'
      BY <1>1, <2>1 DEF MenuInv, ListRequested, ListAnswered, ListShown, LastRequest, LastAnswer
    <2> QED
      BY <2>2, <2>3, <2>4 DEF ScreenInv
  <1> QED
    BY <1>2, <1>3, <1>4, <1>5 DEF PanesNext, Continues

\* Whatever handlers overlap and whatever the backend refuses: once everything is
\* answered and the last plan was computed to its end, the verdict on the screen and
\* the lists beside it are of that plan, and each list is the one its menu asks for.
THEOREM ScreenIsAlwaysOnePlan == PanesSpec => []ScreenIsOnePlan
  <1>1. PanesTypeOK /\ ScreenInv => ScreenIsOnePlan
    <2> SUFFICES ASSUME ScreenInv, Quiet PROVE
            /\ verdict # 0 /\ complete =>
                  /\ verdict = runs
                  /\ \A v \in View : section[v].visible /\ section[v].run = runs
            /\ \A v \in View : section[v].visible => section[v].choice = choice[v]
      BY DEF ScreenIsOnePlan
    <2>1. 1..Len(answers) = {} /\ 1..Len(requests) = {}
      BY DEF Quiet
    <2>2. \A i : ~LastFrom(i)
      BY <2>1 DEF LastFrom
    <2>3. \A v \in View : ~RequestBefore(v) /\ ~AnswerBefore(v)
      BY <2>1 DEF RequestBefore, AnswerBefore
    <2>4. \A v \in View : ~ListRequested(v) /\ ~ListAnswered(v)
      BY <2>1 DEF ListRequested, ListAnswered
    <2>5. \A v \in View : section[v].visible => section[v].choice = choice[v]
      BY <2>4 DEF ScreenInv, MenuInv, ListShown
    <2>6. verdict # 0 /\ complete => verdict = runs
      BY <2>2 DEF ScreenInv, VerdictInv
    <2>7. verdict # 0 /\ complete =>
              \A v \in View : section[v].visible /\ section[v].run = runs
      BY <2>3, <2>6 DEF ScreenInv, ListInv, Current
    <2> QED
      BY <2>5, <2>6, <2>7
  <1>2. PanesSpec => [](PanesTypeOK /\ ScreenInv)
    BY InitScreen, NextScreen, PanesTypeCorrect, PTL DEF PanesSpec
  <1> QED
    BY <1>1, <1>2, PTL
==============================================================================
