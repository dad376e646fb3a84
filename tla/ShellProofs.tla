----------------------------- MODULE ShellProofs -----------------------------
(***************************************************************************)
(* Theorems about Shell, for any number of calls, progress lines, faults   *)
(* and lines in a pipe: the safety half of "no line is delivered twice or  *)
(* lost".  (That every line IS delivered in the end is liveness, which TLC *)
(* checks.)                                                                *)
(*                                                                         *)
(* The argument is about places.  A line the backend has written is in one *)
(* place: a pipe, a reader thread's hand, the buffer, the drained reply,   *)
(* the event queue, or among the lines handled.  A step of any thread      *)
(* moves one line, or the whole buffer, from a place to the next, or adds  *)
(* a line that is in no place yet.  The lines of a call made once the      *)
(* shell emits all go one way, through queues, so they keep their order.   *)
(***************************************************************************)
EXTENDS Shell, SequenceTheorems, TLAPS

USE BoundAssumption

------------------------------------------------------------------------------
(***************************************************************************)
(* Lines.                                                                  *)
(***************************************************************************)
LEMMA LineKinds ==
    /\ Ready \in Line /\ Exit \in Line
    /\ \A n \in 1..MaxFaults : Fault(n) \in Line
    /\ \A c \in CallId, n \in 1..MaxStages : Progress(c, n) \in Line
    /\ \A c \in CallId : Response(c) \in Line
  BY DEF Line

LEMMA LinesDiffer ==
    /\ Ready # Exit
    /\ \A n : Fault(n) # Ready /\ Fault(n) # Exit
    /\ \A c, n : Progress(c, n) # Ready /\ Progress(c, n) # Exit
    /\ \A c : Response(c) # Ready /\ Response(c) # Exit
    /\ \A c, n, m : Progress(c, n) # Fault(m)
    /\ \A c, m : Response(c) # Fault(m)
    /\ \A c, d, n : Response(c) # Progress(d, n)
    /\ \A n, m : Fault(n) = Fault(m) => n = m
    /\ \A c, d : Response(c) = Response(d) => c = d
    /\ \A c, d, n, m : Progress(c, n) = Progress(d, m) => c = d /\ n = m
  BY DEF Ready, Exit, Fault, Progress, Response

LEMMA Responses ==
    ASSUME NEW l \in Line, l.kind = "response"
    PROVE  l.id \in CallId /\ l = Response(l.id)
  BY DEF Line, Ready, Exit, Fault, Progress, Response

\* What a sequence without repetitions holds.
Distinct(q) == \A i, j \in DOMAIN q : q[i] = q[j] => i = j

LEMMA LinesAppend ==
    ASSUME NEW S, NEW q \in Seq(S), NEW e \in S
    PROVE  /\ Append(q, e) \in Seq(S)
           /\ Lines(Append(q, e)) = Lines(q) \cup {e}
           /\ Distinct(q) /\ e \notin Lines(q) => Distinct(Append(q, e))
  <1>1. /\ Append(q, e) \in Seq(S) /\ Len(Append(q, e)) = Len(q) + 1
        /\ \A i \in 1..Len(q) : Append(q, e)[i] = q[i]
        /\ Append(q, e)[Len(q) + 1] = e
    BY AppendProperties
  <1>2. /\ DOMAIN q = 1..Len(q) /\ Len(q) \in Nat
        /\ DOMAIN Append(q, e) = 1..(Len(q) + 1)
    BY <1>1, LenProperties
  <1> DEFINE r == Append(q, e)
  <1> HIDE DEF r
  <1>3. \A i \in DOMAIN r : i = Len(q) + 1 \/ i \in DOMAIN q
    BY <1>2 DEF r
  <1>4. /\ \A i \in DOMAIN q : i \in DOMAIN r /\ r[i] = q[i]
        /\ Len(q) + 1 \in DOMAIN r /\ r[Len(q) + 1] = e
    BY <1>1, <1>2 DEF r
  <1>5. Lines(r) = Lines(q) \cup {e}
    BY <1>3, <1>4 DEF Lines
  <1>6. ASSUME Distinct(q), e \notin Lines(q) PROVE Distinct(r)
    BY <1>3, <1>4, <1>6 DEF Lines, Distinct
  <1> QED
    BY <1>1, <1>5, <1>6 DEF r

LEMMA LinesTail ==
    ASSUME NEW S, NEW q \in Seq(S), q # <<>>
    PROVE  /\ Tail(q) \in Seq(S)
           /\ Head(q) \in Lines(q) /\ Head(q) \in S
           /\ Lines(Tail(q)) \subseteq Lines(q)
           /\ Distinct(q) => /\ Lines(Tail(q)) = Lines(q) \ {Head(q)}
                             /\ Distinct(Tail(q))
  <1>1. /\ Tail(q) \in Seq(S) /\ Head(q) \in S /\ Head(q) = q[1]
        /\ Len(q) \in Nat \ {0} /\ Len(Tail(q)) = Len(q) - 1
        /\ \A i \in 1..Len(Tail(q)) : Tail(q)[i] = q[i + 1]
    BY HeadTailProperties, EmptySeq
  <1>2. DOMAIN q = 1..Len(q) /\ DOMAIN Tail(q) = 1..(Len(q) - 1)
    BY <1>1, LenProperties
  <1> DEFINE r == Tail(q)
  <1> HIDE DEF r
  <1>3. \A i \in DOMAIN r : i + 1 \in DOMAIN q /\ r[i] = q[i + 1] /\ i + 1 # 1 /\ i \in Nat
    BY <1>1, <1>2 DEF r
  <1>4. \A i \in DOMAIN q : i = 1 \/ (i - 1 \in DOMAIN r /\ r[i - 1] = q[i])
    <2>1. \A i \in DOMAIN q : i = 1 \/ (i - 1 \in DOMAIN r /\ (i - 1) + 1 = i)
      BY <1>1, <1>2 DEF r
    <2> QED
      BY <1>3, <2>1
  <1>5. 1 \in DOMAIN q
    BY <1>1, <1>2
  <1>6. Lines(r) \subseteq Lines(q) /\ Head(q) \in Lines(q)
    BY <1>1, <1>3, <1>5 DEF Lines
  <1>7. ASSUME Distinct(q) PROVE Lines(r) = Lines(q) \ {Head(q)} /\ Distinct(r)
    <2>1. Head(q) \notin Lines(r)
      BY <1>1, <1>3, <1>5, <1>7 DEF Lines, Distinct
    <2>2. Lines(q) \ {Head(q)} \subseteq Lines(r)
      BY <1>1, <1>4 DEF Lines
    <2>3. Distinct(r)
      BY <1>3, <1>7 DEF Distinct
    <2> QED
      BY <1>6, <2>1, <2>2, <2>3
  <1> QED
    BY <1>1, <1>6, <1>7 DEF r

LEMMA LinesOf ==
    /\ Lines(<<>>) = {} /\ Distinct(<<>>)
    /\ \A S : \A q \in Seq(S) : Lines(q) \subseteq S
  <1>1. \A S : \A q \in Seq(S) : \A i \in DOMAIN q : q[i] \in S
    BY ElementOfSeq, LenProperties
  <1> QED
    BY <1>1 DEF Lines, Distinct
------------------------------------------------------------------------------
(***************************************************************************)
(* Types, one group of variables at a time.                                *)
(***************************************************************************)
ProcessType ==
    /\ backend \in {"starting", "waiting", "serving", "exited"}
    /\ serving \in CallId \cup {0}
    /\ backend = "serving" <=> serving # 0
    /\ stage \in 0..MaxStages
    /\ faults \in 0..MaxFaults
    /\ warning \in BOOLEAN
    /\ warning => Running /\ faults > 0
    /\ stdin \in Seq(CallId)

ShellType ==
    /\ pipe \in [Stream -> Seq(Line)]
    /\ reader \in [Stream -> [at : {"reading", "locking", "checking", "pushing", "emitting",
                                    "done"},
                              line : Line]]
    /\ lock \in Stream \cup {"drain", Nobody}
    /\ listening \in BOOLEAN
    /\ early \in Seq(Line)

PageType ==
    /\ attached \subseteq Event
    /\ page \in {"loading", "invoking", "draining", "replied", "handling", "live"}
    /\ reply \in Seq(Line)
    /\ events \in Seq(Line)

CallType ==
    /\ nextId \in 1..(MaxCalls + 1)
    /\ pending \subseteq 1..(nextId - 1)
    /\ invoking \subseteq 1..(nextId - 1)
    /\ rushed \subseteq CallId
    /\ status \in {"starting", "ready", "error"}
    /\ times \in [Line -> Nat]
    /\ closed \in BOOLEAN

LEMMA Types == TypeOK <=> ProcessType /\ ShellType /\ PageType /\ CallType
  BY DEF TypeOK, ProcessType, ShellType, PageType, CallType

LEMMA TypesNext == TypeOK' <=> ProcessType' /\ ShellType' /\ PageType' /\ CallType'
  BY DEF TypeOK, ProcessType, ShellType, PageType, CallType

LEMMA InitTypeOK == Init => TypeOK
  <1> SUFFICES ASSUME Init PROVE TypeOK
    OBVIOUS
  <1>1. ProcessType
    <2>1. 0 \in 0..MaxStages /\ 0 \in 0..MaxFaults
      BY BoundAssumption
    <2>2. warning \in BOOLEAN /\ ~warning
      BY DEF Init
    <2> QED
      BY <2>1, <2>2, EmptySeq DEF Init, ProcessType
  <1>2. ShellType
    <2>1. Reading \in [at : {"reading", "locking", "checking", "pushing", "emitting", "done"},
                      line : Line]
      BY LineKinds DEF Reading
    <2> QED
      BY <2>1, EmptySeq DEF Init, ShellType
  <1>3. PageType
    BY EmptySeq DEF Init, PageType
  <1>4. CallType
    <2>1. nextId = 1 /\ pending = {} /\ invoking = {} /\ 1 \in 1..(MaxCalls + 1)
      BY DEF Init
    <2> QED
      BY <2>1 DEF Init, CallType
  <1> QED
    BY <1>1, <1>2, <1>3, <1>4, Types

LEMMA ProcessTypeStep == TypeOK /\ [Next]_vars => ProcessType'
  <1> SUFFICES ASSUME TypeOK, [Next]_vars PROVE ProcessType'
    OBVIOUS
  <1>1. ProcessType
    BY Types
  <1>2. CASE Announce
    BY <1>1, <1>2 DEF Announce, ProcessType, Running
  <1>3. CASE ReadRequest
    <2>1. Head(stdin) \in CallId /\ Tail(stdin) \in Seq(CallId)
      BY <1>1, <1>3, LinesTail DEF ReadRequest, ProcessType
    <2>2. Head(stdin) # 0 /\ 0 \in 0..MaxStages
      BY <2>1 DEF CallId
    <2> QED
      BY <1>1, <1>3, <2>1, <2>2 DEF ReadRequest, ProcessType, Running
  <1>4. CASE ReportProgress
    BY <1>1, <1>4, BoundAssumption DEF ReportProgress, ProcessType, Running
  <1>5. CASE Respond \/ Die \/ CloseWindow
    <2>1. warning' \in BOOLEAN /\ ~warning'
      <3>1. CASE Respond
        BY <1>1, <3>1 DEF Respond, Free, ProcessType
      <3>2. CASE Die \/ CloseWindow
        BY <3>2 DEF Die, CloseWindow
      <3> QED
        BY <1>5, <3>1, <3>2
    <2>2. /\ backend' \in {"waiting", "exited"} /\ serving' = 0 /\ stage' = 0
          /\ UNCHANGED <<faults, stdin>>
      BY <1>5 DEF Respond, Die, CloseWindow
    <2>3. 0 \in 0..MaxStages
      BY BoundAssumption
    <2> QED
      BY <1>1, <2>1, <2>2, <2>3 DEF ProcessType
  <1>6. CASE Complain
    BY <1>1, <1>6 DEF Complain, ProcessType, Running
  <1>11. CASE Warn
    BY <1>1, <1>11 DEF Warn, ProcessType, Running
  <1>7. ASSUME NEW c \in CallId, CallBackend(c) PROVE ProcessType'
    <2>1. Append(stdin, c) \in Seq(CallId)
      BY <1>1, AppendProperties DEF ProcessType
    <2> QED
      BY <1>1, <1>7, <2>1 DEF CallBackend, ProcessType, Running
  <1>8. CASE UNCHANGED process
    BY <1>1, <1>8 DEF process, ProcessType, Running
  <1>9. ASSUME NEW s \in Stream, ReaderStep(s) PROVE UNCHANGED process
    BY <1>9 DEF ReaderStep, ReadLine, EndOfStream, TakeLock, CheckFlag, Push, Emit
  <1>10. (\E e \in Event : Attach(e)) \/ InvokeDrain \/ DrainLock \/ Drain \/ HandleReply
         \/ HandleEvent \/ MakeCall => UNCHANGED process
    BY DEF Attach, InvokeDrain, DrainLock, Drain, HandleReply, HandleEvent, MakeCall
  <1> QED
    BY <1>2, <1>3, <1>4, <1>5, <1>6, <1>7, <1>8, <1>9, <1>10, <1>11 DEF Next, vars

LEMMA WriteType ==
    ASSUME ShellType, NEW s \in Stream, NEW l \in Line, Write(s, l)
    PROVE  ShellType'
  <1>1. pipe' = [pipe EXCEPT ![s] = Append(pipe[s], l)]
    BY DEF Write
  <1>2. Append(pipe[s], l) \in Seq(Line)
    BY AppendProperties DEF ShellType
  <1> QED
    BY <1>1, <1>2 DEF Write, ShellType

LEMMA MoveType ==
    ASSUME ShellType, NEW s \in Stream, NEW l \in Line,
           NEW at \in {"reading", "locking", "checking", "pushing", "emitting", "done"}
    PROVE  [reader EXCEPT ![s] = [at |-> at, line |-> l]] \in
             [Stream -> [at : {"reading", "locking", "checking", "pushing", "emitting",
                                 "done"},
                         line : Line]]
  BY DEF ShellType

LEMMA ReaderType ==
    ASSUME ShellType, NEW s \in Stream, ReaderStep(s)
    PROVE  ShellType'
  <1>1. reader[s].line \in Line
    BY DEF ShellType
  <1>2. CASE ReadLine(s)
    <2>1. pipe[s] \in Seq(Line) /\ pipe[s] # <<>>
      BY <1>2 DEF ReadLine, ShellType
    <2>2. Head(pipe[s]) \in Line /\ Tail(pipe[s]) \in Seq(Line)
      BY <2>1, LinesTail
    <2>3. pipe' = [pipe EXCEPT ![s] = Tail(pipe[s])]
      BY <1>2 DEF ReadLine
    <2> QED
      BY <1>2, <2>2, <2>3, MoveType DEF ReadLine, Move, Holding, ShellType
  <1>3. CASE EndOfStream(s)
    BY <1>3, MoveType, LineKinds DEF EndOfStream, Move, Holding, Done, ShellType
  <1>4. CASE TakeLock(s)
    BY <1>1, <1>4, MoveType DEF TakeLock, Move, Holding, ShellType
  <1>7. CASE CheckFlag(s)
    <2>1. \E at \in {"emitting", "pushing"} :
              reader' = [reader EXCEPT ![s] = [at |-> at, line |-> reader[s].line]]
      BY <1>7 DEF CheckFlag, Move, Holding
    <2>2. lock' \in Stream \cup {"drain", Nobody} /\ UNCHANGED <<pipe, listening, early>>
      BY <1>7 DEF CheckFlag, ShellType
    <2> QED
      BY <1>1, <2>1, <2>2, MoveType DEF ShellType
  <1>5. CASE Push(s)
    <2>1. Append(early, reader[s].line) \in Seq(Line)
      BY <1>1, AppendProperties DEF ShellType
    <2> QED
      BY <1>1, <1>5, <2>1, MoveType, LineKinds
         DEF Push, Move, AfterLine, Done, Reading, ShellType
  <1>6. CASE Emit(s)
    BY <1>1, <1>6, MoveType, LineKinds DEF Emit, Move, AfterLine, Done, Reading, ShellType
  <1> QED
    BY <1>2, <1>3, <1>4, <1>5, <1>6, <1>7 DEF ReaderStep

LEMMA ShellTypeStep == TypeOK /\ [Next]_vars => ShellType'
  <1> SUFFICES ASSUME TypeOK, [Next]_vars PROVE ShellType'
    OBVIOUS
  <1>1. ProcessType /\ ShellType
    BY Types
  <1>s. "stdout" \in Stream /\ "stderr" \in Stream
    BY DEF Stream
  <1>2. CASE Announce
    BY <1>1, <1>2, <1>s, WriteType, LineKinds DEF Announce
  <1>3. CASE ReportProgress
    <2>1. serving \in CallId /\ stage + 1 \in 1..MaxStages
      BY <1>1, <1>3 DEF ReportProgress, ProcessType
    <2>2. Progress(serving, stage + 1) \in Line
      BY <2>1, LineKinds
    <2> QED
      BY <1>1, <1>3, <1>s, <2>2, WriteType DEF ReportProgress
  <1>4. CASE Respond
    <2>1. Response(serving) \in Line
      BY <1>1, <1>4, LineKinds DEF Respond, ProcessType
    <2> QED
      BY <1>1, <1>4, <1>s, <2>1, WriteType DEF Respond
  <1>5. CASE Warn
    <2>1. faults \in 1..MaxFaults
      BY <1>1, <1>5, BoundAssumption DEF Warn, ProcessType
    <2>2. Fault(faults) \in Line
      BY <2>1, LineKinds
    <2> QED
      BY <1>1, <1>5, <1>s, <2>2, WriteType DEF Warn
  <1>6. ASSUME NEW s \in Stream, ReaderStep(s) PROVE ShellType'
    BY <1>1, <1>6, ReaderType
  <1>7. CASE DrainLock
    BY <1>1, <1>7 DEF DrainLock, ShellType
  <1>8. CASE Drain
    BY <1>1, <1>8, EmptySeq DEF Drain, ShellType
  <1>9. CASE UNCHANGED shell
    BY <1>1, <1>9 DEF shell, ShellType
  <1>10. ReadRequest \/ Complain \/ Die \/ (\E e \in Event : Attach(e)) \/ InvokeDrain
         \/ HandleReply \/ HandleEvent \/ MakeCall \/ (\E c \in CallId : CallBackend(c))
         \/ CloseWindow
         => UNCHANGED shell
    BY DEF ReadRequest, Complain, Die, Attach, InvokeDrain, HandleReply, HandleEvent, MakeCall,
           CallBackend, CloseWindow
  <1> QED
    BY <1>2, <1>3, <1>4, <1>5, <1>6, <1>7, <1>8, <1>9, <1>10 DEF Next, vars
\* The page takes the first of a queue of lines.
LEMMA HeadType ==
    ASSUME NEW q \in Seq(Line), q # <<>>
    PROVE  Head(q) \in Line /\ Tail(q) \in Seq(Line)
  BY LinesTail

LEMMA PageTypeStep == TypeOK /\ [Next]_vars => PageType'
  <1> SUFFICES ASSUME TypeOK, [Next]_vars PROVE PageType'
    OBVIOUS
  <1>1. ShellType /\ PageType
    BY Types
  <1>2. ASSUME NEW s \in Stream, Emit(s) PROVE PageType'
    <2>1. reader[s].line \in Line
      BY <1>1 DEF ShellType
    <2>2. Append(events, reader[s].line) \in Seq(Line)
      BY <1>1, <2>1, AppendProperties DEF PageType
    <2> QED
      BY <1>1, <1>2, <2>2 DEF Emit, PageType
  <1>3. ASSUME NEW e \in Event, Attach(e) PROVE PageType'
    BY <1>1, <1>3 DEF Attach, PageType
  <1>4. CASE InvokeDrain \/ DrainLock
    BY <1>1, <1>4 DEF InvokeDrain, DrainLock, PageType
  <1>5. CASE Drain
    BY <1>1, <1>5 DEF Drain, PageType, ShellType
  <1>6. CASE HandleReply
    BY <1>1, <1>6, HeadType DEF HandleReply, PageType
  <1>7. CASE HandleEvent
    BY <1>1, <1>7, HeadType DEF HandleEvent, PageType
  <1>8. CASE UNCHANGED webview
    BY <1>1, <1>8 DEF webview, PageType
  <1>9. Announce \/ ReadRequest \/ ReportProgress \/ Respond \/ Complain \/ Warn \/ Die
        \/ (\E s \in Stream : ReadLine(s) \/ EndOfStream(s) \/ TakeLock(s)
                             \/ CheckFlag(s) \/ Push(s))
        \/ MakeCall \/ (\E c \in CallId : CallBackend(c)) \/ CloseWindow
        => UNCHANGED webview
    BY DEF Announce, ReadRequest, ReportProgress, Respond, Complain, Warn, Die, ReadLine,
           EndOfStream, TakeLock, CheckFlag, Push, MakeCall, CallBackend, CloseWindow
  <1> QED
    BY <1>2, <1>3, <1>4, <1>5, <1>6, <1>7, <1>8, <1>9 DEF Next, ReaderStep, vars

LEMMA RegisterType ==
    ASSUME CallType, MayCall, Register
    PROVE  /\ nextId' \in 1..(MaxCalls + 1) /\ nextId' = nextId + 1 /\ nextId \in CallId
           /\ pending' \subseteq 1..(nextId' - 1)
           /\ invoking' \subseteq 1..(nextId' - 1)
           /\ rushed' \subseteq CallId
  <1>1. nextId \in 1..(MaxCalls + 1) /\ nextId <= MaxCalls
    BY DEF CallType, MayCall
  <1>2. nextId' = nextId + 1 /\ nextId \in CallId /\ nextId' \in 1..(MaxCalls + 1)
    BY <1>1 DEF Register, CallId
  <1>3. 1..(nextId - 1) \subseteq 1..(nextId' - 1) /\ nextId \in 1..(nextId' - 1)
    BY <1>1, <1>2
  <1> QED
    BY <1>2, <1>3 DEF Register, CallType

LEMMA DispatchType ==
    ASSUME CallType, NEW l \in Line, Dispatch(l), closed' = closed
    PROVE  CallType'
  <1>1. times' \in [Line -> Nat] /\ status' \in {"starting", "ready", "error"}
    BY DEF Dispatch, CallType
  <1>2. CASE l.kind = "ready" /\ MayCall
    BY <1>1, <1>2, RegisterType DEF Dispatch, CallType
  <1>3. CASE ~(l.kind = "ready" /\ MayCall)
    BY <1>1, <1>3 DEF Dispatch, CallType
  <1> QED
    BY <1>2, <1>3

LEMMA CallTypeStep == TypeOK /\ [Next]_vars => CallType'
  <1> SUFFICES ASSUME TypeOK, [Next]_vars PROVE CallType'
    OBVIOUS
  <1>1. PageType /\ CallType
    BY Types
  <1>2. CASE HandleReply
    <2>1. CASE reply = <<>>
      BY <1>1, <1>2, <2>1 DEF HandleReply, CallType, calling
    <2>2. CASE reply # <<>>
      BY <1>1, <1>2, <2>2, HeadType, DispatchType DEF HandleReply, PageType
    <2> QED
      BY <2>1, <2>2
  <1>3. CASE HandleEvent
    BY <1>1, <1>3, HeadType, DispatchType DEF HandleEvent, PageType
  <1>4. CASE MakeCall
    BY <1>1, <1>4, RegisterType DEF MakeCall, CallType
  <1>5. ASSUME NEW c \in CallId, CallBackend(c) PROVE CallType'
    BY <1>1, <1>5 DEF CallBackend, CallType
  <1>6. CASE CloseWindow
    BY <1>1, <1>6 DEF CloseWindow, CallType, calling
  <1>7. CASE UNCHANGED <<calling, status, times, closed>>
    BY <1>1, <1>7 DEF calling, CallType
  <1>8. Announce \/ ReadRequest \/ ReportProgress \/ Respond \/ Complain \/ Warn \/ Die
        \/ (\E s \in Stream : ReaderStep(s)) \/ (\E e \in Event : Attach(e))
        \/ InvokeDrain \/ DrainLock \/ Drain
        => UNCHANGED <<calling, status, times, closed>>
    BY DEF Announce, ReadRequest, ReportProgress, Respond, Complain, Warn, Die, ReaderStep,
           ReadLine, EndOfStream, TakeLock, CheckFlag, Push, Emit, Attach, InvokeDrain, DrainLock, Drain
  <1> QED
    BY <1>2, <1>3, <1>4, <1>5, <1>6, <1>7, <1>8 DEF Next, vars

LEMMA StepTypeOK == TypeOK /\ [Next]_vars => TypeOK'
  BY ProcessTypeStep, ShellTypeStep, PageTypeStep, CallTypeStep, TypesNext

\* The five parties that run at once keep every variable in its type, however they
\* interleave; nobody is served who is not serving.
THEOREM ShellTypeCorrect == Spec => []TypeOK
  BY InitTypeOK, StepTypeOK, PTL DEF Spec
------------------------------------------------------------------------------
(***************************************************************************)
(* Places.                                                                 *)
(***************************************************************************)
PipeOf(s) == IF s = "stdout" THEN "outPipe" ELSE "errPipe"
HandOf(s) == IF s = "stdout" THEN "outHand" ELSE "errHand"
Place == {"outPipe", "errPipe", "outHand", "errHand", "early", "reply", "events", "handled"}

\* The line in the hand of a reader thread.
Held(s) == IF reader[s].at \in {"reading", "done"} THEN {} ELSE {reader[s].line}
Seen == {l \in Line : times[l] > 0}

Where == [p \in Place |->
    CASE p = "outPipe" -> Lines(pipe["stdout"])
      [] p = "errPipe" -> Lines(pipe["stderr"])
      [] p = "outHand" -> Held("stdout")
      [] p = "errHand" -> Held("stderr")
      [] p = "early"   -> Lines(early)
      [] p = "reply"   -> Lines(reply)
      [] p = "events"  -> Lines(events)
      [] p = "handled" -> Seen]

WhereFacts ==
    /\ \A s \in Stream : Where[PipeOf(s)] = Lines(pipe[s]) /\ Where[HandOf(s)] = Held(s)
    /\ Where["early"] = Lines(early) /\ Where["reply"] = Lines(reply)
    /\ Where["events"] = Lines(events) /\ Where["handled"] = Seen

LEMMA WhereIs == WhereFacts
  BY DEF WhereFacts, Where, Place, PipeOf, HandOf, Stream

LEMMA WhereIsNext == WhereFacts'
  BY DEF WhereFacts, Where, Place, PipeOf, HandOf, Stream

LEMMA Places ==
    /\ {"early", "reply", "events", "handled"} \subseteq Place
    /\ \A s \in Stream : PipeOf(s) \in Place /\ HandOf(s) \in Place
    /\ \A s, r \in Stream : /\ PipeOf(s) # HandOf(r)
                          /\ s # r => PipeOf(s) # PipeOf(r) /\ HandOf(s) # HandOf(r)
    /\ \A s \in Stream : {PipeOf(s), HandOf(s)} \cap {"early", "reply", "events", "handled"} = {}
    /\ \A p \in Place : \/ p \in {"early", "reply", "events", "handled"}
                      \/ \E s \in Stream : p = PipeOf(s) \/ p = HandOf(s)
  BY DEF Place, PipeOf, HandOf, Stream

LEMMA SentIs == Sent = UNION {Where[p] : p \in Place}
  <1>1. Sent = (UNION {Lines(pipe[s]) : s \in Stream}) \cup (UNION {Held(s) : s \in Stream})
               \cup Lines(early) \cup Lines(reply) \cup Lines(events) \cup Seen
    BY DEF Sent, Held, Seen
  <1>2. ASSUME NEW l PROVE l \in Sent <=> \E p \in Place : l \in Where[p]
    <2>1. l \in Sent <=> \/ \E s \in Stream : l \in Lines(pipe[s]) \/ l \in Held(s)
                        \/ l \in Lines(early) \/ l \in Lines(reply) \/ l \in Lines(events)
                        \/ l \in Seen
      BY <1>1
    <2> QED
      BY <2>1, WhereIs, Places DEF WhereFacts
  <1> QED
    BY <1>2

LEMMA SentIsNext == Sent' = UNION {Where'[p] : p \in Place}
  <1>1. Sent' = (UNION {Lines(pipe'[s]) : s \in Stream}) \cup (UNION {Held(s)' : s \in Stream})
               \cup Lines(early)' \cup Lines(reply)' \cup Lines(events)' \cup Seen'
    BY DEF Sent, Held, Seen, Lines
  <1>2. ASSUME NEW l PROVE l \in Sent' <=> \E p \in Place : l \in Where'[p]
    <2>1. l \in Sent' <=> \/ \E s \in Stream : l \in Lines(pipe'[s]) \/ l \in Held(s)'
                         \/ l \in Lines(early)' \/ l \in Lines(reply)' \/ l \in Lines(events)'
                         \/ l \in Seen'
      BY <1>1
    <2>2. \A s \in Stream : Lines(pipe[s])' = Lines(pipe'[s])
      BY DEF Lines
    <2> QED
      BY <2>1, <2>2, WhereIsNext, Places DEF WhereFacts
  <1> QED
    BY <1>2

\* No line is in two places.
Apart == \A p, q \in Place : p # q => Where[p] \cap Where[q] = {}

Adds(q, l) ==
    /\ q \in Place /\ l \notin Sent
    /\ Where'[q] = Where[q] \cup {l}
    /\ \A r \in Place : r # q => Where'[r] = Where[r]

Moves(p, q, l) ==
    /\ p \in Place /\ q \in Place /\ p # q /\ l \in Where[p]
    /\ Where'[p] = Where[p] \ {l}
    /\ Where'[q] = Where[q] \cup {l}
    /\ \A r \in Place : r # p /\ r # q => Where'[r] = Where[r]

LEMMA AddsKeeps ==
    ASSUME Apart, NEW q, NEW l, Adds(q, l)
    PROVE  Apart' /\ Sent' = Sent \cup {l}
  <1>1. \A r \in Place : l \notin Where[r]
    BY SentIs DEF Adds
  <1> QED
    BY <1>1, SentIs, SentIsNext DEF Adds, Apart

LEMMA MovesKeeps ==
    ASSUME Apart, NEW p, NEW q, NEW l, Moves(p, q, l)
    PROVE  Apart' /\ Sent' = Sent
  BY SentIs, SentIsNext DEF Moves, Apart

LEMMA SameKeeps ==
    ASSUME Apart, Where' = Where
    PROVE  Apart' /\ Sent' = Sent
  BY SentIs, SentIsNext DEF Apart
------------------------------------------------------------------------------
(***************************************************************************)
(* The inductive invariant.                                                *)
(***************************************************************************)
\* Nothing is emitted before every listener is attached, and nothing is in the
\* reply before it is drained.
RouteInv ==
    /\ \A s \in Stream : reader[s].at = "emitting" => listening
    /\ listening => page \in {"replied", "handling", "live"}
    /\ page # "loading" => attached = Event
    /\ page \in {"loading", "invoking", "draining"} => reply = <<>>

\* Who is between the lock and its release holds it, and nobody puts a line into the
\* buffer once it has been drained.
LockInv ==
    /\ \A s \in Stream : reader[s].at \in {"checking", "pushing"} => lock = s
    /\ page = "draining" => lock = "drain"
    /\ \A s \in Stream : reader[s].at = "pushing" => ~listening
    /\ listening => early = <<>>

QueueInv ==
    /\ \A s \in Stream : Distinct(pipe[s])
    /\ Distinct(early) /\ Distinct(reply) /\ Distinct(events)

\* Call c has left the page and the pipe into the backend.
Taken(c) == c < nextId /\ c \notin invoking /\ c \notin Lines(stdin)

\* A request is in one place too.
RequestInv ==
    /\ Lines(stdin) \subseteq 1..(nextId - 1)
    /\ invoking \cap Lines(stdin) = {}
    /\ Distinct(stdin)
    /\ serving # 0 => Taken(serving)

\* What has been written is behind the backend: the next line it writes is new.
WrittenInv ==
    /\ Ready \in Sent => backend # "starting"
    /\ Exit \in Sent => reader["stdout"].at = "done" \/ Held("stdout") = {Exit}
    /\ \A n \in 1..MaxFaults : Fault(n) \in Sent => n <= faults /\ (warning => n < faults)
    /\ \A c \in CallId, n \in 1..MaxStages :
         Progress(c, n) \in Sent => Taken(c) /\ (c = serving => n <= stage)
    /\ \A c \in CallId : Response(c) \in Sent => Taken(c) /\ c # serving

AnsweredInv ==
    \A c \in CallId : c < nextId /\ c \notin pending => Response(c) \in Seen

ShellInv == /\ TypeOK /\ RouteInv /\ LockInv /\ QueueInv /\ Apart
            /\ RequestInv /\ WrittenInv /\ AnsweredInv
------------------------------------------------------------------------------
(***************************************************************************)
(* What each step does to the places.                                      *)
(***************************************************************************)
\* The parts of a place that a step may leave alone.
LEMMA SamePlaces ==
    /\ \A s \in Stream : pipe'[s] = pipe[s] => Where'[PipeOf(s)] = Where[PipeOf(s)]
    /\ \A s \in Stream : reader'[s] = reader[s] => Where'[HandOf(s)] = Where[HandOf(s)]
    /\ early' = early => Where'["early"] = Where["early"]
    /\ reply' = reply => Where'["reply"] = Where["reply"]
    /\ events' = events => Where'["events"] = Where["events"]
    /\ times' = times => Where'["handled"] = Where["handled"]
  <1> USE WhereIs, WhereIsNext DEF WhereFacts
  <1>1. ASSUME NEW s \in Stream, pipe'[s] = pipe[s] PROVE Where'[PipeOf(s)] = Where[PipeOf(s)]
    <2>1. Lines(pipe[s])' = Lines(pipe[s])
      BY <1>1 DEF Lines
    <2> QED
      BY <2>1
  <1>2. ASSUME NEW s \in Stream, reader'[s] = reader[s] PROVE Where'[HandOf(s)] = Where[HandOf(s)]
    <2>1. Held(s)' = Held(s)
      BY <1>2 DEF Held
    <2> QED
      BY <2>1
  <1>3. early' = early => Where'["early"] = Where["early"]
    BY DEF Lines
  <1>4. reply' = reply => Where'["reply"] = Where["reply"]
    BY DEF Lines
  <1>5. events' = events => Where'["events"] = Where["events"]
    BY DEF Lines
  <1>6. times' = times => Where'["handled"] = Where["handled"]
    BY DEF Seen
  <1> QED
    BY <1>1, <1>2, <1>3, <1>4, <1>5, <1>6

LEMMA QuietPlaces ==
    ASSUME QueueInv, UNCHANGED <<pipe, reader, early, reply, events, times>>
    PROVE  Where' = Where /\ QueueInv'
  BY DEF Where, Held, Seen, Lines, QueueInv, Distinct

LEMMA WritePlaces ==
    ASSUME ShellType, QueueInv, NEW s \in Stream, NEW l \in Line, l \notin Sent,
           Write(s, l), UNCHANGED <<reply, events, times>>
    PROVE  Adds(PipeOf(s), l) /\ QueueInv'
  <1>1. pipe[s] \in Seq(Line) /\ pipe \in [Stream -> Seq(Line)]
    BY DEF ShellType
  <1>2. /\ pipe'[s] = Append(pipe[s], l) /\ \A r \in Stream : r # s => pipe'[r] = pipe[r]
        /\ reader' = reader /\ early' = early
    BY <1>1 DEF Write
  <1>3. l \notin Lines(pipe[s])
    BY SentIs, WhereIs, Places DEF WhereFacts
  <1>4. Lines(pipe'[s]) = Lines(pipe[s]) \cup {l} /\ Distinct(pipe'[s])
    BY <1>1, <1>2, <1>3, LinesAppend DEF QueueInv
  <1>5. Where'[PipeOf(s)] = Where[PipeOf(s)] \cup {l}
    BY <1>4, WhereIs, WhereIsNext DEF WhereFacts, Lines
  <1>6. \A r \in Place : r # PipeOf(s) => Where'[r] = Where[r]
    BY <1>2, SamePlaces, Places
  <1>7. QueueInv'
    BY <1>2, <1>4 DEF QueueInv, Distinct
  <1> QED
    BY <1>5, <1>6, <1>7, Places DEF Adds

\* A reader thread's hand, after a move.
LEMMA MoveHand ==
    ASSUME ShellType, NEW s \in Stream, NEW r, Move(s, r)
    PROVE  reader'[s] = r /\ \A x \in Stream : x # s => reader'[x] = reader[x]
  BY DEF Move, ShellType

LEMMA ReadPlaces ==
    ASSUME ShellType, QueueInv, NEW s \in Stream, ReadLine(s)
    PROVE  Moves(PipeOf(s), HandOf(s), Head(pipe[s])) /\ QueueInv'
  <1>1. /\ pipe[s] \in Seq(Line) /\ pipe[s] # <<>> /\ pipe \in [Stream -> Seq(Line)]
        /\ reader[s].at = "reading"
    BY DEF ReadLine, ShellType
  <1>2. /\ pipe'[s] = Tail(pipe[s]) /\ \A r \in Stream : r # s => pipe'[r] = pipe[r]
        /\ reader'[s] = [at |-> "locking", line |-> Head(pipe[s])]
        /\ \A r \in Stream : r # s => reader'[r] = reader[r]
        /\ early' = early /\ UNCHANGED <<reply, events, times>>
    BY <1>1, MoveHand DEF ReadLine, Holding, webview
  <1>3. /\ Head(pipe[s]) \in Lines(pipe[s])
        /\ Lines(pipe'[s]) = Lines(pipe[s]) \ {Head(pipe[s])} /\ Distinct(pipe'[s])
    BY <1>1, <1>2, LinesTail DEF QueueInv
  <1>4. Held(s) = {} /\ Held(s)' = {Head(pipe[s])}
    BY <1>1, <1>2 DEF Held
  <1>5. /\ Where'[PipeOf(s)] = Where[PipeOf(s)] \ {Head(pipe[s])}
        /\ Where'[HandOf(s)] = Where[HandOf(s)] \cup {Head(pipe[s])}
        /\ Head(pipe[s]) \in Where[PipeOf(s)]
    BY <1>3, <1>4, WhereIs, WhereIsNext DEF WhereFacts, Lines
  <1>6. \A r \in Place : r # PipeOf(s) /\ r # HandOf(s) => Where'[r] = Where[r]
    BY <1>2, SamePlaces, Places
  <1>7. QueueInv'
    BY <1>2, <1>3 DEF QueueInv, Distinct
  <1> QED
    BY <1>5, <1>6, <1>7, Places DEF Moves

LEMMA EndPlaces ==
    ASSUME ShellType, QueueInv, WrittenInv, NEW s \in Stream, EndOfStream(s)
    PROVE  /\ QueueInv'
           /\ IF s = "stdout" THEN Adds(HandOf(s), Exit) ELSE Where' = Where
  <1>1. reader[s].at = "reading" /\ Held(s) = {}
    BY DEF EndOfStream, Held
  <1>2. /\ reader'[s] = IF s = "stdout" THEN [at |-> "locking", line |-> Exit] ELSE Done
        /\ \A r \in Stream : r # s => reader'[r] = reader[r]
        /\ UNCHANGED <<pipe, early, reply, events, times>>
    BY MoveHand DEF EndOfStream, Holding, webview
  <1>3. QueueInv'
    BY <1>2 DEF QueueInv, Distinct
  <1>4. \A r \in Place : r # HandOf(s) => Where'[r] = Where[r]
    BY <1>2, SamePlaces, Places
  <1>5. CASE s = "stdout"
    <2>1. Exit \notin Sent
      BY <1>1, <1>5 DEF WrittenInv
    <2>2. Held(s)' = {Exit}
      BY <1>2, <1>5 DEF Held
    <2>3. Where'[HandOf(s)] = Where[HandOf(s)] \cup {Exit}
      BY <1>1, <2>2, WhereIs, WhereIsNext DEF WhereFacts
    <2> QED
      BY <1>3, <1>4, <1>5, <2>1, <2>3, Places DEF Adds
  <1>6. CASE s # "stdout"
    <2>1. Held(s)' = {}
      BY <1>2, <1>6 DEF Held, Done
    <2>2. Where'[HandOf(s)] = Where[HandOf(s)]
      BY <1>1, <2>1, WhereIs, WhereIsNext DEF WhereFacts
    <2>3. \A r \in Place : Where'[r] = Where[r]
      BY <1>4, <2>2
    <2>4. Where' = Where
      BY <2>3 DEF Where
    <2> QED
      BY <1>3, <1>6, <2>4
  <1> QED
    BY <1>5, <1>6

LEMMA WaitPlaces ==
    ASSUME ShellType, QueueInv, NEW s \in Stream, TakeLock(s) \/ CheckFlag(s)
    PROVE  Where' = Where /\ QueueInv'
  <1>1. /\ reader[s].at \in {"locking", "checking"}
        /\ reader'[s].at \in {"checking", "emitting", "pushing"}
        /\ reader'[s].line = reader[s].line
        /\ \A r \in Stream : r # s => reader'[r] = reader[r]
        /\ UNCHANGED <<pipe, early, reply, events, times>>
    BY MoveHand DEF TakeLock, CheckFlag, Holding, webview
  <1>2. Held(s)' = Held(s)
    BY <1>1 DEF Held
  <1>3. Where'[HandOf(s)] = Where[HandOf(s)]
    BY <1>2, WhereIs, WhereIsNext DEF WhereFacts
  <1>4. \A r \in Place : Where'[r] = Where[r]
    BY <1>1, <1>3, SamePlaces, Places
  <1>5. Where' = Where
    BY <1>4 DEF Where
  <1> QED
    BY <1>1, <1>5 DEF QueueInv, Distinct
LEMMA PushPlaces ==
    ASSUME ShellType, QueueInv, Apart, NEW s \in Stream, Push(s)
    PROVE  Moves(HandOf(s), "early", reader[s].line) /\ QueueInv'
  <1>0. reader[s].line \in Line /\ Held(s) = {reader[s].line}
    BY DEF Push, Held, ShellType
  <1> PICK l \in Line : l = reader[s].line /\ Held(s) = {l}
    BY <1>0
  <1>1. l \in Line /\ early \in Seq(Line) /\ Held(s) = {l}
    BY DEF ShellType
  <1>2. /\ reader'[s].at \in {"reading", "done"}
        /\ \A r \in Stream : r # s => reader'[r] = reader[r]
        /\ early' = Append(early, l) /\ UNCHANGED <<pipe, reply, events, times>>
    BY MoveHand DEF Push, AfterLine, Reading, Done, webview
  <1>3. l \notin Lines(early)
    <2>1. l \in Where[HandOf(s)] /\ HandOf(s) \in Place /\ "early" \in Place /\ HandOf(s) # "early"
      <3>1. HandOf(s) \in Place /\ "early" \in Place /\ HandOf(s) # "early"
        BY Places
      <3>2. Where[HandOf(s)] = Held(s)
        BY WhereIs DEF WhereFacts
      <3> QED
        BY <1>1, <3>1, <3>2
    <2> QED
      BY <2>1, WhereIs DEF WhereFacts, Apart
  <1>4. Lines(early') = Lines(early) \cup {l} /\ Distinct(early')
    BY <1>1, <1>2, <1>3, LinesAppend DEF QueueInv
  <1>5. Held(s)' = {}
    BY <1>2 DEF Held
  <1>6. /\ Where'[HandOf(s)] = Where[HandOf(s)] \ {l} /\ l \in Where[HandOf(s)]
        /\ Where'["early"] = Where["early"] \cup {l}
    <2>1. Lines(early)' = Lines(early') /\ Held(s) = {l}
      BY <1>1 DEF Lines
    <2> QED
      BY <1>4, <1>5, <2>1, WhereIs, WhereIsNext DEF WhereFacts
  <1>7. \A r \in Place : r # HandOf(s) /\ r # "early" => Where'[r] = Where[r]
    BY <1>2, SamePlaces, Places
  <1>8. QueueInv'
    BY <1>2, <1>4 DEF QueueInv, Distinct
  <1> QED
    BY <1>6, <1>7, <1>8, Places DEF Moves

LEMMA EventOfLine == \A l \in Line : EventOf(l) \in Event
  BY DEF EventOf, Event

LEMMA EmitPlaces ==
    ASSUME ShellType, PageType, QueueInv, Apart, RouteInv, NEW s \in Stream, Emit(s)
    PROVE  Moves(HandOf(s), "events", reader[s].line) /\ QueueInv'
  <1>0. reader[s].line \in Line /\ Held(s) = {reader[s].line}
    BY DEF Emit, Held, ShellType
  <1> PICK l \in Line : l = reader[s].line /\ Held(s) = {l}
    BY <1>0
  <1>1. l \in Line /\ events \in Seq(Line) /\ Held(s) = {l}
    BY DEF PageType
  <1>2. attached = Event
    BY DEF Emit, RouteInv
  <1>3. /\ reader'[s].at \in {"reading", "done"}
        /\ \A r \in Stream : r # s => reader'[r] = reader[r]
        /\ events' = Append(events, l) /\ UNCHANGED <<pipe, early, reply, times>>
    BY <1>1, <1>2, MoveHand, EventOfLine DEF Emit, AfterLine, Reading, Done
  <1>4. l \notin Lines(events)
    <2>1. l \in Where[HandOf(s)] /\ HandOf(s) \in Place /\ "events" \in Place /\ HandOf(s) # "events"
      <3>1. HandOf(s) \in Place /\ "events" \in Place /\ HandOf(s) # "events"
        BY Places
      <3>2. Where[HandOf(s)] = Held(s)
        BY WhereIs DEF WhereFacts
      <3> QED
        BY <1>1, <3>1, <3>2
    <2> QED
      BY <2>1, WhereIs DEF WhereFacts, Apart
  <1>5. Lines(events') = Lines(events) \cup {l} /\ Distinct(events')
    BY <1>1, <1>3, <1>4, LinesAppend DEF QueueInv
  <1>6. Held(s)' = {}
    BY <1>3 DEF Held
  <1>7. /\ Where'[HandOf(s)] = Where[HandOf(s)] \ {l} /\ l \in Where[HandOf(s)]
        /\ Where'["events"] = Where["events"] \cup {l}
    <2>1. Lines(events)' = Lines(events') /\ Held(s) = {l}
      BY <1>1 DEF Lines
    <2> QED
      BY <1>5, <1>6, <2>1, WhereIs, WhereIsNext DEF WhereFacts
  <1>8. \A r \in Place : r # HandOf(s) /\ r # "events" => Where'[r] = Where[r]
    BY <1>3, SamePlaces, Places
  <1>9. QueueInv'
    BY <1>3, <1>5 DEF QueueInv, Distinct
  <1> QED
    BY <1>7, <1>8, <1>9, Places DEF Moves

\* The buffer becomes the reply.
LEMMA DrainPlaces ==
    ASSUME QueueInv, Apart, RouteInv, Drain
    PROVE  Apart' /\ Sent' = Sent /\ QueueInv'
  <1>1. reply = <<>> /\ reply' = early /\ early' = <<>> /\ UNCHANGED <<pipe, reader, events, times>>
    BY DEF Drain, RouteInv
  <1>2. /\ Where'["reply"] = Where["early"] /\ Where'["early"] = Where["reply"]
        /\ Where["reply"] = {}
    <2>1. Lines(reply)' = Lines(early) /\ Lines(early)' = {} /\ Lines(reply) = {}
      BY <1>1, LinesOf DEF Lines
    <2> QED
      BY <2>1, WhereIs, WhereIsNext DEF WhereFacts
  <1>3. \A r \in Place : r # "early" /\ r # "reply" => Where'[r] = Where[r]
    BY <1>1, SamePlaces, Places
  <1>4. Apart'
    BY <1>2, <1>3, Places DEF Apart
  <1>5. Sent' = Sent
    <2>1. UNION {Where'[p] : p \in Place} = UNION {Where[p] : p \in Place}
      BY <1>2, <1>3, Places
    <2> QED
      BY <2>1, SentIs, SentIsNext
  <1>6. QueueInv'
    BY <1>1, LinesOf DEF QueueInv, Distinct
  <1> QED
    BY <1>4, <1>5, <1>6

\* A line a handler is given.
LEMMA DispatchSeen ==
    ASSUME CallType, NEW l \in Line, Dispatch(l)
    PROVE  Seen' = Seen \cup {l}
  <1>1. times' = [times EXCEPT ![l] = times[l] + 1] /\ times \in [Line -> Nat]
    BY DEF Dispatch, CallType
  <1> QED
    BY <1>1 DEF Seen

LEMMA ReplyPlaces ==
    ASSUME TypeOK, QueueInv, HandleReply, reply # <<>>
    PROVE  /\ Moves("reply", "handled", Head(reply)) /\ QueueInv'
           /\ Head(reply) \in Line /\ Dispatch(Head(reply))
  <1>1. reply \in Seq(Line) /\ CallType
    BY Types DEF PageType
  <1>2. /\ reply' = Tail(reply) /\ Dispatch(Head(reply))
        /\ UNCHANGED <<pipe, reader, early, events>>
    BY DEF HandleReply, shell
  <1>3. /\ Head(reply) \in Lines(reply) /\ Head(reply) \in Line
        /\ Lines(reply') = Lines(reply) \ {Head(reply)} /\ Distinct(reply')
    BY <1>1, <1>2, LinesTail DEF QueueInv
  <1>4. Seen' = Seen \cup {Head(reply)}
    BY <1>1, <1>2, <1>3, DispatchSeen
  <1>5. /\ Where'["reply"] = Where["reply"] \ {Head(reply)} /\ Head(reply) \in Where["reply"]
        /\ Where'["handled"] = Where["handled"] \cup {Head(reply)}
    BY <1>3, <1>4, WhereIs, WhereIsNext DEF WhereFacts, Lines
  <1>6. \A r \in Place : r # "reply" /\ r # "handled" => Where'[r] = Where[r]
    BY <1>2, SamePlaces, Places
  <1>7. QueueInv'
    BY <1>2, <1>3 DEF QueueInv, Distinct
  <1> QED
    BY <1>2, <1>3, <1>5, <1>6, <1>7, Places DEF Moves

LEMMA EventPlaces ==
    ASSUME TypeOK, QueueInv, HandleEvent
    PROVE  /\ Moves("events", "handled", Head(events)) /\ QueueInv'
           /\ Head(events) \in Line /\ Dispatch(Head(events))
  <1>1. events \in Seq(Line) /\ CallType /\ events # <<>>
    BY Types DEF PageType, HandleEvent
  <1>2. /\ events' = Tail(events) /\ Dispatch(Head(events))
        /\ UNCHANGED <<pipe, reader, early, reply>>
    BY DEF HandleEvent, shell
  <1>3. /\ Head(events) \in Lines(events) /\ Head(events) \in Line
        /\ Lines(events') = Lines(events) \ {Head(events)} /\ Distinct(events')
    BY <1>1, <1>2, LinesTail DEF QueueInv
  <1>4. Seen' = Seen \cup {Head(events)}
    BY <1>1, <1>2, <1>3, DispatchSeen
  <1>5. /\ Where'["events"] = Where["events"] \ {Head(events)}
        /\ Head(events) \in Where["events"]
        /\ Where'["handled"] = Where["handled"] \cup {Head(events)}
    BY <1>3, <1>4, WhereIs, WhereIsNext DEF WhereFacts, Lines
  <1>6. \A r \in Place : r # "events" /\ r # "handled" => Where'[r] = Where[r]
    BY <1>2, SamePlaces, Places
  <1>7. QueueInv'
    BY <1>2, <1>3 DEF QueueInv, Distinct
  <1> QED
    BY <1>2, <1>3, <1>5, <1>6, <1>7, Places DEF Moves
------------------------------------------------------------------------------
(***************************************************************************)
(* Each step, seen from the places: it writes a new line, or moves lines.  *)
(***************************************************************************)
Produces(l) == /\ QueueInv' /\ Apart'
               /\ l \in Line /\ l \notin Sent /\ Sent' = Sent \cup {l}

Still == QueueInv' /\ Apart' /\ Sent' = Sent

LEMMA WriteProduces ==
    ASSUME ShellInv, NEW s \in Stream, NEW l \in Line, l \notin Sent, Write(s, l),
           UNCHANGED <<reply, events, times>>
    PROVE  Produces(l)
  <1>1. ShellType /\ QueueInv /\ Apart
    BY Types DEF ShellInv
  <1>2. Adds(PipeOf(s), l) /\ QueueInv'
    BY <1>1, WritePlaces
  <1> QED
    BY <1>1, <1>2, AddsKeeps DEF Produces

LEMMA AnnounceWrites == ShellInv /\ Announce => Produces(Ready)
  <1> SUFFICES ASSUME ShellInv, Announce PROVE Produces(Ready)
    OBVIOUS
  <1>1. Ready \notin Sent
    BY DEF ShellInv, WrittenInv, Announce
  <1>2. "stdout" \in Stream /\ Write("stdout", Ready) /\ UNCHANGED <<reply, events, times>>
    BY DEF Announce, Stream, webview
  <1> QED
    BY <1>1, <1>2, LineKinds, WriteProduces

LEMMA ReportWrites ==
    ASSUME ShellInv, ReportProgress
    PROVE  \E c \in CallId, n \in 1..MaxStages :
             /\ c = serving /\ n = stage + 1
             /\ Produces(Progress(c, n))
  <1>1. ProcessType
    BY Types DEF ShellInv
  <1>2. serving \in CallId /\ stage + 1 \in 1..MaxStages /\ ~(stage + 1 <= stage)
    BY <1>1 DEF ProcessType, ReportProgress
  <1> PICK c \in CallId, n \in 1..MaxStages : c = serving /\ n = stage + 1
    BY <1>2
  <1>3. Progress(c, n) \notin Sent
    BY <1>2 DEF ShellInv, WrittenInv
  <1>4. /\ "stdout" \in Stream /\ Write("stdout", Progress(c, n))
        /\ UNCHANGED <<reply, events, times>>
    BY DEF ReportProgress, Stream, webview
  <1> QED
    BY <1>3, <1>4, LineKinds, WriteProduces

LEMMA RespondWrites ==
    ASSUME ShellInv, Respond
    PROVE  \E c \in CallId : c = serving /\ Produces(Response(c))
  <1>1. ProcessType
    BY Types DEF ShellInv
  <1>2. serving \in CallId
    BY <1>1 DEF ProcessType, Respond
  <1> PICK c \in CallId : c = serving
    BY <1>2
  <1>3. Response(c) \notin Sent
    BY DEF ShellInv, WrittenInv
  <1>4. /\ "stdout" \in Stream /\ Write("stdout", Response(c))
        /\ UNCHANGED <<reply, events, times>>
    BY DEF Respond, Stream, webview
  <1> QED
    BY <1>3, <1>4, LineKinds, WriteProduces

LEMMA WarnWrites ==
    ASSUME ShellInv, Warn
    PROVE  \E n \in 1..MaxFaults : n = faults /\ Produces(Fault(n))
  <1>1. ProcessType
    BY Types DEF ShellInv
  <1>2. faults \in 1..MaxFaults /\ ~(faults < faults) /\ warning
    BY <1>1, BoundAssumption DEF ProcessType, Warn
  <1> PICK n \in 1..MaxFaults : n = faults
    BY <1>2
  <1>3. Fault(n) \notin Sent
    BY <1>2 DEF ShellInv, WrittenInv
  <1>4. /\ "stderr" \in Stream /\ Write("stderr", Fault(n))
        /\ UNCHANGED <<reply, events, times>>
    BY DEF Warn, Stream, webview
  <1> QED
    BY <1>3, <1>4, LineKinds, WriteProduces

LEMMA EndWrites ==
    ASSUME ShellInv, NEW s \in Stream, EndOfStream(s)
    PROVE  IF s = "stdout" THEN Produces(Exit) ELSE Still
  <1>1. ShellType /\ QueueInv /\ Apart /\ WrittenInv
    BY Types DEF ShellInv
  <1>2. /\ QueueInv'
        /\ IF s = "stdout" THEN Adds(HandOf(s), Exit) ELSE Where' = Where
    BY <1>1, EndPlaces
  <1>3. CASE s = "stdout"
    <2>1. Adds(HandOf(s), Exit) /\ Exit \notin Sent
      BY <1>2, <1>3 DEF Adds
    <2> QED
      BY <1>1, <1>2, <1>3, <2>1, AddsKeeps, LineKinds DEF Produces
  <1>4. CASE s # "stdout"
    BY <1>1, <1>2, <1>4, SameKeeps DEF Still
  <1> QED
    BY <1>3, <1>4

LEMMA ReaderMoves ==
    ASSUME ShellInv, NEW s \in Stream,
           ReadLine(s) \/ TakeLock(s) \/ CheckFlag(s) \/ Push(s) \/ Emit(s)
    PROVE  Still
  <1>1. ShellType /\ PageType /\ QueueInv /\ Apart /\ RouteInv
    BY Types DEF ShellInv
  <1>2. CASE ReadLine(s)
    BY <1>1, <1>2, ReadPlaces, MovesKeeps DEF Still
  <1>3. CASE TakeLock(s) \/ CheckFlag(s)
    BY <1>1, <1>3, WaitPlaces, SameKeeps DEF Still
  <1>4. CASE Push(s)
    BY <1>1, <1>4, PushPlaces, MovesKeeps DEF Still
  <1>5. CASE Emit(s)
    BY <1>1, <1>5, EmitPlaces, MovesKeeps DEF Still
  <1> QED
    BY <1>2, <1>3, <1>4, <1>5

\* The handlers get a line that is in a queue, so not one handled before.
Fresh(l) == l \in Line /\ l \in Sent /\ l \notin Seen /\ Dispatch(l)

LEMMA HandlersMove ==
    ASSUME ShellInv, HandleReply \/ HandleEvent
    PROVE  /\ Still
           /\ closed' = closed /\ ~closed
           /\ UNCHANGED <<calling, status, times>> \/ \E l \in Line : Fresh(l)
  <1>1. TypeOK /\ QueueInv /\ Apart
    BY DEF ShellInv
  <1>2. CASE HandleReply /\ reply = <<>>
    <2>1. UNCHANGED <<pipe, reader, early, reply, events, calling, status, times>>
      BY <1>2 DEF HandleReply, shell
    <2> QED
      BY <1>1, <1>2, <2>1, QuietPlaces, SameKeeps DEF Still, HandleReply
  <1>3. CASE HandleReply /\ reply # <<>>
    <2>1. /\ Moves("reply", "handled", Head(reply)) /\ QueueInv'
          /\ Head(reply) \in Line /\ Dispatch(Head(reply))
      BY <1>1, <1>3, ReplyPlaces
    <2>2. Still
      BY <1>1, <2>1, MovesKeeps DEF Still
    <2>3. Head(reply) \in Sent /\ Head(reply) \notin Seen
      BY <1>1, <2>1, SentIs, WhereIs DEF WhereFacts, Moves, Apart
    <2> QED
      BY <1>3, <2>1, <2>2, <2>3 DEF Fresh, HandleReply
  <1>4. CASE HandleEvent
    <2>1. /\ Moves("events", "handled", Head(events)) /\ QueueInv'
          /\ Head(events) \in Line /\ Dispatch(Head(events))
      BY <1>1, <1>4, EventPlaces
    <2>2. Still
      BY <1>1, <2>1, MovesKeeps DEF Still
    <2>3. Head(events) \in Sent /\ Head(events) \notin Seen
      BY <1>1, <2>1, SentIs, WhereIs DEF WhereFacts, Moves, Apart
    <2> QED
      BY <1>4, <2>1, <2>2, <2>3 DEF Fresh, HandleEvent
  <1> QED
    BY <1>2, <1>3, <1>4

LEMMA OthersAreStill ==
    ASSUME ShellInv,
           \/ ReadRequest \/ Complain \/ Die \/ (\E e \in Event : Attach(e)) \/ InvokeDrain
           \/ DrainLock \/ Drain \/ MakeCall \/ (\E c \in CallId : CallBackend(c)) \/ CloseWindow
           \/ UNCHANGED vars
    PROVE  Still /\ times' = times
  <1>1. QueueInv /\ Apart /\ RouteInv
    BY DEF ShellInv
  <1>2. CASE Drain
    BY <1>1, <1>2, DrainPlaces DEF Still, Drain
  <1>3. CASE ~Drain
    <2>1. UNCHANGED <<pipe, reader, early, reply, events, times>>
      BY <1>3 DEF ReadRequest, Complain, Die, Attach, InvokeDrain, DrainLock, MakeCall,
                  CallBackend, CloseWindow, shell, webview, vars
    <2> QED
      BY <1>1, <2>1, QuietPlaces, SameKeeps DEF Still
  <1> QED
    BY <1>2, <1>3

LEMMA PlacesStep == ShellInv /\ [Next]_vars => QueueInv' /\ Apart'
  <1> SUFFICES ASSUME ShellInv, [Next]_vars PROVE QueueInv' /\ Apart'
    OBVIOUS
  <1>1. CASE Announce \/ ReportProgress \/ Respond \/ Warn
    BY <1>1, AnnounceWrites, ReportWrites, RespondWrites, WarnWrites DEF Produces
  <1>2. ASSUME NEW s \in Stream, ReaderStep(s) PROVE QueueInv' /\ Apart'
    <2>1. CASE EndOfStream(s)
      BY <2>1, EndWrites DEF Produces, Still
    <2> QED
      BY <1>2, <2>1, ReaderMoves DEF ReaderStep, Still
  <1>3. CASE HandleReply \/ HandleEvent
    BY <1>3, HandlersMove DEF Still
  <1>4. CASE \/ ReadRequest \/ Complain \/ Die \/ (\E e \in Event : Attach(e)) \/ InvokeDrain
             \/ DrainLock \/ Drain \/ MakeCall \/ (\E c \in CallId : CallBackend(c)) \/ CloseWindow
             \/ UNCHANGED vars
    BY <1>4, OthersAreStill DEF Still
  <1> QED
    BY <1>1, <1>2, <1>3, <1>4 DEF Next
------------------------------------------------------------------------------
(***************************************************************************)
(* Routes and the lock.                                                    *)
(***************************************************************************)
LEMMA RouteStep == ShellInv /\ [Next]_vars => RouteInv'
  <1> SUFFICES ASSUME ShellInv, [Next]_vars PROVE RouteInv'
    OBVIOUS
  <1>1. RouteInv /\ ShellType /\ PageType
    BY Types DEF ShellInv
  <1>2. ASSUME UNCHANGED <<listening, page, attached, reply>>,
               \A s \in Stream : reader'[s].at = "emitting" => listening
        PROVE  RouteInv'
    BY <1>1, <1>2 DEF RouteInv
  <1>3. ASSUME NEW s \in Stream, ReaderStep(s) PROVE RouteInv'
    <2>1. UNCHANGED <<listening, page, attached, reply>>
      BY <1>3 DEF ReaderStep, ReadLine, EndOfStream, TakeLock, CheckFlag, Push, Emit, webview
    <2>2. \A x \in Stream : x # s => reader'[x] = reader[x]
      BY <1>1, <1>3, MoveHand
         DEF ReaderStep, ReadLine, EndOfStream, TakeLock, CheckFlag, Push, Emit
    <2>3. reader'[s].at = "emitting" => listening
      BY <1>1, <1>3, MoveHand
         DEF ReaderStep, ReadLine, EndOfStream, TakeLock, CheckFlag, Push, Emit, Holding, Done,
             Reading, AfterLine
    <2> QED
      BY <1>1, <1>2, <2>1, <2>2, <2>3 DEF RouteInv
  <1>4. ASSUME NEW e \in Event, Attach(e) PROVE RouteInv'
    BY <1>1, <1>4 DEF RouteInv, Attach, shell
  <1>5. CASE InvokeDrain
    BY <1>1, <1>5 DEF RouteInv, InvokeDrain, shell
  <1>6. CASE DrainLock
    BY <1>1, <1>6 DEF RouteInv, DrainLock
  <1>7. CASE Drain
    BY <1>1, <1>7 DEF RouteInv, Drain
  <1>8. CASE HandleReply
    BY <1>1, <1>8 DEF RouteInv, HandleReply, shell
  <1>9. CASE UNCHANGED <<listening, reader, page, attached, reply>>
    BY <1>1, <1>2, <1>9 DEF RouteInv
  <1>10. Announce \/ ReadRequest \/ ReportProgress \/ Respond \/ Complain \/ Warn \/ Die
         \/ HandleEvent \/ MakeCall \/ (\E c \in CallId : CallBackend(c)) \/ CloseWindow \/ UNCHANGED vars
         => UNCHANGED <<listening, reader, page, attached, reply>>
    BY DEF Announce, ReadRequest, ReportProgress, Respond, Complain, Warn, Die, HandleEvent,
           MakeCall, CallBackend, CloseWindow, Write, shell, webview, vars
  <1> QED
    BY <1>3, <1>4, <1>5, <1>6, <1>7, <1>8, <1>9, <1>10 DEF Next

LEMMA LockStep == ShellInv /\ [Next]_vars => LockInv'
  <1> SUFFICES ASSUME ShellInv, [Next]_vars PROVE LockInv'
    OBVIOUS
  <1>1. RouteInv /\ LockInv /\ ShellType /\ PageType
    BY Types DEF ShellInv
  <1>s. \A x \in Stream : x # Nobody /\ x # "drain"
    BY DEF Stream, Nobody
  <1>2. ASSUME NEW s \in Stream, ReaderStep(s) PROVE LockInv'
    <2>1. \A x \in Stream : x # s => reader'[x] = reader[x]
      BY <1>1, <1>2, MoveHand
         DEF ReaderStep, ReadLine, EndOfStream, TakeLock, CheckFlag, Push, Emit
    <2>2. UNCHANGED <<listening, page>>
      BY <1>2 DEF ReaderStep, ReadLine, EndOfStream, TakeLock, CheckFlag, Push, Emit, webview
    <2>3. CASE ReadLine(s) \/ EndOfStream(s) \/ Emit(s)
      <3>1. reader'[s].at \notin {"checking", "pushing"} /\ UNCHANGED <<lock, early>>
        BY <1>1, <2>3, MoveHand
           DEF ReadLine, EndOfStream, Emit, Holding, Done, Reading, AfterLine
      <3> QED
        BY <1>1, <2>1, <2>2, <3>1 DEF LockInv
    <2>4. CASE TakeLock(s)
      <3>1. reader'[s].at = "checking" /\ lock = Nobody /\ lock' = s /\ early' = early
        BY <1>1, <2>4, MoveHand DEF TakeLock, Holding
      <3>2. \A x \in Stream : reader[x].at \notin {"checking", "pushing"}
        BY <1>1, <1>s, <3>1 DEF LockInv
      <3>3. page # "draining"
        BY <1>1, <3>1 DEF LockInv, Nobody
      <3> QED
        BY <1>1, <2>1, <2>2, <3>1, <3>2, <3>3 DEF LockInv
    <2>5. CASE CheckFlag(s)
      <3>1. /\ reader[s].at = "checking" /\ early' = early
            /\ reader'[s].at = (IF listening THEN "emitting" ELSE "pushing")
            /\ lock' = IF listening THEN Nobody ELSE s
        BY <1>1, <2>5, MoveHand DEF CheckFlag, Holding
      <3>2. lock = s /\ \A x \in Stream : x # s => reader[x].at \notin {"checking", "pushing"}
        BY <1>1, <3>1 DEF LockInv
      <3>3. page # "draining"
        BY <1>1, <1>s, <3>2 DEF LockInv
      <3> QED
        BY <1>1, <2>1, <2>2, <3>1, <3>2, <3>3 DEF LockInv
    <2>6. CASE Push(s)
      <3>1. /\ reader[s].at = "pushing" /\ reader'[s].at \in {"reading", "done"}
            /\ lock' = Nobody
        BY <1>1, <2>6, MoveHand DEF Push, AfterLine, Done, Reading
      <3>2. lock = s /\ \A x \in Stream : x # s => reader[x].at \notin {"checking", "pushing"}
        BY <1>1, <3>1 DEF LockInv
      <3>3. page # "draining" /\ ~listening
        BY <1>1, <1>s, <3>1, <3>2 DEF LockInv
      <3> QED
        BY <1>1, <2>1, <2>2, <3>1, <3>2, <3>3 DEF LockInv
    <2> QED
      BY <1>2, <2>3, <2>4, <2>5, <2>6 DEF ReaderStep
  <1>3. CASE DrainLock
    <2>1. /\ lock = Nobody /\ lock' = "drain"
          /\ UNCHANGED <<reader, listening, early>>
      BY <1>3 DEF DrainLock
    <2>2. \A x \in Stream : reader[x].at \notin {"checking", "pushing"}
      BY <1>1, <1>s, <2>1 DEF LockInv
    <2> QED
      BY <1>1, <2>1, <2>2 DEF LockInv
  <1>4. CASE Drain
    <2>1. page = "draining" /\ page' = "replied" /\ early' = <<>> /\ reader' = reader
      BY <1>4 DEF Drain
    <2>2. \A x \in Stream : reader[x].at \notin {"checking", "pushing"}
      BY <1>1, <1>s, <2>1 DEF LockInv
    <2> QED
      BY <2>1, <2>2 DEF LockInv
  <1>5. CASE UNCHANGED <<reader, lock, listening, early>> /\ (page' = "draining" => page = page')
    BY <1>1, <1>5 DEF LockInv
  <1>6. Announce \/ ReadRequest \/ ReportProgress \/ Respond \/ Complain \/ Warn \/ Die
        \/ (\E e \in Event : Attach(e)) \/ InvokeDrain \/ HandleReply \/ HandleEvent
        \/ MakeCall \/ (\E c \in CallId : CallBackend(c)) \/ CloseWindow \/ UNCHANGED vars
         => UNCHANGED <<reader, lock, listening, early>> /\ (page' = "draining" => page = page')
    BY DEF Announce, ReadRequest, ReportProgress, Respond, Complain, Warn, Die, Attach, InvokeDrain,
           HandleReply, HandleEvent, MakeCall, CallBackend, CloseWindow, Write, shell, webview, vars
  <1> QED
    BY <1>2, <1>3, <1>4, <1>5, <1>6 DEF Next
------------------------------------------------------------------------------
(***************************************************************************)
(* Requests.                                                               *)
(***************************************************************************)
\* The page's own steps: it registers a call, or not.
LEMMA PageRegisters ==
    ASSUME TypeOK, HandleReply \/ HandleEvent \/ MakeCall
    PROVE  /\ UNCHANGED process
           /\ \/ UNCHANGED <<nextId, invoking>>
              \/ nextId' = nextId + 1 /\ invoking' = invoking \cup {nextId}
  BY DEF HandleReply, HandleEvent, MakeCall, Dispatch, Register, calling

LEMMA RequestStep ==
    ASSUME ShellInv, [Next]_vars
    PROVE  /\ RequestInv'
           /\ \A c \in CallId : Taken(c) => Taken(c)'
           /\ serving' # serving => serving' = 0 \/ ~Taken(serving')
  <1>1. RequestInv /\ ProcessType /\ CallType
    BY Types DEF ShellInv
  <1>n. nextId \in Nat /\ stdin \in Seq(CallId)
    BY <1>1 DEF CallType, ProcessType
  <1>2. CASE ReadRequest
    <2>1. /\ serving' = Head(stdin) /\ stdin' = Tail(stdin) /\ stdin # <<>>
          /\ UNCHANGED <<nextId, invoking>>
      BY <1>2 DEF ReadRequest, calling
    <2>2. /\ Head(stdin) \in Lines(stdin) /\ Lines(stdin') = Lines(stdin) \ {Head(stdin)}
          /\ Distinct(stdin')
      BY <1>1, <1>n, <2>1, LinesTail DEF RequestInv
    <2>l. Lines(stdin)' = Lines(stdin') /\ Distinct(stdin)' = Distinct(stdin')
      BY DEF Lines, Distinct
    <2>3. Head(stdin) < nextId /\ Head(stdin) \notin invoking
      BY <1>1, <1>n, <2>2 DEF RequestInv
    <2>4. \A c \in CallId : Taken(c) => Taken(c)'
      BY <2>1, <2>2, <2>l DEF Taken
    <2>5. Taken(serving)'
      BY <2>1, <2>2, <2>3, <2>l DEF Taken
    <2>6. ~Taken(serving')
      BY <2>1, <2>2 DEF Taken
    <2> QED
      BY <1>1, <2>1, <2>2, <2>4, <2>5, <2>6, <2>l DEF RequestInv
  <1>3. ASSUME NEW c \in CallId, CallBackend(c)
        PROVE  /\ RequestInv' /\ serving' = serving
               /\ \A d \in CallId : Taken(d) => Taken(d)'
    <2>1. /\ c \in invoking /\ invoking' = invoking \ {c}
          /\ UNCHANGED <<nextId, serving>>
          /\ stdin' = Append(stdin, c) \/ stdin' = stdin
      BY <1>3 DEF CallBackend
    <2>2. c \in 1..(nextId - 1) /\ c \notin Lines(stdin)
      BY <1>1, <2>1 DEF RequestInv, CallType
    <2>3. /\ Lines(stdin') = Lines(stdin) \cup {c} \/ Lines(stdin') = Lines(stdin)
          /\ Distinct(stdin')
      <3>1. Distinct(stdin)
        BY <1>1 DEF RequestInv
      <3>2. Lines(Append(stdin, c)) = Lines(stdin) \cup {c} /\ Distinct(Append(stdin, c))
        BY <1>n, <2>2, <3>1, LinesAppend
      <3> QED
        BY <2>1, <3>1, <3>2
    <2>l. Lines(stdin)' = Lines(stdin') /\ Distinct(stdin)' = Distinct(stdin')
      BY DEF Lines, Distinct
    <2>4. \A d : Taken(d) => Taken(d)'
      BY <2>1, <2>3, <2>l DEF Taken
    <2>5. serving' # 0 => Taken(serving)'
      BY <1>1, <2>1, <2>3, <2>l DEF Taken, RequestInv
    <2> QED
      BY <1>1, <2>1, <2>2, <2>3, <2>4, <2>5, <2>l DEF RequestInv
  <1>4. CASE HandleReply \/ HandleEvent \/ MakeCall
    <2>0. TypeOK
      BY DEF ShellInv
    <2>1. UNCHANGED <<serving, stdin>>
      BY <1>4, <2>0, PageRegisters DEF process
    <2>2. CASE UNCHANGED <<nextId, invoking>>
      BY <1>1, <2>1, <2>2 DEF RequestInv, Taken, Lines, Distinct
    <2>3. CASE nextId' = nextId + 1 /\ invoking' = invoking \cup {nextId}
      <3>1. nextId \notin Lines(stdin) /\ 1..(nextId - 1) \subseteq 1..(nextId' - 1)
        BY <1>1, <1>n, <2>3 DEF RequestInv
      <3>l. Lines(stdin)' = Lines(stdin) /\ Distinct(stdin)' = Distinct(stdin)
        BY <2>1 DEF Lines, Distinct
      <3>2. \A d \in CallId : Taken(d) => Taken(d)'
        BY <1>n, <2>3, <3>l DEF Taken, CallId
      <3>3. serving' # 0 => Taken(serving)'
        BY <1>1, <1>n, <2>1, <2>3, <3>l DEF Taken, RequestInv, ProcessType, CallId
      <3> QED
        BY <1>1, <2>1, <2>3, <3>1, <3>2, <3>3, <3>l DEF RequestInv
    <2> QED
      BY <1>4, <2>0, <2>2, <2>3, PageRegisters
  <1>5. CASE UNCHANGED <<stdin, nextId, invoking>> /\ serving' \in {serving, 0}
    BY <1>1, <1>5 DEF RequestInv, Taken, Lines, Distinct
  <1>6. Announce \/ ReportProgress \/ Respond \/ Complain \/ Warn \/ Die
        \/ (\E s \in Stream : ReaderStep(s)) \/ (\E e \in Event : Attach(e)) \/ InvokeDrain
        \/ DrainLock \/ Drain \/ CloseWindow \/ UNCHANGED vars
        => UNCHANGED <<stdin, nextId, invoking>> /\ serving' \in {serving, 0}
    BY DEF Announce, ReportProgress, Respond, Complain, Warn, Die, ReaderStep, ReadLine,
           EndOfStream, TakeLock, CheckFlag, Push, Emit, Attach, InvokeDrain, DrainLock, Drain, CloseWindow,
           calling, process, vars
  <1> QED
    BY <1>2, <1>3, <1>4, <1>5, <1>6 DEF Next
------------------------------------------------------------------------------
(***************************************************************************)
(* What has been written.                                                  *)
(***************************************************************************)
LEMMA SentStep ==
    ASSUME ShellInv, [Next]_vars
    PROVE  \/ Announce /\ Produces(Ready)
           \/ \E c \in CallId, n \in 1..MaxStages :
                /\ ReportProgress /\ c = serving /\ n = stage + 1
                /\ Produces(Progress(c, n))
           \/ \E c \in CallId : Respond /\ c = serving /\ Produces(Response(c))
           \/ \E n \in 1..MaxFaults : Warn /\ n = faults /\ Produces(Fault(n))
           \/ EndOfStream("stdout") /\ Produces(Exit)
           \/ Still
  <1>1. CASE Announce
    BY <1>1, AnnounceWrites
  <1>2. CASE ReportProgress
    BY <1>2, ReportWrites
  <1>3. CASE Respond
    BY <1>3, RespondWrites
  <1>4. CASE Warn
    BY <1>4, WarnWrites
  <1>5. ASSUME NEW s \in Stream, ReaderStep(s)
        PROVE  Still \/ (EndOfStream("stdout") /\ Produces(Exit))
    <2>1. CASE EndOfStream(s)
      BY <2>1, EndWrites
    <2> QED
      BY <1>5, <2>1, ReaderMoves DEF ReaderStep
  <1>6. CASE HandleReply \/ HandleEvent
    BY <1>6, HandlersMove
  <1>7. CASE \/ ReadRequest \/ Complain \/ Die \/ (\E e \in Event : Attach(e)) \/ InvokeDrain
             \/ DrainLock \/ Drain \/ MakeCall \/ (\E c \in CallId : CallBackend(c)) \/ CloseWindow
             \/ UNCHANGED vars
    BY <1>7, OthersAreStill
  <1> QED
    BY <1>1, <1>2, <1>3, <1>4, <1>5, <1>6, <1>7 DEF Next

\* Where the backend can go from where it is.
LEMMA ProcessGoesOn ==
    ASSUME TypeOK, [Next]_vars
    PROVE  /\ backend' = "starting" => backend = "starting"
           /\ \/ faults' = faults /\ (warning' => warning)
              \/ faults' = faults + 1
           /\ serving' # 0 /\ serving' = serving => stage' \in {stage, stage + 1}
  <1>1. ProcessType
    BY Types
  <1>2. CASE UNCHANGED process
    BY <1>2 DEF process
  <1>3. CASE ReadRequest
    BY <1>1, <1>3 DEF ReadRequest, ProcessType
  <1>4. CASE Announce \/ ReportProgress \/ Respond \/ Complain \/ Warn \/ Die \/ CloseWindow
    BY <1>4 DEF Announce, ReportProgress, Respond, Complain, Warn, Die, CloseWindow
  <1>5. ASSUME NEW c \in CallId, CallBackend(c)
        PROVE UNCHANGED <<backend, faults, warning, serving, stage>>
    BY <1>5 DEF CallBackend
  <1>6. ASSUME NEW s \in Stream, ReaderStep(s) PROVE UNCHANGED process
    BY <1>6 DEF ReaderStep, ReadLine, EndOfStream, TakeLock, CheckFlag, Push, Emit
  <1>7. (\E e \in Event : Attach(e)) \/ InvokeDrain \/ DrainLock \/ Drain \/ HandleReply
        \/ HandleEvent \/ MakeCall \/ UNCHANGED vars => UNCHANGED process
    BY DEF Attach, InvokeDrain, DrainLock, Drain, HandleReply, HandleEvent, MakeCall, vars
  <1> QED
    BY <1>2, <1>3, <1>4, <1>5, <1>6, <1>7 DEF Next

\* The exit line stays in the stdout thread's hand until the thread is done.
LEMMA ExitStays ==
    ASSUME TypeOK, [Next]_vars, reader["stdout"].at = "done" \/ Held("stdout") = {Exit}
    PROVE  reader'["stdout"].at = "done" \/ Held("stdout")' = {Exit}
  <1>1. ShellType /\ "stdout" \in Stream
    BY Types DEF Stream
  <1>h. reader["stdout"].at # "reading"
    BY DEF Held
  <1>2. CASE reader'["stdout"] = reader["stdout"]
    BY <1>2 DEF Held
  <1>3. ASSUME NEW s \in Stream, ReaderStep(s)
        PROVE  reader'["stdout"].at = "done" \/ Held("stdout")' = {Exit}
    <2>1. CASE s # "stdout"
      <3>1. reader'["stdout"] = reader["stdout"]
        BY <1>1, <1>3, <2>1, MoveHand
           DEF ReaderStep, ReadLine, EndOfStream, TakeLock, CheckFlag, Push, Emit
      <3> QED
        BY <1>2, <3>1
    <2>2. CASE s = "stdout"
      <3>1. reader["stdout"].at # "done" /\ reader["stdout"].line = Exit
        BY <1>h, <1>3, <2>2
           DEF Held, ReaderStep, ReadLine, EndOfStream, TakeLock, CheckFlag, Push, Emit
      <3>2. CASE TakeLock(s) \/ CheckFlag(s)
        <4>1. /\ reader'["stdout"].at \in {"checking", "emitting", "pushing"}
              /\ reader'["stdout"].line = Exit
          BY <1>1, <2>2, <3>1, <3>2, MoveHand DEF TakeLock, CheckFlag, Holding
        <4> QED
          BY <4>1 DEF Held
      <3>3. CASE Push(s) \/ Emit(s)
        <4>1. reader'["stdout"] = Done
          BY <1>1, <2>2, <3>1, <3>3, MoveHand DEF Push, Emit, AfterLine
        <4> QED
          BY <4>1 DEF Done
      <3> QED
        BY <1>3, <1>h, <2>2, <3>2, <3>3 DEF ReaderStep, ReadLine, EndOfStream
    <2> QED
      BY <2>1, <2>2
  <1>4. Announce \/ ReadRequest \/ ReportProgress \/ Respond \/ Complain \/ Warn \/ Die
        \/ (\E e \in Event : Attach(e)) \/ InvokeDrain \/ DrainLock \/ Drain \/ HandleReply
        \/ HandleEvent \/ MakeCall \/ (\E c \in CallId : CallBackend(c)) \/ CloseWindow
        \/ UNCHANGED vars => reader' = reader
    BY DEF Announce, ReadRequest, ReportProgress, Respond, Complain, Warn, Die, Attach, InvokeDrain,
           DrainLock, Drain, HandleReply, HandleEvent, MakeCall, CallBackend, CloseWindow, Write,
           shell, vars
  <1> QED
    BY <1>2, <1>3, <1>4 DEF Next

LEMMA WrittenStep == ShellInv /\ [Next]_vars => WrittenInv'
  <1> SUFFICES ASSUME ShellInv, [Next]_vars PROVE WrittenInv'
    OBVIOUS
  <1>1. TypeOK /\ WrittenInv /\ RequestInv /\ ProcessType /\ ShellType
    BY Types DEF ShellInv
  <1>2. Ready \in Sent' => backend' # "starting"
    <2>1. Ready \in Sent \/ (Announce /\ Ready \in Sent') \/ Ready \notin Sent'
      BY SentStep, LinesDiffer DEF Produces, Still
    <2> QED
      BY <1>1, <2>1, ProcessGoesOn DEF WrittenInv, Announce
  <1>3. Exit \in Sent' => reader'["stdout"].at = "done" \/ Held("stdout")' = {Exit}
    <2>1. Exit \in Sent \/ EndOfStream("stdout") \/ Exit \notin Sent'
      BY SentStep, LinesDiffer DEF Produces, Still
    <2>2. EndOfStream("stdout") => reader'["stdout"] = [at |-> "locking", line |-> Exit]
      BY <1>1, MoveHand DEF EndOfStream, Stream, Holding
    <2>3. EndOfStream("stdout") => Held("stdout")' = {Exit}
      BY <2>2 DEF Held
    <2> QED
      BY <1>1, <2>1, <2>3, ExitStays DEF WrittenInv
  <1>4. ASSUME NEW n \in 1..MaxFaults, Fault(n) \in Sent' 
        PROVE  n <= faults' /\ (warning' => n < faults')
    <2>1. Fault(n) \in Sent \/ (Warn /\ n = faults)
      BY <1>4, SentStep, LinesDiffer DEF Produces, Still
    <2>2. CASE Fault(n) \in Sent
      BY <1>1, <2>2, ProcessGoesOn DEF WrittenInv, ProcessType
    <2>3. CASE Warn /\ n = faults
      BY <1>1, <2>3 DEF Warn, ProcessType
    <2> QED
      BY <2>1, <2>2, <2>3
  <1>5. ASSUME NEW c \in CallId, NEW n \in 1..MaxStages, Progress(c, n) \in Sent'
        PROVE  Taken(c)' /\ (c = serving' => n <= stage')
    <2>c. c # 0
      BY DEF CallId
    <2>1. \/ Progress(c, n) \in Sent
          \/ ReportProgress /\ c = serving /\ n = stage + 1
      BY <1>5, SentStep, LinesDiffer DEF Produces, Still
    <2>2. CASE Progress(c, n) \in Sent
      <3>1. Taken(c) /\ (c = serving => n <= stage)
        BY <1>1, <2>2 DEF WrittenInv
      <3>2. Taken(c)' /\ (c = serving' => serving' = serving)
        BY <2>c, <3>1, RequestStep
      <3> QED
        BY <1>1, <2>c, <3>1, <3>2, ProcessGoesOn DEF ProcessType
    <2>3. CASE ReportProgress /\ c = serving /\ n = stage + 1
      <3>1. Taken(c)
        BY <1>1, <2>c, <2>3 DEF RequestInv
      <3>2. Taken(c)' /\ stage' = n
        BY <2>3, <3>1, RequestStep DEF ReportProgress
      <3> QED
        BY <3>2
    <2> QED
      BY <2>1, <2>2, <2>3
  <1>6. ASSUME NEW c \in CallId, Response(c) \in Sent' PROVE Taken(c)' /\ c # serving'
    <2>c. c # 0
      BY DEF CallId
    <2>1. Response(c) \in Sent \/ (Respond /\ c = serving)
      BY <1>6, SentStep, LinesDiffer DEF Produces, Still
    <2>2. CASE Response(c) \in Sent
      <3>1. Taken(c) /\ c # serving
        BY <1>1, <2>2 DEF WrittenInv
      <3> QED
        BY <2>c, <3>1, RequestStep
    <2>3. CASE Respond /\ c = serving
      <3>1. Taken(c)
        BY <1>1, <2>c, <2>3 DEF RequestInv
      <3>2. Taken(c)' /\ serving' = 0
        BY <2>3, <3>1, RequestStep DEF Respond
      <3> QED
        BY <2>c, <3>2
    <2> QED
      BY <2>1, <2>2, <2>3
  <1> QED
    BY <1>2, <1>3, <1>4, <1>5, <1>6 DEF WrittenInv
------------------------------------------------------------------------------
(***************************************************************************)
(* The lines of a call, in their order.                                    *)
(***************************************************************************)
Before(q, a, b) == \A i, j \in DOMAIN q : q[i] = b /\ q[j] = a => j < i

\* Line a is not behind line b on the way through stdout and the event queue, and
\* neither has gone another way.
InOrder(a, b) ==
    /\ \A p \in {"errPipe", "errHand", "early", "reply"} : a \notin Where[p] /\ b \notin Where[p]
    /\ Before(pipe["stdout"], a, b) /\ Before(events, a, b)
    /\ b \in Where["outHand"] => a \notin Where["outPipe"]
    /\ b \in Where["events"] => a \notin Where["outPipe"] /\ a \notin Where["outHand"]
    /\ b \in Where["handled"] => /\ a \notin Where["outPipe"] /\ a \notin Where["outHand"]
                                 /\ a \notin Where["events"]

\* The calls made once the shell emits.
Late(c) == c < nextId /\ c \notin rushed

OrderInv ==
    /\ page \in {"replied", "handling", "live"} => listening
    /\ \A c \in CallId : Late(c) => listening
    /\ \A c \in CallId, n \in 1..MaxStages : Late(c) => InOrder(Progress(c, n), Response(c))

OnceInv == \A l \in Line : times[l] \in {0, 1}

LEMMA BeforeAppend ==
    ASSUME NEW S, NEW q \in Seq(S), NEW e \in S, NEW a, NEW b, a # b,
           Before(q, a, b), e = a => b \notin Lines(q)
    PROVE  Before(Append(q, e), a, b)
  <1>1. /\ \A i \in 1..Len(q) : Append(q, e)[i] = q[i]
        /\ Append(q, e)[Len(q) + 1] = e /\ Len(Append(q, e)) = Len(q) + 1
        /\ Append(q, e) \in Seq(S)
    BY AppendProperties
  <1>2. /\ DOMAIN q = 1..Len(q) /\ Len(q) \in Nat
        /\ DOMAIN Append(q, e) = 1..(Len(q) + 1)
    BY <1>1, LenProperties
  <1> PICK r : r = Append(q, e)
    OBVIOUS
  <1> SUFFICES ASSUME NEW i \in DOMAIN r, NEW j \in DOMAIN r, r[i] = b, r[j] = a
               PROVE  j < i
    BY DEF Before
  <1>3. /\ i = Len(q) + 1 \/ (i \in DOMAIN q /\ q[i] = b)
        /\ j = Len(q) + 1 \/ (j \in DOMAIN q /\ q[j] = a)
    BY <1>1, <1>2
  <1>4. CASE i = Len(q) + 1
    BY <1>1, <1>2, <1>3, <1>4
  <1>5. CASE j = Len(q) + 1 /\ i # Len(q) + 1
    BY <1>1, <1>3, <1>5 DEF Lines
  <1>6. CASE i # Len(q) + 1 /\ j # Len(q) + 1
    BY <1>3, <1>6 DEF Before
  <1> QED
    BY <1>4, <1>5, <1>6

LEMMA BeforeTail ==
    ASSUME NEW S, NEW q \in Seq(S), q # <<>>, NEW a, NEW b, Before(q, a, b)
    PROVE  /\ Before(Tail(q), a, b)
           /\ Head(q) = b => a \notin Lines(Tail(q))
  <1>1. /\ Head(q) = q[1] /\ Tail(q) \in Seq(S) /\ Len(q) \in Nat \ {0}
        /\ Len(Tail(q)) = Len(q) - 1
        /\ \A i \in 1..Len(Tail(q)) : Tail(q)[i] = q[i + 1]
    BY HeadTailProperties, EmptySeq
  <1>2. DOMAIN q = 1..Len(q) /\ DOMAIN Tail(q) = 1..(Len(q) - 1)
    BY <1>1, LenProperties
  <1> PICK r : r = Tail(q)
    OBVIOUS
  <1>3. \A i \in DOMAIN r : i \in Nat \ {0} /\ i + 1 \in DOMAIN q /\ r[i] = q[i + 1]
    BY <1>1, <1>2
  <1>4. Before(r, a, b)
    <2> SUFFICES ASSUME NEW i \in DOMAIN r, NEW j \in DOMAIN r, r[i] = b, r[j] = a
                 PROVE  j < i
      BY DEF Before
    <2>1. j + 1 < i + 1
      BY <1>3 DEF Before
    <2> QED
      BY <1>3, <2>1
  <1>5. ASSUME Head(q) = b, NEW i \in DOMAIN r, r[i] = a PROVE FALSE
    <2>1. 1 \in DOMAIN q /\ q[1] = b /\ i + 1 \in DOMAIN q /\ q[i + 1] = a
      BY <1>1, <1>2, <1>3, <1>5
    <2>2. i + 1 < 1
      BY <2>1 DEF Before
    <2> QED
      BY <1>3, <2>2
  <1> QED
    BY <1>4, <1>5 DEF Lines

LEMMA LookAlike ==
    ASSUME NEW a, NEW b, InOrder(a, b),
           \A p \in Place : /\ a \in Where'[p] <=> a \in Where[p]
                            /\ b \in Where'[p] <=> b \in Where[p],
           Before(pipe'["stdout"], a, b), Before(events', a, b)
    PROVE  InOrder(a, b)'
  BY DEF InOrder, Before, Place

LEMMA Unwritten ==
    ASSUME NEW a, NEW b, a \notin Sent', b \notin Sent'
    PROVE  InOrder(a, b)'
  <1>1. \A p \in Place : a \notin Where'[p] /\ b \notin Where'[p]
    BY SentIsNext
  <1>2. a \notin Lines(pipe["stdout"])' /\ a \notin Lines(events)'
    BY <1>1, WhereIsNext, Places DEF WhereFacts, Stream
  <1>3. Before(pipe["stdout"], a, b)' /\ Before(events, a, b)'
    BY <1>2 DEF Before, Lines
  <1> QED
    BY <1>1, <1>3 DEF InOrder, Place

\* The names of the places of stdout.
LEMMA OutPlaces ==
    /\ PipeOf("stdout") = "outPipe" /\ HandOf("stdout") = "outHand"
    /\ PipeOf("stderr") = "errPipe" /\ HandOf("stderr") = "errHand"
    /\ Stream = {"stdout", "stderr"}
    /\ "stdout" # "stderr"
  BY DEF PipeOf, HandOf, Stream

\* A line that only calls have.
CallLine(l) == l \in Line /\ l # Ready /\ l # Exit /\ \A n : l # Fault(n)

LEMMA WriteOrder ==
    ASSUME ShellInv, NEW a, NEW b, a # b, a \in Line, b \in Line, InOrder(a, b),
           NEW s \in Stream, NEW l \in Line, l \notin Sent, Write(s, l),
           UNCHANGED <<reply, events, times>>,
           s = "stdout" => (l = a => b \notin Sent),
           s = "stderr" => l # a /\ l # b
    PROVE  InOrder(a, b)'
  <1>1. ShellType /\ QueueInv
    BY Types DEF ShellInv
  <1>2. Adds(PipeOf(s), l) /\ pipe[s] \in Seq(Line) /\ pipe'[s] = Append(pipe[s], l)
        /\ \A x \in Stream : x # s => pipe'[x] = pipe[x]
    BY <1>1, WritePlaces DEF Write, ShellType
  <1>3. Before(pipe["stdout"], a, b) /\ Before(events', a, b)
    BY DEF InOrder
  <1>4. CASE s = "stdout"
    <2>1. b \in Lines(pipe["stdout"]) => b \in Sent
      BY <1>4, SentIs, WhereIs, Places DEF WhereFacts
    <2>2. Before(pipe'["stdout"], a, b)
      BY <1>2, <1>3, <1>4, <2>1, BeforeAppend
    <2>3. /\ Where'["outPipe"] = Where["outPipe"] \cup {l}
          /\ \A p \in Place : p # "outPipe" => Where'[p] = Where[p]
      BY <1>2, <1>4, OutPlaces DEF Adds
    <2>4. l \notin Where["outHand"] /\ l \notin Where["events"] /\ l \notin Where["handled"]
      BY SentIs DEF Place
    <2>5. CASE l # a
      <3>1. /\ a \in Where'["outPipe"] => a \in Where["outPipe"]
            /\ \A p \in Place : p # "outPipe" => Where'[p] = Where[p]
        BY <2>3, <2>5
      <3> QED
        BY <1>3, <2>2, <3>1 DEF InOrder, Before, Place
    <2>6. CASE l = a
      <3>1. \A p \in Place : b \notin Where[p]
        BY <1>4, <2>6, SentIs
      <3> QED
        BY <1>3, <2>2, <2>3, <3>1 DEF InOrder, Before, Place
    <2> QED
      BY <2>5, <2>6
  <1>5. CASE s = "stderr"
    <2>1. /\ Where'["errPipe"] = Where["errPipe"] \cup {l}
          /\ \A p \in Place : p # "errPipe" => Where'[p] = Where[p]
      BY <1>2, <1>5, OutPlaces DEF Adds
    <2>2. Before(pipe'["stdout"], a, b)
      BY <1>2, <1>3, <1>5, OutPlaces
    <2> QED
      BY <1>3, <1>5, <2>1, <2>2, LookAlike
  <1> QED
    BY <1>4, <1>5, OutPlaces

LEMMA ReaderOrder ==
    ASSUME ShellInv, listening, NEW a, NEW b, a # b, CallLine(a), CallLine(b), InOrder(a, b),
           NEW s \in Stream, ReaderStep(s)
    PROVE  InOrder(a, b)'
  <1>1. ShellType /\ PageType /\ QueueInv /\ Apart /\ RouteInv /\ LockInv /\ WrittenInv
    BY Types DEF ShellInv
  <1>b. Before(pipe["stdout"], a, b) /\ Before(events, a, b)
    BY DEF InOrder
  <1>2. CASE ReadLine(s)
    <2>1. /\ pipe[s] \in Seq(Line) /\ pipe[s] # <<>> /\ pipe'[s] = Tail(pipe[s])
          /\ \A x \in Stream : x # s => pipe'[x] = pipe[x]
          /\ events' = events
      BY <1>1, <1>2 DEF ReadLine, ShellType, webview
    <2> PICK h : h = Head(pipe[s])
      OBVIOUS
    <2>2. Moves(PipeOf(s), HandOf(s), h)
      BY <1>1, <1>2, ReadPlaces
    <2>3. CASE s = "stdout"
      <3>1. Before(pipe'["stdout"], a, b) /\ (h = b => a \notin Lines(pipe'["stdout"]))
        BY <1>b, <2>1, <2>3, BeforeTail
      <3>2. Lines(pipe'["stdout"]) = Where'["outPipe"]
        <4>1. Lines(pipe["stdout"])' = Lines(pipe'["stdout"])
          BY DEF Lines
        <4> QED
          BY <4>1, WhereIsNext, OutPlaces DEF WhereFacts
      <3>3. /\ h \in Where["outPipe"]
            /\ Where'["outPipe"] = Where["outPipe"] \ {h}
            /\ Where'["outHand"] = Where["outHand"] \cup {h}
            /\ \A p \in Place : p # "outPipe" /\ p # "outHand" => Where'[p] = Where[p]
        BY <2>2, <2>3, OutPlaces DEF Moves
      <3> QED
        BY <1>b, <2>1, <3>1, <3>2, <3>3 DEF InOrder, Before, Place
    <2>4. CASE s = "stderr"
      <3>1. h # a /\ h # b
        BY <2>2, <2>4, OutPlaces DEF Moves, InOrder
      <3> QED
        BY <1>b, <2>1, <2>2, <2>4, <3>1, OutPlaces, LookAlike DEF Moves
    <2> QED
      BY <2>3, <2>4, OutPlaces
  <1>3. CASE EndOfStream(s)
    <2>1. \A p \in Place : \/ Where'[p] = Where[p]
                           \/ Where'[p] = Where[p] \cup {Exit}
      BY <1>1, <1>3, EndPlaces DEF Adds
    <2>2. pipe' = pipe /\ events' = events
      BY <1>3 DEF EndOfStream, webview
    <2> QED
      BY <1>b, <2>1, <2>2, LookAlike DEF CallLine
  <1>4. CASE TakeLock(s) \/ CheckFlag(s)
    <2>1. Where' = Where /\ pipe' = pipe /\ events' = events
      BY <1>1, <1>4, WaitPlaces DEF TakeLock, CheckFlag, webview
    <2> QED
      BY <1>b, <2>1, LookAlike
  <1>5. CASE Push(s)
    BY <1>1, <1>5 DEF Push, LockInv
  <1>6. CASE Emit(s)
    <2> PICK l \in Line : l = reader[s].line
      BY <1>1 DEF ShellType
    <2>1. Moves(HandOf(s), "events", l)
      BY <1>1, <1>6, EmitPlaces
    <2>2. attached = Event /\ EventOf(l) \in Event
      BY <1>1, <1>6, EventOfLine DEF Emit, RouteInv
    <2>3. events' = Append(events, l) /\ events \in Seq(Line) /\ pipe' = pipe
      BY <1>1, <1>6, <2>2 DEF Emit, PageType
    <2>4. Lines(events) = Where["events"]
      BY WhereIs DEF WhereFacts
    <2>5. CASE s = "stdout"
      <3>1. /\ Where["outHand"] = {l} /\ Where'["outHand"] = {}
            /\ Where'["events"] = Where["events"] \cup {l}
            /\ \A p \in Place : p # "outHand" /\ p # "events" => Where'[p] = Where[p]
        <4>1. Held(s) = {l}
          BY <1>6 DEF Emit, Held
        <4>2. Where["outHand"] = {l}
          BY <2>5, <4>1, WhereIs, OutPlaces DEF WhereFacts
        <4> QED
          BY <2>1, <2>5, <4>2, OutPlaces DEF Moves
      <3>2. l = a => b \notin Where["events"]
        BY <3>1 DEF InOrder
      <3>3. Before(events', a, b)
        BY <1>b, <2>3, <2>4, <3>2, BeforeAppend
      <3> QED
        BY <1>b, <2>3, <3>1, <3>3 DEF InOrder, Before, Place
    <2>6. CASE s = "stderr"
      <3>1. l # a /\ l # b
        BY <2>1, <2>6, OutPlaces DEF Moves, InOrder
      <3>2. Before(events', a, b)
        BY <1>b, <2>3, <3>1, BeforeAppend
      <3> QED
        BY <1>b, <2>1, <2>3, <2>6, <3>1, <3>2, OutPlaces, LookAlike DEF Moves
    <2> QED
      BY <2>5, <2>6, OutPlaces
  <1> QED
    BY <1>2, <1>3, <1>4, <1>5, <1>6 DEF ReaderStep

LEMMA HandlerOrder ==
    ASSUME ShellInv, NEW a, NEW b, InOrder(a, b), HandleReply \/ HandleEvent
    PROVE  InOrder(a, b)'
  <1>1. TypeOK /\ PageType /\ QueueInv
    BY Types DEF ShellInv
  <1>b. Before(pipe["stdout"], a, b) /\ Before(events, a, b)
    BY DEF InOrder
  <1>2. CASE HandleReply /\ reply = <<>>
    <2>1. UNCHANGED <<pipe, reader, early, reply, events, times>>
      BY <1>2 DEF HandleReply, shell
    <2>2. Where' = Where
      BY <1>1, <2>1, QuietPlaces
    <2> QED
      BY <1>b, <2>1, <2>2, LookAlike
  <1>3. CASE HandleReply /\ reply # <<>>
    <2> PICK h : h = Head(reply)
      OBVIOUS
    <2>1. Moves("reply", "handled", h)
      BY <1>1, <1>3, ReplyPlaces
    <2>2. h # a /\ h # b /\ pipe' = pipe /\ events' = events
      BY <1>3, <2>1 DEF Moves, InOrder, HandleReply, shell
    <2> QED
      BY <1>b, <2>1, <2>2, LookAlike DEF Moves
  <1>4. CASE HandleEvent
    <2> PICK h : h = Head(events)
      OBVIOUS
    <2>1. Moves("events", "handled", h)
      BY <1>1, <1>4, EventPlaces
    <2>2. /\ events \in Seq(Line) /\ events # <<>> /\ events' = Tail(events) /\ pipe' = pipe
      BY <1>1, <1>4 DEF HandleEvent, shell, PageType
    <2>3. Before(events', a, b) /\ (h = b => a \notin Lines(events'))
      BY <1>b, <2>2, BeforeTail
    <2>4. Lines(events') = Where'["events"]
      <3>1. Lines(events)' = Lines(events')
        BY DEF Lines
      <3> QED
        BY <3>1, WhereIsNext DEF WhereFacts
    <2> QED
      BY <1>b, <2>1, <2>2, <2>3, <2>4 DEF Moves, InOrder, Before, Place
  <1> QED
    BY <1>2, <1>3, <1>4

\* A call becomes late when it is made by a page whose shell emits.
LEMMA LateStep ==
    ASSUME TypeOK, [Next]_vars, NEW c \in CallId, Late(c)'
    PROVE  \/ Late(c)
           \/ /\ c = nextId /\ page \notin {"loading", "invoking", "draining"}
              /\ HandleReply \/ HandleEvent \/ MakeCall
  <1>1. CallType /\ nextId \in Nat
    BY Types DEF CallType
  <1>2. CASE HandleReply \/ HandleEvent \/ MakeCall
    <2>1. \/ UNCHANGED <<nextId, rushed>>
          \/ /\ nextId' = nextId + 1
             /\ rushed' = IF page \in {"loading", "invoking", "draining"}
                          THEN rushed \cup {nextId} ELSE rushed
      BY <1>2 DEF HandleReply, HandleEvent, MakeCall, Dispatch, Register, calling
    <2>2. CASE UNCHANGED <<nextId, rushed>>
      BY <2>2 DEF Late
    <2>3. CASE /\ nextId' = nextId + 1
               /\ rushed' = IF page \in {"loading", "invoking", "draining"}
                            THEN rushed \cup {nextId} ELSE rushed
      <3>1. c < nextId + 1 /\ c \notin rushed /\ c \in Nat
        BY <2>3 DEF Late, CallId
      <3>2. c < nextId \/ c = nextId
        BY <1>1, <3>1
      <3> QED
        BY <1>2, <2>3, <3>1, <3>2 DEF Late
    <2> QED
      BY <2>1, <2>2, <2>3
  <1>3. CASE UNCHANGED <<nextId, rushed>>
    BY <1>3 DEF Late
  <1>4. Announce \/ ReadRequest \/ ReportProgress \/ Respond \/ Complain \/ Warn \/ Die
        \/ (\E s \in Stream : ReaderStep(s)) \/ (\E e \in Event : Attach(e)) \/ InvokeDrain
        \/ DrainLock \/ Drain \/ (\E d \in CallId : CallBackend(d)) \/ CloseWindow
        \/ UNCHANGED vars => UNCHANGED <<nextId, rushed>>
    BY DEF Announce, ReadRequest, ReportProgress, Respond, Complain, Warn, Die, ReaderStep,
           ReadLine, EndOfStream, TakeLock, CheckFlag, Push, Emit, Attach, InvokeDrain, DrainLock, Drain,
           CallBackend, CloseWindow, calling, vars
  <1> QED
    BY <1>2, <1>3, <1>4 DEF Next

\* The shell never stops emitting, and the page is past the drain only once it has.
LEMMA ListeningStays ==
    ASSUME ShellInv, OrderInv, [Next]_vars
    PROVE  /\ listening => listening'
           /\ page' \in {"replied", "handling", "live"} => listening'
  <1>1. CASE Drain
    BY <1>1 DEF Drain
  <1>2. CASE UNCHANGED <<listening, page>>
    BY <1>2 DEF OrderInv
  <1>3. CASE listening' = listening /\ page' \in {"invoking", "draining"}
    BY <1>3
  <1>4. CASE HandleReply
    BY <1>4 DEF HandleReply, OrderInv, shell
  <1>5. InvokeDrain \/ DrainLock => listening' = listening /\ page' \in {"invoking", "draining"}
    BY DEF InvokeDrain, DrainLock, shell
  <1>6. Announce \/ ReadRequest \/ ReportProgress \/ Respond \/ Complain \/ Warn \/ Die
        \/ (\E s \in Stream : ReaderStep(s)) \/ (\E e \in Event : Attach(e)) \/ HandleEvent
        \/ MakeCall \/ (\E d \in CallId : CallBackend(d)) \/ CloseWindow
        \/ UNCHANGED vars => UNCHANGED <<listening, page>>
    BY DEF Announce, ReadRequest, ReportProgress, Respond, Complain, Warn, Die, ReaderStep,
           ReadLine, EndOfStream, TakeLock, CheckFlag, Push, Emit, Attach, HandleEvent, MakeCall,
           CallBackend, CloseWindow, Write, shell, webview, vars
  <1> QED
    BY <1>1, <1>2, <1>3, <1>4, <1>5, <1>6 DEF Next

\* The order is kept by every step that does not write line a after line b.
LEMMA OrderStep ==
    ASSUME ShellInv, listening, [Next]_vars, NEW a, NEW b, a # b, CallLine(a), CallLine(b),
           InOrder(a, b), a \in Sent' => a \in Sent \/ b \notin Sent
    PROVE  InOrder(a, b)'
  <1>1. ProcessType /\ QueueInv /\ RouteInv
    BY Types DEF ShellInv
  <1>2. ASSUME NEW l, Produces(l), Write("stdout", l), UNCHANGED <<reply, events, times>>
        PROVE  InOrder(a, b)'
    BY <1>2, OutPlaces, WriteOrder DEF Produces, CallLine
  <1>3. CASE Announce
    BY <1>2, <1>3, AnnounceWrites DEF Announce, webview
  <1>4. CASE ReportProgress
    <2> PICK c \in CallId, n \in 1..MaxStages :
                c = serving /\ n = stage + 1 /\ Produces(Progress(c, n))
      BY <1>4, ReportWrites
    <2>1. Write("stdout", Progress(c, n)) /\ UNCHANGED <<reply, events, times>>
      BY <1>4 DEF ReportProgress, webview
    <2> QED
      BY <1>2, <2>1
  <1>5. CASE Respond
    <2> PICK c \in CallId : c = serving /\ Produces(Response(c))
      BY <1>5, RespondWrites
    <2>1. Write("stdout", Response(c)) /\ UNCHANGED <<reply, events, times>>
      BY <1>5 DEF Respond, webview
    <2> QED
      BY <1>2, <2>1
  <1>6. CASE Warn
    <2> PICK n \in 1..MaxFaults : n = faults /\ Produces(Fault(n))
      BY <1>6, WarnWrites
    <2>1. Write("stderr", Fault(n)) /\ UNCHANGED <<reply, events, times>>
      BY <1>6 DEF Warn, webview
    <2> QED
      BY <2>1, OutPlaces, WriteOrder DEF Produces, CallLine
  <1>7. ASSUME NEW s \in Stream, ReaderStep(s) PROVE InOrder(a, b)'
    BY <1>7, ReaderOrder
  <1>8. CASE HandleReply \/ HandleEvent
    BY <1>8, HandlerOrder
  <1>9. ~Drain
    BY <1>1 DEF Drain, RouteInv
  <1>10. CASE UNCHANGED <<pipe, reader, early, reply, events, times>>
    <2>1. Where' = Where
      BY <1>1, <1>10, QuietPlaces
    <2> QED
      BY <1>10, <2>1, LookAlike DEF InOrder
  <1>11. ReadRequest \/ Complain \/ Die \/ (\E e \in Event : Attach(e)) \/ InvokeDrain
         \/ DrainLock \/ MakeCall \/ (\E c \in CallId : CallBackend(c)) \/ CloseWindow
         \/ UNCHANGED vars
         => UNCHANGED <<pipe, reader, early, reply, events, times>>
    BY DEF ReadRequest, Complain, Die, Attach, InvokeDrain, DrainLock, MakeCall, CallBackend,
           CloseWindow, shell, webview, vars
  <1> QED
    BY <1>3, <1>4, <1>5, <1>6, <1>7, <1>8, <1>9, <1>10, <1>11 DEF Next

LEMMA OrderInvStep == ShellInv /\ OrderInv /\ [Next]_vars => OrderInv'
  <1> SUFFICES ASSUME ShellInv, OrderInv, [Next]_vars PROVE OrderInv'
    OBVIOUS
  <1>1. TypeOK /\ WrittenInv
    BY DEF ShellInv
  <1>2. page' \in {"replied", "handling", "live"} => listening'
    BY ListeningStays
  <1>3. ASSUME NEW c \in CallId, Late(c)' PROVE listening'
    <2>1. listening
      <3>1. CASE Late(c)
        BY <3>1 DEF OrderInv
      <3>2. CASE ~Late(c)
        <4>1. page \notin {"loading", "invoking", "draining"}
          BY <1>1, <1>3, <3>2, LateStep
        <4> QED
          BY <1>1, <4>1 DEF TypeOK, OrderInv
      <3> QED
        BY <3>1, <3>2
    <2> QED
      BY <2>1, ListeningStays
  <1>4. ASSUME NEW c \in CallId, NEW n \in 1..MaxStages, Late(c)'
        PROVE  InOrder(Progress(c, n), Response(c))'
    <2> PICK a \in Line, b \in Line : a = Progress(c, n) /\ b = Response(c)
      BY LineKinds
    <2>1. a # b /\ CallLine(a) /\ CallLine(b)
      BY LinesDiffer DEF CallLine
    <2>2. CASE Late(c)
      <3>1. InOrder(a, b) /\ listening
        BY <2>2 DEF OrderInv
      <3>2. a \in Sent' => a \in Sent \/ b \notin Sent
        BY <1>1, SentStep, LinesDiffer DEF Produces, Still, WrittenInv
      <3> QED
        BY <2>1, <3>1, <3>2, OrderStep
    <2>3. CASE ~Late(c)
      <3>1. c = nextId /\ (HandleReply \/ HandleEvent \/ MakeCall)
        BY <1>1, <1>4, <2>3, LateStep
      <3>2. a \notin Sent /\ b \notin Sent
        <4>1. ~(c < nextId)
          BY <1>1, <3>1 DEF TypeOK, CallId
        <4> QED
          BY <1>1, <4>1 DEF WrittenInv, Taken
      <3>3. Sent' = Sent
        BY <3>1, HandlersMove, OthersAreStill DEF Still
      <3> QED
        BY <3>2, <3>3, Unwritten
    <2> QED
      BY <2>2, <2>3
  <1> QED
    BY <1>2, <1>3, <1>4 DEF OrderInv
------------------------------------------------------------------------------
(***************************************************************************)
(* Answers, and how often a line is handled.                               *)
(***************************************************************************)
\* What the page handles in a step is new to it.
LEMMA TimesStep ==
    ASSUME ShellInv, [Next]_vars
    PROVE  \/ UNCHANGED <<times, nextId, pending>>
           \/ MayCall /\ Register /\ times' = times
           \/ ~closed /\ closed' = closed /\ Sent' = Sent /\ \E l \in Line : Fresh(l)
  <1>1. CASE HandleReply \/ HandleEvent
    <2>1. UNCHANGED calling /\ times' = times => UNCHANGED <<times, nextId, pending>>
      BY DEF calling
    <2> QED
      BY <1>1, <2>1, HandlersMove DEF Still
  <1>2. CASE MakeCall
    BY <1>2 DEF MakeCall
  <1>3. Announce \/ ReadRequest \/ ReportProgress \/ Respond \/ Complain \/ Warn \/ Die
        \/ (\E s \in Stream : ReaderStep(s)) \/ (\E e \in Event : Attach(e)) \/ InvokeDrain
        \/ DrainLock \/ Drain \/ (\E d \in CallId : CallBackend(d)) \/ CloseWindow
        \/ UNCHANGED vars => UNCHANGED <<times, nextId, pending>>
    BY DEF Announce, ReadRequest, ReportProgress, Respond, Complain, Warn, Die, ReaderStep,
           ReadLine, EndOfStream, TakeLock, CheckFlag, Push, Emit, Attach, InvokeDrain, DrainLock, Drain,
           CallBackend, CloseWindow, calling, vars
  <1> QED
    BY <1>1, <1>2, <1>3 DEF Next

LEMMA FreshTimes ==
    ASSUME TypeOK, NEW l \in Line, Fresh(l)
    PROVE  times[l] = 0 /\ times' = [times EXCEPT ![l] = 1] /\ times' \in [Line -> Nat]
  <1>1. times \in [Line -> Nat]
    BY DEF TypeOK
  <1>2. times[l] = 0
    BY <1>1 DEF Fresh, Seen
  <1>3. times' = [times EXCEPT ![l] = times[l] + 1]
    BY DEF Fresh, Dispatch
  <1> QED
    BY <1>1, <1>2, <1>3

LEMMA OnceStep == ShellInv /\ OnceInv /\ [Next]_vars => OnceInv'
  <1> SUFFICES ASSUME ShellInv, OnceInv, [Next]_vars PROVE OnceInv'
    OBVIOUS
  <1>1. TypeOK
    BY DEF ShellInv
  <1>2. CASE times' = times
    BY <1>2 DEF OnceInv
  <1>3. ASSUME NEW l \in Line, Fresh(l) PROVE OnceInv'
    BY <1>1, <1>3, FreshTimes DEF OnceInv, TypeOK
  <1> QED
    BY <1>2, <1>3, TimesStep

LEMMA AnsweredStep == ShellInv /\ [Next]_vars => AnsweredInv'
  <1> SUFFICES ASSUME ShellInv, [Next]_vars,
                      NEW c \in CallId, c < nextId', c \notin pending'
               PROVE  Response(c) \in Seen'
    BY DEF AnsweredInv
  <1>1. TypeOK /\ AnsweredInv /\ CallType /\ nextId \in Nat /\ c \in Nat
    BY Types DEF ShellInv, CallType, CallId
  <1>2. ASSUME Register PROVE c < nextId /\ c \notin pending
    BY <1>1, <1>2 DEF Register
  <1>3. CASE times' = times /\ (UNCHANGED <<nextId, pending>> \/ Register)
    <2>1. Seen' = Seen
      BY <1>3 DEF Seen
    <2> QED
      BY <1>1, <1>2, <1>3, <2>1 DEF AnsweredInv
  <1>4. ASSUME NEW l \in Line, Fresh(l) PROVE Response(c) \in Seen'
    <2>1. Seen' = Seen \cup {l}
      BY <1>1, <1>4, DispatchSeen DEF Fresh
    <2>2. CASE c < nextId /\ c \notin pending
      BY <1>1, <2>1, <2>2 DEF AnsweredInv
    <2>3. CASE ~(c < nextId /\ c \notin pending)
      <3>1. ~Register
        BY <1>2, <2>3
      <3>2. nextId' = nextId /\ l.kind = "response" /\ c = l.id
        BY <1>4, <2>3, <3>1 DEF Fresh, Dispatch
      <3> QED
        BY <2>1, <3>2, Responses
    <2> QED
      BY <2>2, <2>3
  <1> QED
    BY <1>3, <1>4, TimesStep
------------------------------------------------------------------------------
(***************************************************************************)
(* The theorems.                                                           *)
(***************************************************************************)
IInv == ShellInv /\ OrderInv /\ OnceInv

LEMMA InitNothing == Init => /\ \A p \in Place : Where[p] = {}
                             /\ QueueInv /\ Seen = {}
  <1> SUFFICES ASSUME Init PROVE (\A p \in Place : Where[p] = {}) /\ QueueInv /\ Seen = {}
    OBVIOUS
  <1>1. /\ \A s \in Stream : pipe[s] = <<>> /\ reader[s].at = "reading"
        /\ early = <<>> /\ reply = <<>> /\ events = <<>>
        /\ \A l \in Line : times[l] = 0
    BY DEF Init, Reading
  <1>2. Seen = {}
    BY <1>1 DEF Seen
  <1>3. \A s \in Stream : Held(s) = {}
    BY <1>1 DEF Held
  <1> QED
    BY <1>1, <1>2, <1>3, LinesOf, WhereIs, Places DEF WhereFacts, QueueInv

LEMMA InitIInv == Init => IInv
  <1> SUFFICES ASSUME Init PROVE IInv
    OBVIOUS
  <1>1. TypeOK
    BY InitTypeOK
  <1>2. /\ \A p \in Place : Where[p] = {}
        /\ QueueInv
    BY InitNothing
  <1>3. Sent = {} /\ Apart
    BY <1>2, SentIs DEF Apart
  <1>4. /\ \A s \in Stream : reader[s].at = "reading"
        /\ page = "loading" /\ ~listening /\ reply = <<>> /\ early = <<>> /\ stdin = <<>>
        /\ invoking = {} /\ serving = 0 /\ nextId = 1
        /\ \A l \in Line : times[l] = 0
    BY DEF Init, Reading
  <1>5. RouteInv /\ LockInv
    BY <1>4 DEF RouteInv, LockInv
  <1>6. RequestInv
    BY <1>4, LinesOf DEF RequestInv
  <1>7. WrittenInv
    BY <1>3 DEF WrittenInv
  <1>8. \A c \in CallId : ~(c < nextId)
    BY <1>4 DEF CallId
  <1>9. AnsweredInv /\ OrderInv
    BY <1>4, <1>8 DEF AnsweredInv, OrderInv, Late
  <1>10. OnceInv
    BY <1>4 DEF OnceInv
  <1> QED
    BY <1>1, <1>2, <1>3, <1>5, <1>6, <1>7, <1>9, <1>10 DEF IInv, ShellInv

LEMMA StepIInv == IInv /\ [Next]_vars => IInv'
  <1> SUFFICES ASSUME IInv, [Next]_vars PROVE IInv'
    OBVIOUS
  <1>1. ShellInv /\ OrderInv /\ OnceInv
    BY DEF IInv
  <1>2. TypeOK'
    BY <1>1, StepTypeOK DEF ShellInv
  <1>3. RouteInv' /\ LockInv' /\ QueueInv' /\ Apart' /\ RequestInv' /\ WrittenInv' /\ AnsweredInv'
    BY <1>1, RouteStep, LockStep, PlacesStep, RequestStep, WrittenStep, AnsweredStep
  <1>4. OrderInv' /\ OnceInv'
    BY <1>1, OrderInvStep, OnceStep
  <1> QED
    BY <1>2, <1>3, <1>4 DEF IInv, ShellInv

LEMMA Invariant == Spec => []IInv
  BY InitIInv, StepIInv, PTL DEF Spec

\* A call off the page's map was answered by its own response, once; and a call made
\* once the shell emits has by then shown every progress line that was written for it,
\* for the two travel the same way in the order the backend wrote them.
THEOREM AnswersComeWhole == Spec => []AnswersAreComplete
  <1>1. IInv => AnswersAreComplete
    <2> SUFFICES ASSUME IInv, NEW c \in CallId, c < nextId, c \notin pending
                 PROVE  /\ times[Response(c)] = 1
                        /\ c \notin rushed =>
                             \A n \in 1..MaxStages :
                               Progress(c, n) \in Sent => times[Progress(c, n)] = 1
      BY DEF AnswersAreComplete
    <2>1. AnsweredInv /\ OrderInv /\ OnceInv
      BY DEF IInv, ShellInv
    <2>2. Response(c) \in Seen
      BY <2>1 DEF AnsweredInv
    <2>3. \A l \in Seen : times[l] = 1
      BY <2>1 DEF OnceInv, Seen
    <2>4. ASSUME c \notin rushed, NEW n \in 1..MaxStages, Progress(c, n) \in Sent
          PROVE  Progress(c, n) \in Seen
      <3>1. InOrder(Progress(c, n), Response(c))
        BY <2>1, <2>4 DEF OrderInv, Late
      <3> PICK p \in Place : Progress(c, n) \in Where[p]
        BY <2>4, SentIs
      <3>2. Response(c) \in Where["handled"]
        BY <2>2, WhereIs DEF WhereFacts
      <3>3. p = "handled"
        BY <3>1, <3>2 DEF InOrder, Place
      <3> QED
        BY <3>3, WhereIs DEF WhereFacts
    <2> QED
      BY <2>2, <2>3, <2>4
  <1> QED
    BY <1>1, Invariant, PTL

\* The buffer is empty once the shell emits.
NothingIsStranded == listening => early = <<>>

\* Nothing waits in the early buffer once the page has drained it: no thread that saw
\* the flag down is still on its way to the buffer when the flag goes up.
THEOREM BufferIsDrainedOnce == Spec => []NothingIsStranded
  <1>1. IInv => NothingIsStranded
    BY DEF IInv, ShellInv, LockInv, NothingIsStranded
  <1> QED
    BY <1>1, Invariant, PTL

LEMMA SendStep ==
    ASSUME NEW l, Produces(l), times' = times, closed' = closed
    PROVE  [Abstract!Next]_(Abstract!vars)
  BY DEF Produces, Abstract!Next, Abstract!Send

LEMMA StillStep ==
    ASSUME Still, times' = times, closed' = closed \/ (~closed /\ closed' = TRUE)
    PROVE  [Abstract!Next]_(Abstract!vars)
  BY DEF Still, Abstract!Next, Abstract!Close, Abstract!vars

LEMMA HandleStep ==
    ASSUME TypeOK, NEW l \in Line, Fresh(l), Still, ~closed, closed' = closed
    PROVE  [Abstract!Next]_(Abstract!vars)
  <1>1. times[l] = 0 /\ times' = [times EXCEPT ![l] = 1]
    BY FreshTimes
  <1>2. Abstract!Handle(l)
    BY <1>1 DEF Fresh, Still, Abstract!Handle
  <1> QED
    BY <1>2 DEF Abstract!Next

LEMMA DeliveryInit == Init => Abstract!Init
  <1> SUFFICES ASSUME Init PROVE Abstract!Init
    OBVIOUS
  <1>1. Sent = {}
    BY InitNothing, SentIs
  <1>2. times = [l \in Line |-> 0] /\ closed = FALSE
    BY DEF Init
  <1> QED
    BY <1>1, <1>2 DEF Abstract!Init

LEMMA DeliveryStep == IInv /\ [Next]_vars => [Abstract!Next]_(Abstract!vars)
  <1> SUFFICES ASSUME IInv, [Next]_vars PROVE [Abstract!Next]_(Abstract!vars)
    OBVIOUS
  <1>1. ShellInv /\ TypeOK
    BY DEF IInv, ShellInv
  <1>2. CASE Announce
    BY <1>1, <1>2, AnnounceWrites, SendStep DEF Announce
  <1>3. CASE ReportProgress
    BY <1>1, <1>3, ReportWrites, SendStep DEF ReportProgress
  <1>4. CASE Respond
    BY <1>1, <1>4, RespondWrites, SendStep DEF Respond
  <1>5. CASE Warn
    BY <1>1, <1>5, WarnWrites, SendStep DEF Warn
  <1>6. ASSUME NEW s \in Stream, ReaderStep(s) PROVE [Abstract!Next]_(Abstract!vars)
    <2>1. times' = times /\ closed' = closed
      BY <1>6 DEF ReaderStep, ReadLine, EndOfStream, TakeLock, CheckFlag, Push, Emit
    <2>2. CASE EndOfStream(s)
      BY <1>1, <2>1, <2>2, EndWrites, SendStep, StillStep
    <2>3. CASE ~EndOfStream(s)
      BY <1>1, <1>6, <2>1, <2>3, ReaderMoves, StillStep DEF ReaderStep
    <2> QED
      BY <2>2, <2>3
  <1>7. CASE HandleReply \/ HandleEvent
    BY <1>1, <1>7, HandlersMove, HandleStep, StillStep
  <1>8. CASE \/ ReadRequest \/ Complain \/ Die \/ (\E e \in Event : Attach(e)) \/ InvokeDrain
             \/ DrainLock \/ Drain \/ MakeCall \/ (\E c \in CallId : CallBackend(c)) \/ CloseWindow
             \/ UNCHANGED vars
    <2>1. Still /\ times' = times
      BY <1>1, <1>8, OthersAreStill
    <2>2. closed' = closed \/ (~closed /\ closed' = TRUE)
      BY <1>8 DEF ReadRequest, Complain, Die, Attach, InvokeDrain, DrainLock, Drain,
                  MakeCall, CallBackend, CloseWindow, vars
    <2> QED
      BY <2>1, <2>2, StillStep
  <1> QED
    BY <1>2, <1>3, <1>4, <1>5, <1>6, <1>7, <1>8 DEF Next

\* "No line is delivered twice or lost" (Backend.early in main.rs), its safety half: the
\* shell implements Delivery.  Every line is handed to the page at most once and only while
\* the window is open, and no line disappears between its writing and its handling.
THEOREM ShellDeliversOnce == Spec => Abstract!Safety
  BY DeliveryInit, DeliveryStep, Invariant, PTL DEF Spec, Abstract!Safety
==============================================================================
