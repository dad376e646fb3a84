--------------------------------- MODULE Shell ---------------------------------
(***************************************************************************)
(* The desktop application around the planner: the Python backend's        *)
(* request loop (planbrain/backend/__main__.py), the two reader threads,   *)
(* the early-line buffer and the two commands of the Rust shell            *)
(* (desktop/src-tauri/src/main.rs), and the page's event handlers and      *)
(* pending calls (desktop/dist/index.html).                                *)
(*                                                                         *)
(* Five things run at once: the backend process, a thread on its stdout, a *)
(* thread on its stderr, the shell's commands, and the page.  They share   *)
(* two pipes, one mutex, one flag and the webview's event queue.           *)
(*                                                                         *)
(* A Tauri event reaches the listeners that exist when it is emitted, and  *)
(* the reply to a command travels by another way than events do, so the    *)
(* page may see an event emitted after a reply before the reply.           *)
(***************************************************************************)
EXTENDS Naturals, Sequences

CONSTANTS
    MaxCalls,   \* bound on the calls the page makes
    MaxStages,  \* bound on the progress lines of one call
    MaxFaults,  \* bound on the lines the backend writes to stderr
    MaxTraffic, \* bound on those calls and lines together
    Capacity    \* lines a pipe holds before its writer blocks

ASSUME BoundAssumption ==
    /\ {MaxCalls, MaxStages, MaxFaults, MaxTraffic} \subseteq Nat
    /\ Capacity \in Nat \ {0}

VARIABLES
    backend,    \* where the backend process is
    serving,    \* the call whose request it handles, or 0
    stage,      \* progress lines written for the current request
    faults,     \* lines it began to write to stderr
    warning,    \* whether the last of them is not written yet
    stdin,      \* the pipe into the backend: call ids
    pipe,       \* the pipes out of it, per stream
    reader,     \* the reader threads: where each is, and the line it holds
    lock,       \* who holds the mutex on the early buffer
    listening,  \* the AtomicBool
    early,      \* the buffer
    attached,   \* events the page has a listener for
    page,       \* how far the page's start-up script is
    reply,      \* what drain_backend returned, not handled yet
    events,     \* emitted events the page has not handled yet
    nextId,     \* the page's call counter
    invoking,   \* call_backend commands under way
    pending,    \* the page's map of calls without an answer
    rushed,     \* history: calls made before the shell was told to emit
    status,     \* what the status bar says
    times,      \* history: how often each line was handled
    closed      \* the window was destroyed

process == <<backend, serving, stage, faults, warning, stdin>>
shell   == <<pipe, reader, lock, listening, early>>
webview == <<attached, page, reply, events>>
calling == <<nextId, invoking, pending, rushed>>
vars    == <<process, shell, webview, calling, status, times, closed>>

------------------------------------------------------------------------------
CallId == 1..MaxCalls
Stream == {"stdout", "stderr"}
Event  == {"backend", "backend-error", "backend-exit"}
Nobody == "nobody"

MayCall == nextId <= MaxCalls /\ nextId + faults <= MaxTraffic

Ready          == [kind |-> "ready", id |-> 0, n |-> 0]
Exit           == [kind |-> "exit", id |-> 0, n |-> 0]
Fault(n)       == [kind |-> "fault", id |-> 0, n |-> n]
Progress(c, n) == [kind |-> "progress", id |-> c, n |-> n]
Response(c)    == [kind |-> "response", id |-> c, n |-> 0]

Line == {Ready, Exit} \cup {Fault(n) : n \in 1..MaxFaults}
        \cup {Progress(c, n) : c \in CallId, n \in 1..MaxStages}
        \cup {Response(c) : c \in CallId}

EventOf(l) == CASE l.kind = "fault" -> "backend-error"
                [] l.kind = "exit"  -> "backend-exit"
                [] OTHER            -> "backend"

\* Where a reader thread is.
Reading        == [at |-> "reading", line |-> Ready]
Holding(at, l) == [at |-> at, line |-> l]
Done           == [at |-> "done", line |-> Ready]
AfterLine(l)   == IF l = Exit THEN Done ELSE Reading

Lines(q) == {q[i] : i \in DOMAIN q}

Running == backend # "exited"

TypeOK ==
    /\ backend \in {"starting", "waiting", "serving", "exited"}
    /\ serving \in CallId \cup {0}
    /\ backend = "serving" <=> serving # 0
    /\ stage \in 0..MaxStages
    /\ faults \in 0..MaxFaults
    /\ warning \in BOOLEAN
    /\ warning => Running /\ faults > 0
    /\ stdin \in Seq(CallId)
    /\ pipe \in [Stream -> Seq(Line)]
    /\ reader \in [Stream -> [at : {"reading", "locking", "checking", "pushing", "emitting",
                                    "done"},
                              line : Line]]
    /\ lock \in Stream \cup {"drain", Nobody}
    /\ listening \in BOOLEAN
    /\ early \in Seq(Line)
    /\ attached \subseteq Event
    /\ page \in {"loading", "invoking", "draining", "replied", "handling", "live"}
    /\ reply \in Seq(Line)
    /\ events \in Seq(Line)
    /\ nextId \in 1..(MaxCalls + 1)
    /\ pending \subseteq 1..(nextId - 1)
    /\ invoking \subseteq 1..(nextId - 1)
    /\ rushed \subseteq CallId
    /\ status \in {"starting", "ready", "error"}
    /\ times \in [Line -> Nat]
    /\ closed \in BOOLEAN

Init ==
    /\ backend = "starting"
    /\ serving = 0
    /\ stage = 0
    /\ faults = 0
    /\ warning = FALSE
    /\ stdin = <<>>
    /\ pipe = [s \in Stream |-> <<>>]
    /\ reader = [s \in Stream |-> Reading]
    /\ lock = Nobody
    /\ listening = FALSE
    /\ early = <<>>
    /\ attached = {}
    /\ page = "loading"
    /\ reply = <<>>
    /\ events = <<>>
    /\ nextId = 1
    /\ invoking = {}
    /\ pending = {}
    /\ rushed = {}
    /\ status = "starting"
    /\ times = [l \in Line |-> 0]
    /\ closed = FALSE

------------------------------------------------------------------------------
(***************************************************************************)
(* The backend process.                                                    *)
(***************************************************************************)

\* One thread does the backend's work, and waits on a write to stderr too.
Free == ~warning

\* One flushed line; the write blocks while the pipe is full.
Write(s, l) ==
    /\ Len(pipe[s]) < Capacity
    /\ pipe' = [pipe EXCEPT ![s] = Append(@, l)]
    /\ UNCHANGED <<reader, lock, listening, early>>

\* main: the ready line, before the first request is read.
Announce ==
    /\ backend = "starting"
    /\ Free
    /\ Write("stdout", Ready)
    /\ backend' = "waiting"
    /\ UNCHANGED <<serving, stage, faults, warning, stdin, webview, calling, status, times, closed>>

ReadRequest ==
    /\ backend = "waiting"
    /\ Free
    /\ stdin # <<>>
    /\ backend' = "serving"
    /\ serving' = Head(stdin)
    /\ stdin' = Tail(stdin)
    /\ stage' = 0
    /\ UNCHANGED <<faults, warning, shell, webview, calling, status, times, closed>>

\* state.emit, bound to the request being handled.
ReportProgress ==
    /\ backend = "serving"
    /\ Free
    /\ stage < MaxStages
    /\ stage' = stage + 1
    /\ Write("stdout", Progress(serving, stage + 1))
    /\ UNCHANGED <<backend, serving, faults, warning, stdin, webview, calling, status, times, closed>>

\* handle never raises: one response line, a result or an error.
Respond ==
    /\ backend = "serving"
    /\ Free
    /\ Write("stdout", Response(serving))
    /\ backend' = "waiting"
    /\ serving' = 0
    /\ stage' = 0
    /\ UNCHANGED <<faults, warning, stdin, webview, calling, status, times, closed>>

\* The interpreter or a library has something to say on stderr ...
Complain ==
    /\ Running
    /\ Free
    /\ faults < MaxFaults
    /\ nextId + faults <= MaxTraffic
    /\ faults' = faults + 1
    /\ warning' = TRUE
    /\ UNCHANGED <<backend, serving, stage, stdin, shell, webview, calling, status, times, closed>>

\* ... and does nothing else until the line is written.
Warn ==
    /\ warning
    /\ Write("stderr", Fault(faults))
    /\ warning' = FALSE
    /\ UNCHANGED <<backend, serving, stage, faults, stdin, webview, calling, status, times, closed>>

\* The process dies; what it wrote stays in the pipes.
Die ==
    /\ Running
    /\ backend' = "exited"
    /\ serving' = 0
    /\ stage' = 0
    /\ warning' = FALSE
    /\ UNCHANGED <<faults, stdin, shell, webview, calling, status, times, closed>>

------------------------------------------------------------------------------
(***************************************************************************)
(* The reader threads: read a line, then deliver it.                       *)
(***************************************************************************)
Move(s, r) == reader' = [reader EXCEPT ![s] = r]

\* Mutant of ReadLine: nobody reads stderr.
Undrained(s) ==
    /\ s = "stdout"
    /\ reader[s].at = "reading"
    /\ pipe[s] # <<>>
    /\ Move(s, Holding("locking", Head(pipe[s])))
    /\ pipe' = [pipe EXCEPT ![s] = Tail(@)]
    /\ UNCHANGED <<process, lock, listening, early, webview, calling, status, times, closed>>

ReadLine(s) ==
    /\ reader[s].at = "reading"
    /\ pipe[s] # <<>>
    /\ Move(s, Holding("locking", Head(pipe[s])))
    /\ pipe' = [pipe EXCEPT ![s] = Tail(@)]
    /\ UNCHANGED <<process, lock, listening, early, webview, calling, status, times, closed>>

\* The loop ends when the pipe closes; the stdout thread then says so.
EndOfStream(s) ==
    /\ reader[s].at = "reading"
    /\ pipe[s] = <<>>
    /\ ~Running
    /\ Move(s, IF s = "stdout" THEN Holding("locking", Exit) ELSE Done)
    /\ UNCHANGED <<process, pipe, lock, listening, early, webview, calling, status,
                   times, closed>>

\* Mutant of TakeLock: the flag is read without the lock.
NoLock(s) ==
    /\ reader[s].at = "locking"
    /\ lock' = lock
    /\ Move(s, Holding(IF listening THEN "emitting" ELSE "pushing", reader[s].line))
    /\ UNCHANGED <<process, pipe, listening, early, webview, calling, status, times, closed>>

\* deliver: the lock first.
TakeLock(s) ==
    /\ reader[s].at = "locking"
    /\ lock = Nobody
    /\ lock' = s
    /\ Move(s, Holding("checking", reader[s].line))
    /\ UNCHANGED <<process, pipe, listening, early, webview, calling, status, times, closed>>

\* deliver: then the flag; the lock is dropped before emitting.
CheckFlag(s) ==
    /\ reader[s].at = "checking"
    /\ Move(s, Holding(IF listening THEN "emitting" ELSE "pushing", reader[s].line))
    /\ lock' = IF listening THEN Nobody ELSE s
    /\ UNCHANGED <<process, pipe, listening, early, webview, calling, status, times, closed>>

\* deliver: into the buffer, and the lock is dropped.
Push(s) ==
    /\ reader[s].at = "pushing"
    /\ Move(s, AfterLine(reader[s].line))
    /\ early' = Append(early, reader[s].line)
    /\ lock' = Nobody
    /\ UNCHANGED <<process, pipe, listening, webview, calling, status, times, closed>>

\* handle.emit: to the listeners that exist now.
Emit(s) ==
    /\ reader[s].at = "emitting"
    /\ Move(s, AfterLine(reader[s].line))
    /\ events' = IF EventOf(reader[s].line) \in attached
                 THEN Append(events, reader[s].line)
                 ELSE events
    /\ UNCHANGED <<process, pipe, lock, listening, early, attached, page, reply, calling,
                   status, times, closed>>

------------------------------------------------------------------------------
(***************************************************************************)
(* The page's start-up script, and the drain_backend command it invokes.   *)
(***************************************************************************)
\* One listen() resolves.
Attach(e) ==
    /\ ~closed
    /\ page = "loading"
    /\ e \notin attached
    /\ attached' = attached \cup {e}
    /\ UNCHANGED <<process, shell, page, reply, events, calling, status, times, closed>>

\* After all the listeners: invoke("drain_backend").
InvokeDrain ==
    /\ ~closed
    /\ page = "loading"
    /\ attached = Event
    /\ page' = "invoking"
    /\ UNCHANGED <<process, shell, attached, reply, events, calling, status, times, closed>>

DrainLock ==
    /\ page = "invoking"
    /\ lock = Nobody
    /\ lock' = "drain"
    /\ page' = "draining"
    /\ UNCHANGED <<process, pipe, reader, listening, early, attached, reply, events,
                   calling, status, times, closed>>

\* Set the flag and take the buffer, under the lock.
Drain ==
    /\ page = "draining"
    /\ listening' = TRUE
    /\ reply' = early
    /\ early' = <<>>
    /\ lock' = Nobody
    /\ page' = "replied"
    /\ UNCHANGED <<process, pipe, reader, attached, events, calling, status, times, closed>>

------------------------------------------------------------------------------
(***************************************************************************)
(* The page's handlers and calls.                                          *)
(***************************************************************************)
\* call(): register the waiter, then invoke call_backend without awaiting it.
Register ==
    /\ nextId' = nextId + 1
    /\ pending' = pending \cup {nextId}
    /\ invoking' = invoking \cup {nextId}
    /\ rushed' = IF page \in {"loading", "invoking", "draining"}
                 THEN rushed \cup {nextId} ELSE rushed

\* Mutant of Dispatch: the waiter goes with the first line that has its id.
SettleOnAnyLine(l) ==
    /\ times' = [times EXCEPT ![l] = @ + 1]
    /\ status' = CASE l.kind = "ready" -> "ready"
                   [] l.kind \in {"fault", "exit"} -> "error"
                   [] OTHER -> status
    /\ IF l.kind = "ready" /\ MayCall
       THEN Register
       ELSE /\ pending' = pending \ {l.id}
            /\ UNCHANGED <<nextId, invoking, rushed>>

\* HANDLERS[event](line).  The ready line loads the profiles, which is a call.
Dispatch(l) ==
    /\ times' = [times EXCEPT ![l] = @ + 1]
    /\ status' = CASE l.kind = "ready" -> "ready"
                   [] l.kind \in {"fault", "exit"} -> "error"
                   [] OTHER -> status
    /\ IF l.kind = "ready" /\ MayCall
       THEN Register
       ELSE /\ pending' = IF l.kind = "response" THEN pending \ {l.id} ELSE pending
            /\ UNCHANGED <<nextId, invoking, rushed>>

\* The page is busy with the drained lines from the moment the reply arrives
\* until the last of them; events wait.
HandleReply ==
    /\ ~closed
    /\ page \in {"replied", "handling"}
    /\ IF reply = <<>>
       THEN /\ page' = "live"
            /\ UNCHANGED <<reply, calling, status, times>>
       ELSE /\ Dispatch(Head(reply))
            /\ reply' = Tail(reply)
            /\ page' = "handling"
    /\ UNCHANGED <<process, shell, attached, events, closed>>

HandleEvent ==
    /\ ~closed
    /\ page # "handling"
    /\ events # <<>>
    /\ Dispatch(Head(events))
    /\ events' = Tail(events)
    /\ UNCHANGED <<process, shell, attached, page, reply, closed>>

\* A person clicks something that calls the backend.
MakeCall ==
    /\ ~closed
    /\ page # "handling"
    /\ MayCall
    /\ Register
    /\ UNCHANGED <<process, shell, webview, status, times, closed>>

\* call_backend: one line to the backend's stdin.  The write fails once the
\* process is gone, and nobody awaits the failure.
CallBackend(c) ==
    /\ c \in invoking
    /\ invoking' = invoking \ {c}
    /\ IF Running
       THEN /\ Len(stdin) < Capacity
            /\ stdin' = Append(stdin, c)
       ELSE stdin' = stdin
    /\ UNCHANGED <<backend, serving, stage, faults, warning, shell, webview, nextId, pending, rushed,
                   status, times, closed>>

\* WindowEvent::Destroyed: the page is gone and the child is killed.
CloseWindow ==
    /\ ~closed
    /\ closed' = TRUE
    /\ backend' = "exited"
    /\ serving' = 0
    /\ stage' = 0
    /\ warning' = FALSE
    /\ UNCHANGED <<faults, stdin, shell, webview, calling, status, times>>

------------------------------------------------------------------------------
ReaderStep(s) == ReadLine(s) \/ EndOfStream(s) \/ TakeLock(s)
                 \/ CheckFlag(s) \/ Push(s) \/ Emit(s)

Next ==
    \/ Announce \/ ReadRequest \/ ReportProgress \/ Respond \/ Complain \/ Warn \/ Die
    \/ \E s \in Stream : ReaderStep(s)
    \/ \E e \in Event : Attach(e)
    \/ InvokeDrain \/ DrainLock \/ Drain
    \/ HandleReply \/ HandleEvent \/ MakeCall
    \/ \E c \in CallId : CallBackend(c)
    \/ CloseWindow

\* Threads and event loops run; people, faults and crashes need not happen.
Fairness ==
    /\ WF_vars(Announce) /\ WF_vars(ReadRequest) /\ WF_vars(Respond) /\ WF_vars(Warn)
    /\ \A s \in Stream : WF_vars(ReaderStep(s))
    /\ \A e \in Event : WF_vars(Attach(e))
    /\ WF_vars(InvokeDrain) /\ WF_vars(DrainLock) /\ WF_vars(Drain)
    /\ WF_vars(HandleReply) /\ WF_vars(HandleEvent)
    /\ \A c \in CallId : WF_vars(CallBackend(c))

Spec == Init /\ [][Next]_vars /\ Fairness

------------------------------------------------------------------------------
(***************************************************************************)
(* Properties.                                                             *)
(***************************************************************************)
\* Every line the backend has written, wherever it is now.
Sent ==
    (UNION {Lines(pipe[s]) : s \in Stream})
    \cup {reader[s].line : s \in {x \in Stream : reader[x].at \notin {"reading", "done"}}}
    \cup Lines(early) \cup Lines(reply) \cup Lines(events)
    \cup {l \in Line : times[l] > 0}

\* Backend.early and drain_backend: "no line is delivered twice or lost".
\* Whatever the two reader threads, the drain and the page's start-up
\* interleave to, each line reaches a handler once while the window is open;
\* and it does reach one: the whole promise, fairness included.
Abstract == INSTANCE Delivery WITH sent <- Sent
ImplementsDelivery == Abstract!Spec

\* A call that is off the page's map was answered by its own response, and a
\* call made once the shell emits has by then shown all of its progress.
AnswersAreComplete ==
    \A c \in CallId : c < nextId /\ c \notin pending =>
        /\ times[Response(c)] = 1
        /\ c \notin rushed =>
              \A n \in 1..MaxStages : Progress(c, n) \in Sent => times[Progress(c, n)] = 1

\* Nobody waits for ever.  While the backend lives every call is answered, with a
\* result or an error, and the status bar leaves "starting": the ready line, or
\* the news that there will be none, reaches the page.
CallsSettle ==
    /\ \A c \in CallId : c \in pending ~> (c \notin pending \/ ~Running)
    /\ <>(status # "starting" \/ closed)
==============================================================================
