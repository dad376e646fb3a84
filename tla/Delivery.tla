------------------------------- MODULE Delivery -------------------------------
(***************************************************************************)
(* What the desktop shell promises about the backend's output: while the   *)
(* window is open every line is handed to the interface, and handed to it  *)
(* once ("no line is delivered twice or lost",                             *)
(* desktop/src-tauri/src/main.rs).  Nothing is promised about the order.   *)
(***************************************************************************)
EXTENDS Naturals

CONSTANT Line           \* the lines the backend can produce

VARIABLES
    sent,       \* the lines produced so far
    times,      \* how often each has been handed to the interface
    closed      \* the window is gone, and the interface with it

vars == <<sent, times, closed>>

Init ==
    /\ sent = {}
    /\ times = [l \in Line |-> 0]
    /\ closed = FALSE

Send(l) ==
    /\ l \notin sent
    /\ sent' = sent \cup {l}
    /\ UNCHANGED <<times, closed>>

Handle(l) ==
    /\ ~closed
    /\ l \in sent
    /\ times[l] = 0
    /\ times' = [times EXCEPT ![l] = 1]
    /\ UNCHANGED <<sent, closed>>

Close ==
    /\ ~closed
    /\ closed' = TRUE
    /\ UNCHANGED <<sent, times>>

Next == Close \/ \E l \in Line : Send(l) \/ Handle(l)

Safety == Init /\ [][Next]_vars

Spec == Safety /\ \A l \in Line : WF_vars(Handle(l))
==============================================================================
