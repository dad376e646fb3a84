------------------------------ MODULE MCSession ------------------------------
(***************************************************************************)
(* A planner's session from its two ends: the requests the backend         *)
(* answers, and the page that makes them.  A behaviour is all of the end   *)
(* that moves first.                                                       *)
(*                                                                         *)
(* The page has two choices in each menu, two forms and mappings, and one  *)
(* pair of them that is valid.                                             *)
(***************************************************************************)
EXTENDS MCPlanSession, Panes

CONSTANTS all, make, march, april, byName, byGuess

IsValid(f, m) == f = march /\ m = byName

SessionInit == Init /\ PanesInit

SessionNext ==
    \/ Next /\ clicks = 0 /\ form = march /\ UNCHANGED paneVars
    \/ PanesNext /\ calls = 0 /\ UNCHANGED vars

SessionSpec == SessionInit /\ [][SessionNext]_<<vars, paneVars>>
==============================================================================
