-------------------------------- MODULE MCDesk --------------------------------
(***************************************************************************)
(* The three parts of the program that read no plan: an import, the        *)
(* mapping of a spreadsheet, or a haul plan.  A behaviour does one of them. *)
(***************************************************************************)
EXTENDS MCImport, MCMapping, MCHaulPlan

\* The parts that are not under way stay where they are.
NoImport ==
    /\ job = <<>> /\ pc = "idle" /\ at = 1 /\ line = 1 /\ seen = <<>>
    /\ parsed = <<>> /\ log = <<>> /\ suppressed = 0 /\ before = 0 /\ clean = {} /\ written = {}

NoSheet == [rows |-> <<>>, header |-> 0, merged |-> {}]
NoMapping ==
    /\ sheet = NoSheet /\ shape = NotYet /\ mapping = <<>> /\ headerRow = 0
    /\ profile = NotYet /\ preview = NotYet /\ edits = 0

NoHaul ==
    /\ state = "idle" /\ busy = {} /\ assigned = {} /\ unassigned = {}
    /\ trips = [j \in Job |-> Trip(0, 1, 1, FALSE)]
    /\ fleet = [v \in Truck |-> Able(0)]
    /\ flows = [x \in Truck \X Bucket |-> NoFlow]

DeskInit ==
    \/ Init /\ NoMapping /\ NoHaul
    \/ MappingInit /\ NoImport /\ NoHaul
    \/ HaulInit /\ NoImport /\ NoMapping

DeskNext ==
    \/ Next /\ UNCHANGED <<mappingVars, haulVars>>
    \/ sheet # NoSheet /\ MappingNext /\ UNCHANGED <<vars, haulVars>>
    \/ HaulNext /\ UNCHANGED <<vars, mappingVars>>

DeskSpec == DeskInit /\ [][DeskNext]_<<vars, mappingVars, haulVars>>
===============================================================================
