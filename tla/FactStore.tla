------------------------------ MODULE FactStore ------------------------------
(***************************************************************************)
(* The planning database behind one connection: planbrain/facts/access.py, *)
(* planbrain/facts/scenario.py and planbrain/overrides.py over             *)
(* schema.sql.                                                             *)
(*                                                                         *)
(* The code is single-threaded, but an operation is several SQL            *)
(* statements, and between any two of them an exception may be raised or   *)
(* the process may be killed.  So every operation is broken at its         *)
(* statements: pc names the statement that runs next and call holds the    *)
(* arguments.  db is what the connection sees, disk what the file holds:   *)
(* Python's sqlite3 opens a transaction at the first INSERT, UPDATE or     *)
(* DELETE and keeps it open until somebody commits.  The override          *)
(* functions run inside a "with con" block, which commits on success and   *)
(* rolls back EVERYTHING pending on an exception; the others do neither.   *)
(*                                                                         *)
(* Storage is sparse: an absent row is a quantity of zero, so a fact table *)
(* is a total function and deleting a row writes a zero.                   *)
(***************************************************************************)
EXTENDS Integers

CONSTANTS
    Scenario,   \* the scenario ids that can be used: an initial segment of Nat
    Addr,       \* fact addresses: an entity and a bucket date
    Measure,    \* the measures, over all three grains
    Firm,       \* the measure firm_planned_order
    MaxQty,     \* quantities are 0..MaxQty
    Author,     \* people who fix quantities
    Nobody,     \* no provenance row
    Name,       \* scenario names
    Working,    \* the name the schema seeds scenario 0 with
    Rate,       \* growth assumptions
    NoAck,      \* no override was ever acknowledged at this address
    MaxCalls    \* bound on the operations of a behaviour

ASSUME ScenarioAssumption == Scenario \subseteq Nat /\ 0 \in Scenario
ASSUME MeasureAssumption  == Firm \in Measure
ASSUME QtyAssumption      == MaxQty \in Nat /\ MaxCalls \in Nat
ASSUME PeopleAssumption   == Nobody \notin Author
ASSUME NameAssumption     == Working \in Name
ASSUME RateAssumption     == 0 \in Rate
ASSUME AckAssumption      == NoAck \notin 0..MaxQty

VARIABLES
    db,     \* the tables, as this connection sees them
    disk,   \* the tables, as a new connection would find them
    pc,     \* the statement to execute next, or "idle" between operations
    call,   \* the arguments of the operation in progress
    acked,  \* history: the quantity last acknowledged by an override
    calls   \* operations started, for the bound

vars == <<db, disk, pc, call, acked, calls>>

------------------------------------------------------------------------------
Qty     == 0..MaxQty
Status  == {"absent", "open", "committed", "archived"}
Write   == UNION {[A -> Qty] : A \in SUBSET Addr}
Op      == {"write", "set_override", "clear_override", "copy", "commit"}
PC      == {"idle", "clear", "set", "explain", "forget", "archive", "insert",
            "copy", "freeze", "done"}
Call    == [op : Op, scen : Scenario, meas : Measure, vals : Write,
            who : Author \cup {Nobody}, src : Scenario, name : Name]

\* A scenario row, its facts and its override provenance.  fixedBy is history:
\* who wrote the quantity now in the Firm measure, which no table records.
Database ==
    [status  : [Scenario -> Status],
     frozen  : SUBSET Scenario,
     name    : [Scenario -> Name],
     growth  : [Scenario -> Rate],
     fact    : [Scenario -> [Measure -> [Addr -> Qty]]],
     author  : [Scenario -> [Addr -> Author \cup {Nobody}]],
     fixedBy : [Scenario -> [Addr -> Author \cup {Nobody}]]]

TypeOK ==
    /\ db \in Database
    /\ disk \in Database
    /\ pc \in PC
    /\ call \in Call
    /\ acked \in [Scenario -> [Addr -> Qty \cup {NoAck}]]
    /\ calls \in Nat

------------------------------------------------------------------------------
NoFacts == [m \in Measure |-> [a \in Addr |-> 0]]
NoWhy   == [a \in Addr |-> Nobody]

\* schema.sql creates the tables and seeds the working scenario.
Seeded ==
    [status  |-> [s \in Scenario |-> IF s = 0 THEN "open" ELSE "absent"],
     frozen  |-> {},
     name    |-> [s \in Scenario |-> Working],
     growth  |-> [s \in Scenario |-> 0],
     fact    |-> [s \in Scenario |-> NoFacts],
     author  |-> [s \in Scenario |-> NoWhy],
     fixedBy |-> [s \in Scenario |-> NoWhy]]

Exists(s) == db.status[s] # "absent"

\* Mutant of Writable: any scenario that exists.
ThawedToo(s) == Exists(s)

\* assert_writable: the scenario exists and is not a snapshot.
Writable(s) == Exists(s) /\ s \notin db.frozen

\* _next_scenario_id: max(scenario_id) + 1, when the model has that id.
IsNextId(s) ==
    \E t \in Scenario :
        /\ Exists(t)
        /\ \A u \in Scenario : Exists(u) => u <= t
        /\ s = t + 1

\* The UNIQUE constraint on scenario.name.
NameTaken(n) == \E s \in Scenario : Exists(s) /\ db.name[s] = n

\* The partial unique index scenario_one_committed.
HasCommitted == \E s \in Scenario : db.status[s] = "committed"

\* The two halves of write_facts: zeros delete their row, the rest upsert it.
Zeroed(old, w)  == [a \in Addr |-> IF a \in DOMAIN w /\ w[a] = 0 THEN 0 ELSE old[a]]
Stored(old, w)  == [a \in Addr |-> IF a \in DOMAIN w /\ w[a] # 0 THEN w[a] ELSE old[a]]

\* Who the quantities written at w's addresses now come from.
Credited(old, w, who) ==
    [a \in Addr |-> IF a \in DOMAIN w THEN (IF w[a] = 0 THEN Nobody ELSE who) ELSE old[a]]

\* The arguments between operations.
NoCall == [op |-> "write", scen |-> 0, meas |-> Firm, vals |-> [a \in {} |-> 0],
           who |-> Nobody, src |-> 0, name |-> Working]

\* Mutant of InTransactionBlock: the overrides without their "with con".
NoTransactionBlock == FALSE

\* The operations that run inside "with con".
InTransactionBlock == call.op \in {"set_override", "clear_override"}

Init ==
    /\ db = Seeded
    /\ disk = Seeded
    /\ pc = "idle"
    /\ call = NoCall
    /\ acked = [s \in Scenario |-> [a \in Addr |-> NoAck]]
    /\ calls = 0

------------------------------------------------------------------------------
(***************************************************************************)
(* Entering an operation: the checks Python makes before the first         *)
(* statement.                                                              *)
(***************************************************************************)
Enter(c, label) ==
    /\ pc = "idle"
    /\ calls < MaxCalls
    /\ calls' = calls + 1
    /\ call' = c
    /\ pc' = label
    /\ UNCHANGED <<db, disk, acked>>

\* write_facts, as the importer and the engines call it.
WriteFacts(s, m, w) ==
    /\ m # Firm
    /\ Writable(s)
    /\ Enter([NoCall EXCEPT !.op = "write", !.scen = s, !.meas = m, !.vals = w],
          "clear")

\* set_override: one address, a quantity and a person.
SetOverride(s, a, q, who) ==
    /\ Writable(s)
    /\ Enter([NoCall EXCEPT !.op = "set_override", !.scen = s, !.meas = Firm,
                            !.vals = [x \in {a} |-> q], !.who = who], "clear")

\* clear_override: the same write path with a zero.
ClearOverride(s, a) ==
    /\ Writable(s)
    /\ Enter([NoCall EXCEPT !.op = "clear_override", !.scen = s, !.meas = Firm,
                            !.vals = [x \in {a} |-> 0]], "clear")

\* assert_writable raises inside the "with con" block of an override, which
\* rolls back whatever was pending.
RefusedOverride(s) ==
    /\ pc = "idle"
    /\ calls < MaxCalls
    /\ ~Writable(s)
    /\ calls' = calls + 1
    /\ db' = disk
    /\ UNCHANGED <<disk, pc, call, acked>>

\* set_growth: a single UPDATE behind assert_writable.
SetGrowth(s, g) ==
    /\ pc = "idle"
    /\ calls < MaxCalls
    /\ Writable(s)
    /\ calls' = calls + 1
    /\ db' = [db EXCEPT !.growth[s] = g]
    /\ UNCHANGED <<disk, pc, call, acked>>

\* copy_scenario: growth_of refuses an unknown source before any statement.
CopyScenario(src, s, n) ==
    /\ Exists(src)
    /\ IsNextId(s)
    /\ Enter([NoCall EXCEPT !.op = "copy", !.scen = s, !.src = src, !.name = n],
             "insert")

\* commit_scenario: archives first, and only then looks at source and name.
CommitScenario(src, s, n) ==
    /\ IsNextId(s)
    /\ Enter([NoCall EXCEPT !.op = "commit", !.scen = s, !.src = src, !.name = n],
             "archive")

------------------------------------------------------------------------------
(***************************************************************************)
(* The statements.                                                         *)
(***************************************************************************)
Goto(next) ==
    /\ pc' = next
    /\ call' = IF next = "idle" THEN NoCall ELSE call

Step(label, next) ==
    /\ pc = label
    /\ Goto(next)
    /\ UNCHANGED <<disk, acked, calls>>

\* DELETE the addresses written with a zero.
ClearRows ==
    /\ Step("clear", "set")
    /\ db' = [db EXCEPT !.fact[call.scen][call.meas] = Zeroed(@, call.vals)]

\* Upsert the others.  Where to go next depends on who called write_facts.
StoreRows ==
    /\ Step("set", CASE call.op = "set_override"   -> "explain"
                     [] call.op = "clear_override" -> "forget"
                     [] OTHER                      -> "idle")
    /\ db' = [db EXCEPT
                !.fact[call.scen][call.meas] = Stored(@, call.vals),
                !.fixedBy[call.scen] = IF call.meas = Firm
                                       THEN Credited(@, call.vals, call.who)
                                       ELSE @]

\* set_override upserts the provenance row.
Explain ==
    /\ Step("explain", "done")
    /\ db' = [db EXCEPT !.author[call.scen] =
                [a \in Addr |-> IF a \in DOMAIN call.vals THEN call.who ELSE @[a]]]

\* clear_override deletes it.
Forget ==
    /\ Step("forget", "done")
    /\ db' = [db EXCEPT !.author[call.scen] =
                [a \in Addr |-> IF a \in DOMAIN call.vals THEN Nobody ELSE @[a]]]

\* Mutant of CommitBlock: the caller is told before anything is committed.
AckWithoutCommit ==
    /\ pc = "done"
    /\ Goto("idle")
    /\ acked' = [acked EXCEPT ![call.scen] =
                   [a \in Addr |-> IF a \in DOMAIN call.vals
                                   THEN call.vals[a] ELSE @[a]]]
    /\ UNCHANGED <<db, disk, calls>>

\* The end of the "with con" block: commit, and the caller is told.
CommitBlock ==
    /\ pc = "done"
    /\ Goto("idle")
    /\ disk' = db
    /\ acked' = [acked EXCEPT ![call.scen] =
                   [a \in Addr |-> IF a \in DOMAIN call.vals
                                   THEN call.vals[a] ELSE @[a]]]
    /\ UNCHANGED <<db, calls>>

\* commit_scenario's first statement.
Archive ==
    /\ Step("archive", "insert")
    /\ db' = [db EXCEPT !.status =
                [s \in Scenario |-> IF @[s] = "committed" THEN "archived" ELSE @[s]]]

\* Mutant of InsertScenario: frozen at creation, before the rows land (the
\* order docs/decisions.md rejects).
InsertFrozen ==
    /\ Exists(call.src)
    /\ ~NameTaken(call.name)
    /\ call.op = "commit" => ~HasCommitted
    /\ Step("insert", "copy")
    /\ db' = [db EXCEPT
                !.status[call.scen] = IF call.op = "commit" THEN "committed" ELSE "open",
                !.name[call.scen]   = call.name,
                !.growth[call.scen] = db.growth[call.src],
                !.frozen = IF call.op = "commit" THEN @ \cup {call.scen} ELSE @]

\* INSERT INTO scenario, with the source's growth rates.
InsertScenario ==
    /\ Exists(call.src)
    /\ ~NameTaken(call.name)
    /\ call.op = "commit" => ~HasCommitted
    /\ Step("insert", "copy")
    /\ db' = [db EXCEPT
                !.status[call.scen] = IF call.op = "commit" THEN "committed" ELSE "open",
                !.name[call.scen]   = call.name,
                !.growth[call.scen] = db.growth[call.src]]

\* _copy_facts: every fact table, and only the fact tables.
CopyFacts ==
    /\ Writable(call.scen)
    /\ Step("copy", IF call.op = "commit" THEN "freeze" ELSE "idle")
    /\ db' = [db EXCEPT !.fact[call.scen]    = db.fact[call.src],
                        !.fixedBy[call.scen] = db.fixedBy[call.src]]

\* The UPDATE that sets frozen_at, once the rows have landed.
Freeze ==
    /\ Step("freeze", "idle")
    /\ db' = [db EXCEPT !.frozen = @ \cup {call.scen}]

------------------------------------------------------------------------------
(***************************************************************************)
(* What can happen between two statements.                                 *)
(***************************************************************************)
\* The next statement raises: a full disk, an I/O error, a NOT NULL or UNIQUE
\* constraint, an unknown source.  Only a "with con" block rolls back.
Fail ==
    /\ pc # "idle"
    /\ Goto("idle")
    /\ db' = IF InTransactionBlock THEN disk ELSE db
    /\ UNCHANGED <<disk, acked, calls>>

\* The process is killed or the connection closed: what is pending is gone.
Crash ==
    /\ db # disk \/ pc # "idle"
    /\ db' = disk
    /\ Goto("idle")
    /\ UNCHANGED <<disk, acked, calls>>

\* con.commit() by the caller, between operations.
CallerCommit ==
    /\ pc = "idle"
    /\ db # disk
    /\ disk' = db
    /\ UNCHANGED <<db, pc, call, acked, calls>>

------------------------------------------------------------------------------
Begin ==
    \/ \E s \in Scenario, m \in Measure, w \in Write : WriteFacts(s, m, w)
    \/ \E s \in Scenario, a \in Addr, q \in Qty, who \in Author :
         SetOverride(s, a, q, who)
    \/ \E s \in Scenario, a \in Addr : ClearOverride(s, a)
    \/ \E s \in Scenario : RefusedOverride(s)
    \/ \E s \in Scenario, g \in Rate : SetGrowth(s, g)
    \/ \E src, s \in Scenario, n \in Name : CopyScenario(src, s, n)
    \/ \E src, s \in Scenario, n \in Name : CommitScenario(src, s, n)

Statement ==
    \/ ClearRows \/ StoreRows \/ Explain \/ Forget \/ CommitBlock
    \/ Archive \/ InsertScenario \/ CopyFacts \/ Freeze

Next == Begin \/ Statement \/ Fail \/ Crash \/ CallerCommit

Spec == Init /\ [][Next]_vars

------------------------------------------------------------------------------
(***************************************************************************)
(* Properties.                                                             *)
(***************************************************************************)
\* Scenario s holds in e what it holds in d: its name, rates, facts and people.
SameRows(d, e, s) ==
    /\ e.name[s] = d.name[s]
    /\ e.growth[s] = d.growth[s]
    /\ e.fact[s] = d.fact[s]
    /\ e.author[s] = d.author[s]
    /\ e.fixedBy[s] = d.fixedBy[s]

Kept(d, e, s) == e.status[s] # "absent" /\ SameRows(d, e, s)

\* A snapshot in the file never changes: no later override, import, planning
\* run, growth change, rollback or crash alters the rows, the assumptions or
\* the name of a frozen scenario, or thaws it.
FrozenForever ==
    [][\A s \in disk.frozen : s \in disk'.frozen /\ Kept(disk, disk', s)]_vars

\* What commit_scenario freezes is what its source holds at that moment, in
\* every fact table and in the growth rates ("frozen after its rows land").
FreezesTheSource ==
    [][\A s \in db'.frozen \ db.frozen :
         /\ db.fact[s] = db.fact[call.src]
         /\ db.growth[s] = db.growth[call.src]]_vars

\* The author on record for a fixed quantity is the person who fixed THAT
\* quantity: a failed or interrupted re-fix never leaves the new number under
\* the old name, neither on screen (between operations) nor in the file.
Attributed(d, s) ==
    \A a \in Addr : d.fact[s][Firm][a] # 0 => d.author[s][a] = d.fixedBy[s][a]
WorkingAttributed ==
    /\ pc = "idle" => Attributed(db, 0)
    /\ Attributed(disk, 0)

\* An override the caller was told about survives every later failure,
\* rollback and crash, until the next override of the same address.
Holds(d, s, a) ==
    /\ d.fact[s][Firm][a] = acked[s][a]
    /\ acked[s][a] # 0 => d.author[s][a] # Nobody
AckedOverridesKept ==
    \A s \in Scenario, a \in Addr : acked[s][a] # NoAck => Holds(disk, s, a)

------------------------------------------------------------------------------
(***************************************************************************)
(* The inductive invariants behind the theorems of FactStoreProofs.        *)
(***************************************************************************)
Writing    == pc \in {"clear", "set", "explain", "forget", "done"}
Overriding == Writing /\ InTransactionBlock

\* The override in progress is rewriting this address.
Rewriting(s, a) == Overriding /\ s = call.scen /\ a \in DOMAIN call.vals

\* What every statement may assume of the call it belongs to.
CallInv ==
    /\ Writing => call.op \in {"write", "set_override", "clear_override"}
    /\ Writing => (call.meas = Firm <=> InTransactionBlock)
    /\ pc \in {"explain", "forget", "done"} => InTransactionBlock
    /\ pc \in {"archive", "insert", "copy", "freeze"} => call.op \in {"copy", "commit"}
    /\ Writing /\ call.op = "set_override" => call.who \in Author
    /\ Writing /\ call.op = "clear_override" =>
           \A a \in DOMAIN call.vals : call.vals[a] = 0
    /\ pc = "explain" => call.op = "set_override"
    /\ pc = "forget" => call.op = "clear_override"

\* A scenario is written only while it exists and is open, and created only
\* under an id no scenario has.
TargetInv ==
    /\ Writing \/ pc = "copy" => Writable(call.scen)
    /\ pc \in {"archive", "insert"} => ~Exists(call.scen)
    /\ pc = "freeze" => Exists(call.scen)

\* What the file holds frozen is frozen, and the same, in this connection.
FrozenInv ==
    /\ \A s \in db.frozen : db.status[s] # "absent"
    /\ \A s \in disk.frozen :
           /\ disk.status[s] # "absent"
           /\ s \in db.frozen
           /\ Kept(disk, db, s)

\* An acknowledged override is in the file, and in this connection too unless
\* the override in progress is replacing it.
AckInv ==
    /\ \A s \in Scenario, a \in Addr : acked[s][a] # NoAck =>
           /\ disk.status[s] # "absent"
           /\ db.status[s] # "absent"
           /\ Holds(disk, s, a)
           /\ ~Rewriting(s, a) => Holds(db, s, a)
    /\ pc = "copy" => \A a \in Addr : acked[call.scen][a] = NoAck

\* How far the override in progress has got.
ProgressInv ==
    /\ Overriding /\ pc # "clear" =>
           \A a \in DOMAIN call.vals :
               call.vals[a] = 0 \/ pc # "set" =>
                   db.fact[call.scen][Firm][a] = call.vals[a]
    /\ pc \in {"explain", "done"} =>
           \A a \in DOMAIN call.vals :
               call.vals[a] # 0 => db.fixedBy[call.scen][a] = call.who
    /\ pc = "done" =>
           \A a \in DOMAIN call.vals :
               call.vals[a] # 0 => /\ db.author[call.scen][a] = call.who
                                   /\ call.who # Nobody

\* Attribution, off the address being rewritten.
AttributionInv ==
    /\ disk.status[0] # "absent" /\ db.status[0] # "absent"
    /\ Attributed(disk, 0)
    /\ \A a \in Addr : ~Rewriting(0, a) /\ db.fact[0][Firm][a] # 0 =>
           db.author[0][a] = db.fixedBy[0][a]
    /\ pc = "copy" => call.scen # 0
==============================================================================
