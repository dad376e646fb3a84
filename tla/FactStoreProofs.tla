--------------------------- MODULE FactStoreProofs ---------------------------
(***************************************************************************)
(* What FactStore guarantees for any number of scenarios, addresses,       *)
(* measures, planners and operations: its types, that snapshots never      *)
(* change and are their source, and what a planner who fixes a number can  *)
(* rely on.                                                                *)
(***************************************************************************)
EXTENDS FactStore, TLAPS

USE ScenarioAssumption, MeasureAssumption, QtyAssumption, PeopleAssumption,
    NameAssumption, RateAssumption, AckAssumption

------------------------------------------------------------------------------
\* The arguments an operation is entered with are well typed.
LEMMA NoCallType == NoCall \in Call
<1>1. [a \in {} |-> 0] \in Write
  <2>1. {} \in SUBSET Addr
    OBVIOUS
  <2>2. [a \in {} |-> 0] \in [{} -> Qty]
    OBVIOUS
  <2> QED
    BY <2>1, <2>2 DEF Write
<1> QED
  BY <1>1 DEF NoCall, Call, Op

\* A write of one address is a write.
LEMMA SingleWrite ==
  ASSUME NEW a \in Addr, NEW q \in Qty
  PROVE  [x \in {a} |-> q] \in Write
<1>1. {a} \in SUBSET Addr
  OBVIOUS
<1>2. [x \in {a} |-> q] \in [{a} -> Qty]
  OBVIOUS
<1> QED
  BY <1>1, <1>2 DEF Write

\* A written address holds a quantity.
LEMMA WriteRange ==
  ASSUME NEW w \in Write
  PROVE  /\ DOMAIN w \subseteq Addr
         /\ \A a \in DOMAIN w : w[a] \in Qty
<1> PICK A \in SUBSET Addr : w \in [A -> Qty]
  BY DEF Write
<1> QED
  OBVIOUS

\* The two halves of write_facts keep a measure a function to quantities.
LEMMA RowsType ==
  ASSUME NEW w \in Write, NEW old \in [Addr -> Qty]
  PROVE  /\ Zeroed(old, w) \in [Addr -> Qty]
         /\ Stored(old, w) \in [Addr -> Qty]
BY WriteRange DEF Zeroed, Stored, Qty

LEMMA CreditedType ==
  ASSUME NEW w \in Write, NEW who \in Author \cup {Nobody},
         NEW old \in [Addr -> Author \cup {Nobody}]
  PROVE  Credited(old, w, who) \in [Addr -> Author \cup {Nobody}]
BY DEF Credited

\* The types of the tables, one by one.
LEMMA TableTypes ==
  ASSUME NEW d \in Database
  PROVE  /\ d.status \in [Scenario -> Status]
         /\ d.frozen \in SUBSET Scenario
         /\ d.name \in [Scenario -> Name]
         /\ d.growth \in [Scenario -> Rate]
         /\ d.fact \in [Scenario -> [Measure -> [Addr -> Qty]]]
         /\ d.author \in [Scenario -> [Addr -> Author \cup {Nobody}]]
         /\ d.fixedBy \in [Scenario -> [Addr -> Author \cup {Nobody}]]
BY DEF Database

\* Replacing one measure of one scenario keeps the tables typed.
LEMMA MeasureUpdateType ==
  ASSUME NEW d \in Database, NEW s \in Scenario, NEW m \in Measure,
         NEW f \in [Addr -> Qty]
  PROVE  [d EXCEPT !.fact[s][m] = f] \in Database
<1>1. [d.fact EXCEPT ![s] = [@ EXCEPT ![m] = f]]
        \in [Scenario -> [Measure -> [Addr -> Qty]]]
  <2>1. [d.fact[s] EXCEPT ![m] = f] \in [Measure -> [Addr -> Qty]]
    BY TableTypes
  <2> QED
    BY <2>1, TableTypes
<1> QED
  BY <1>1 DEF Database

\* So does replacing who fixed the quantities, or who is on record.
LEMMA PeopleUpdateType ==
  ASSUME NEW d \in Database, NEW s \in Scenario,
         NEW g \in [Addr -> Author \cup {Nobody}]
  PROVE  /\ [d EXCEPT !.fixedBy[s] = g] \in Database
         /\ [d EXCEPT !.author[s] = g] \in Database
<1>1. [d.fixedBy EXCEPT ![s] = g] \in [Scenario -> [Addr -> Author \cup {Nobody}]]
  BY TableTypes
<1>2. [d.author EXCEPT ![s] = g] \in [Scenario -> [Addr -> Author \cup {Nobody}]]
  BY TableTypes
<1> QED
  BY <1>1, <1>2 DEF Database

LEMMA SeededType == Seeded \in Database
BY DEF Seeded, Database, NoFacts, NoWhy, Status, Qty

------------------------------------------------------------------------------
LEMMA InitType == Init => TypeOK
BY SeededType, NoCallType DEF Init, TypeOK, PC

LEMMA BeginType == TypeOK /\ Begin => TypeOK'
<1> SUFFICES ASSUME TypeOK, Begin PROVE TypeOK'
  OBVIOUS
<1> USE NoCallType DEF TypeOK, PC
<1>1. ASSUME NEW s \in Scenario, NEW m \in Measure, NEW w \in Write, WriteFacts(s, m, w)
      PROVE  TypeOK'
  <2>1. call' \in Call
    BY <1>1 DEF WriteFacts, Enter, Call, Op
  <2> QED
    BY <1>1, <2>1 DEF WriteFacts, Enter
<1>2. ASSUME NEW s \in Scenario, NEW a \in Addr, NEW q \in Qty, NEW who \in Author,
             SetOverride(s, a, q, who)
      PROVE  TypeOK'
  <2>1. call' \in Call
    BY <1>2, SingleWrite DEF SetOverride, Enter, Call, Op
  <2> QED
    BY <1>2, <2>1 DEF SetOverride, Enter
<1>3. ASSUME NEW s \in Scenario, NEW a \in Addr, ClearOverride(s, a)
      PROVE  TypeOK'
  <2>1. call' \in Call
    <3>0. 0 \in Qty
      BY DEF Qty
    <3>1. [x \in {a} |-> 0] \in Write
      BY <3>0, SingleWrite
    <3> QED
      BY <1>3, <3>1 DEF ClearOverride, Enter, Call, Op
  <2> QED
    BY <1>3, <2>1 DEF ClearOverride, Enter
<1>4. ASSUME NEW s \in Scenario, RefusedOverride(s)
      PROVE  TypeOK'
  BY <1>4 DEF RefusedOverride
<1>5. ASSUME NEW s \in Scenario, NEW g \in Rate, SetGrowth(s, g)
      PROVE  TypeOK'
  <2>1. db' \in Database
    BY <1>5 DEF SetGrowth, Database
  <2> QED
    BY <1>5, <2>1 DEF SetGrowth
<1>6. ASSUME NEW src \in Scenario, NEW s \in Scenario, NEW n \in Name,
             CopyScenario(src, s, n) \/ CommitScenario(src, s, n)
      PROVE  TypeOK'
  <2>1. call' \in Call
    BY <1>6, ZenonT(30) DEF CopyScenario, CommitScenario, Enter, Call, Op
  <2> QED
    BY <1>6, <2>1 DEF CopyScenario, CommitScenario, Enter
<1> QED
  BY <1>1, <1>2, <1>3, <1>4, <1>5, <1>6 DEF Begin

\* Every statement leaves well-typed tables and arguments.
LEMMA StatementType == TypeOK /\ Statement => TypeOK'
<1> SUFFICES ASSUME TypeOK, Statement PROVE TypeOK'
  OBVIOUS
<1> USE DEF TypeOK
<1>c. ASSUME NEW next \in PC, Goto(next)
      PROVE  pc' \in PC /\ call' \in Call
  BY <1>c, NoCallType DEF Goto
<1>v. /\ call.vals \in Write /\ call.scen \in Scenario /\ call.meas \in Measure
      /\ call.src \in Scenario /\ call.name \in Name /\ call.who \in Author \cup {Nobody}
  BY DEF Call
<1>w. db \in Database
  OBVIOUS
<1> DEFINE old == db.fact[call.scen][call.meas]
           explained == [a \in Addr |-> IF a \in DOMAIN call.vals
                                       THEN call.who ELSE db.author[call.scen][a]]
           forgotten == [a \in Addr |-> IF a \in DOMAIN call.vals
                                       THEN Nobody ELSE db.author[call.scen][a]]
<1>o. /\ old \in [Addr -> Qty]
      /\ db.fixedBy[call.scen] \in [Addr -> Author \cup {Nobody}]
      /\ db.author[call.scen] \in [Addr -> Author \cup {Nobody}]
  <2>1. /\ db.fact \in [Scenario -> [Measure -> [Addr -> Qty]]]
        /\ db.fixedBy \in [Scenario -> [Addr -> Author \cup {Nobody}]]
        /\ db.author \in [Scenario -> [Addr -> Author \cup {Nobody}]]
    BY <1>w, TableTypes
  <2> HIDE DEF TypeOK
  <2> QED
    BY <1>v, <2>1
<1>1. CASE ClearRows
  <2>1. Zeroed(old, call.vals) \in [Addr -> Qty]
    BY <1>v, <1>o, RowsType
  <2>2. db' = [db EXCEPT !.fact[call.scen][call.meas] = Zeroed(old, call.vals)]
    BY <1>1 DEF ClearRows
  <2>3. db' \in Database
    BY <1>v, <1>w, <2>1, <2>2, MeasureUpdateType
  <2> QED
    BY <1>1, <1>c, <2>3 DEF ClearRows, Step, PC
<1>2. CASE StoreRows
  <2> DEFINE stored == [db EXCEPT !.fact[call.scen][call.meas] = Stored(old, call.vals)]
             credit == Credited(db.fixedBy[call.scen], call.vals, call.who)
  <2>1. Stored(old, call.vals) \in [Addr -> Qty]
    BY <1>v, <1>o, RowsType
  <2>2. credit \in [Addr -> Author \cup {Nobody}]
    BY <1>v, <1>o, CreditedType
  <2>3. stored \in Database
    BY <1>v, <1>w, <2>1, MeasureUpdateType
  <2>4. db' = [stored EXCEPT !.fixedBy[call.scen] =
                 IF call.meas = Firm THEN credit ELSE db.fixedBy[call.scen]]
    BY <1>2, <1>w DEF StoreRows, Database
  <2>5. db' \in Database
    <3> HIDE DEF stored, credit
    <3> QED
      BY <1>v, <1>o, <2>2, <2>3, <2>4, PeopleUpdateType
  <2> QED
    BY <1>2, <1>c, <2>5 DEF StoreRows, Step, PC
<1>3. CASE Explain \/ Forget
  <2>1. explained \in [Addr -> Author \cup {Nobody}]
    BY <1>v, <1>o
  <2>2. forgotten \in [Addr -> Author \cup {Nobody}]
    BY <1>v, <1>o
  <2>3. \/ db' = [db EXCEPT !.author[call.scen] = explained]
        \/ db' = [db EXCEPT !.author[call.scen] = forgotten]
    BY <1>3 DEF Explain, Forget
  <2>4. db' \in Database
    <3> HIDE DEF explained, forgotten, TypeOK
    <3>1. [db EXCEPT !.author[call.scen] = explained] \in Database
      BY <1>v, <1>w, <2>1, PeopleUpdateType
    <3>2. [db EXCEPT !.author[call.scen] = forgotten] \in Database
      BY <1>v, <1>w, <2>2, PeopleUpdateType
    <3> QED
      BY <2>3, <3>1, <3>2
  <2> QED
    BY <1>3, <1>c, <2>4 DEF Explain, Forget, Step, PC
<1>4. CASE CommitBlock
  <2>1. acked' \in [Scenario -> [Addr -> Qty \cup {NoAck}]]
    BY <1>4, <1>v, WriteRange DEF CommitBlock
  <2> QED
    BY <1>4, <1>c, <2>1 DEF CommitBlock, PC
<1>5. CASE Archive
  <2>1. db' \in Database
    BY <1>5 DEF Archive, Step, Database, Status
  <2> QED
    BY <1>5, <1>c, <2>1 DEF Archive, Step, PC
<1>6. CASE InsertScenario
  <2>1. db' \in Database
    BY <1>6, <1>v DEF InsertScenario, Step, Database, Status
  <2> QED
    BY <1>6, <1>c, <2>1 DEF InsertScenario, Step, PC
<1>7. CASE CopyFacts
  <2>1. db' \in Database
    BY <1>7, <1>v DEF CopyFacts, Step, Database
  <2> QED
    BY <1>7, <1>c, <2>1 DEF CopyFacts, Step, PC
<1>8. CASE Freeze
  <2>1. db' \in Database
    BY <1>8, <1>v DEF Freeze, Step, Database
  <2> QED
    BY <1>8, <1>c, <2>1 DEF Freeze, Step, PC
<1> QED
  BY <1>1, <1>2, <1>3, <1>4, <1>5, <1>6, <1>7, <1>8 DEF Statement

LEMMA NextType == TypeOK /\ [Next]_vars => TypeOK'
<1>1. CASE Begin
  BY <1>1, BeginType
<1>2. CASE Statement
  BY <1>2, StatementType
<1>3. CASE Fail \/ Crash \/ CallerCommit
  BY <1>3, NoCallType DEF TypeOK, Fail, Crash, CallerCommit, Goto, PC
<1>4. CASE UNCHANGED vars
  BY <1>4 DEF TypeOK, vars
<1> QED
  BY <1>1, <1>2, <1>3, <1>4 DEF Next

\* The tables, the arguments and the bookkeeping keep their types.
THEOREM TypeCorrect == Spec => []TypeOK
BY InitType, NextType, PTL DEF Spec

------------------------------------------------------------------------------
(***************************************************************************)
(* What each statement does to the tables, field by field.                 *)
(***************************************************************************)
LEMMA CallTypes ==
  ASSUME TypeOK
  PROVE  /\ call.vals \in Write /\ call.scen \in Scenario
         /\ call.meas \in Measure /\ call.src \in Scenario
         /\ call.name \in Name /\ call.who \in Author \cup {Nobody}
         /\ call.op \in Op
         /\ db \in Database /\ disk \in Database
         /\ DOMAIN call.vals \subseteq Addr
<1>1. call.vals \in Write
  BY DEF TypeOK, Call
<1> QED
  BY <1>1, WriteRange DEF TypeOK, Call

\* write_facts and the two provenance statements touch one scenario's rows.
LEMMA RowStatementEffect ==
  ASSUME TypeOK, ClearRows \/ StoreRows \/ Explain \/ Forget
  PROVE  /\ db'.status = db.status /\ db'.frozen = db.frozen
         /\ \A t \in Scenario : t # call.scen => SameRows(db, db', t)
<1>1. db \in Database /\ call.scen \in Scenario
  BY CallTypes
<1>2. CASE ClearRows
  BY <1>1, <1>2 DEF ClearRows, Database, SameRows
<1>3. CASE StoreRows
  BY <1>1, <1>3 DEF StoreRows, Database, SameRows
<1>4. CASE Explain \/ Forget
  BY <1>1, <1>4 DEF Explain, Forget, Database, SameRows
<1> QED
  BY <1>2, <1>3, <1>4

LEMMA ArchiveEffect ==
  ASSUME TypeOK, Archive
  PROVE  /\ db'.frozen = db.frozen
         /\ \A t \in Scenario : /\ db'.status[t] = "absent" <=> db.status[t] = "absent"
                               /\ SameRows(db, db', t)
<1>1. db \in Database
  BY CallTypes
<1> QED
  BY <1>1 DEF Archive, Database, SameRows

\* The INSERT makes one row, which holds no facts yet.
LEMMA InsertEffect ==
  ASSUME TypeOK, InsertScenario
  PROVE  /\ db'.frozen = db.frozen
         /\ db'.status[call.scen] # "absent"
         /\ \A t \in Scenario : t # call.scen =>
                /\ db'.status[t] = db.status[t]
                /\ SameRows(db, db', t)
         /\ db'.fact = db.fact /\ db'.author = db.author /\ db'.fixedBy = db.fixedBy
<1>1. db \in Database /\ call.scen \in Scenario
  BY CallTypes
<1> QED
  BY <1>1 DEF InsertScenario, Database, SameRows

LEMMA CopyEffect ==
  ASSUME TypeOK, CopyFacts
  PROVE  /\ db'.status = db.status /\ db'.frozen = db.frozen
         /\ \A t \in Scenario : t # call.scen => SameRows(db, db', t)
<1>1. db \in Database /\ call.scen \in Scenario
  BY CallTypes
<1> QED
  BY <1>1 DEF CopyFacts, Database, SameRows

LEMMA FreezeEffect ==
  ASSUME TypeOK, Freeze
  PROVE  /\ db'.status = db.status
         /\ db'.frozen = db.frozen \cup {call.scen}
         /\ \A t \in Scenario : SameRows(db, db', t)
<1>1. db \in Database /\ call.scen \in Scenario
  BY CallTypes
<1> QED
  BY <1>1 DEF Freeze, Database, SameRows

------------------------------------------------------------------------------
(***************************************************************************)
(* A frozen scenario never changes.                                        *)
(***************************************************************************)
SnapshotInv == TypeOK /\ CallInv /\ TargetInv /\ FrozenInv

LEMMA InitSnapshot == Init => SnapshotInv
<1> SUFFICES ASSUME Init PROVE SnapshotInv
  OBVIOUS
<1>1. TypeOK
  BY InitType
<1>2. CallInv /\ TargetInv
  BY DEF Init, CallInv, TargetInv, Writing
<1>3. FrozenInv
  BY DEF Init, FrozenInv, Seeded
<1> QED
  BY <1>1, <1>2, <1>3 DEF SnapshotInv

\* A step that leaves the file alone and the rows of every frozen scenario.
LEMMA FrozenKept ==
  ASSUME SnapshotInv, disk' = disk, db.frozen \subseteq db'.frozen,
         \A t \in db'.frozen : db'.status[t] # "absent",
         \A t \in db.frozen : SameRows(db, db', t)
  PROVE  FrozenInv'
<1> SUFFICES ASSUME NEW t \in disk.frozen
             PROVE  disk.status[t] # "absent" /\ t \in db'.frozen /\ Kept(disk, db', t)
  BY DEF FrozenInv
<1>1. disk.status[t] # "absent" /\ t \in db.frozen /\ SameRows(disk, db, t)
  BY DEF SnapshotInv, FrozenInv, Kept
<1>2. t \in db'.frozen /\ db'.status[t] # "absent" /\ SameRows(db, db', t)
  BY <1>1
<1>3. SameRows(disk, db', t)
  BY <1>1, <1>2 DEF SameRows
<1> QED
  BY <1>1, <1>2, <1>3 DEF Kept

\* Entering an operation establishes what its statements assume.
LEMMA BeginSnapshot ==
  ASSUME SnapshotInv, Begin
  PROVE  CallInv' /\ TargetInv' /\ FrozenInv'
<1> USE DEF SnapshotInv
<1>1. ASSUME NEW s \in Scenario, NEW m \in Measure, NEW w \in Write, WriteFacts(s, m, w)
      PROVE  CallInv' /\ TargetInv' /\ FrozenInv'
  <2>1. /\ pc' = "clear" /\ db' = db /\ disk' = disk
        /\ call'.op = "write" /\ call'.scen = s /\ call'.meas = m /\ m # Firm
        /\ Writable(s)
    BY <1>1 DEF WriteFacts, Enter, NoCall
  <2> QED
    BY <2>1 DEF CallInv, TargetInv, FrozenInv, Writing, InTransactionBlock, Writable,
                Exists, Kept, SameRows
<1>2. ASSUME NEW s \in Scenario, NEW a \in Addr, NEW q \in Qty, NEW who \in Author,
             SetOverride(s, a, q, who)
      PROVE  CallInv' /\ TargetInv' /\ FrozenInv'
  <2>1. /\ pc' = "clear" /\ db' = db /\ disk' = disk
        /\ call'.op = "set_override" /\ call'.scen = s /\ call'.meas = Firm
        /\ call'.who = who /\ Writable(s)
    BY <1>2 DEF SetOverride, Enter, NoCall
  <2> QED
    BY <2>1 DEF CallInv, TargetInv, FrozenInv, Writing, InTransactionBlock, Writable,
                Exists, Kept, SameRows
<1>3. ASSUME NEW s \in Scenario, NEW a \in Addr, ClearOverride(s, a)
      PROVE  CallInv' /\ TargetInv' /\ FrozenInv'
  <2>1. /\ pc' = "clear" /\ db' = db /\ disk' = disk
        /\ call'.op = "clear_override" /\ call'.scen = s /\ call'.meas = Firm
        /\ call'.vals = [x \in {a} |-> 0] /\ Writable(s)
    BY <1>3 DEF ClearOverride, Enter, NoCall
  <2> QED
    BY <2>1 DEF CallInv, TargetInv, FrozenInv, Writing, InTransactionBlock, Writable,
                Exists, Kept, SameRows
<1>4. ASSUME NEW s \in Scenario, RefusedOverride(s)
      PROVE  CallInv' /\ TargetInv' /\ FrozenInv'
  <2>1. pc = "idle" /\ pc' = "idle" /\ db' = disk /\ disk' = disk /\ call' = call
    BY <1>4 DEF RefusedOverride
  <2> QED
    BY <2>1 DEF CallInv, TargetInv, FrozenInv, Writing, Kept, SameRows
<1>5. ASSUME NEW s \in Scenario, NEW g \in Rate, SetGrowth(s, g)
      PROVE  CallInv' /\ TargetInv' /\ FrozenInv'
  <2>1. /\ pc = "idle" /\ pc' = "idle" /\ disk' = disk /\ call' = call
        /\ s \notin db.frozen
    BY <1>5 DEF SetGrowth, Writable
  <2>2. /\ db'.status = db.status /\ db'.frozen = db.frozen
        /\ \A t \in Scenario : t # s => SameRows(db, db', t)
    BY <1>5 DEF SetGrowth, TypeOK, Database, SameRows
  <2>3. db.frozen \subseteq Scenario
    BY DEF TypeOK, Database
  <2>4. \A t \in db.frozen : SameRows(db, db', t)
    BY <2>1, <2>2, <2>3
  <2>5. FrozenInv'
    BY <2>1, <2>2, <2>4, FrozenKept DEF FrozenInv
  <2>6. CallInv' /\ TargetInv'
    BY <2>1 DEF CallInv, TargetInv, Writing
  <2> QED
    BY <2>5, <2>6
<1>6. ASSUME NEW src \in Scenario, NEW s \in Scenario, NEW n \in Name,
             CopyScenario(src, s, n) \/ CommitScenario(src, s, n)
      PROVE  CallInv' /\ TargetInv' /\ FrozenInv'
  <2>1. /\ pc' \in {"archive", "insert"} /\ db' = db /\ disk' = disk
        /\ call'.op \in {"copy", "commit"} /\ call'.scen = s
    BY <1>6 DEF CopyScenario, CommitScenario, Enter, NoCall
  <2>2. ~Exists(s)
    <3> PICK t \in Scenario : /\ \A u \in Scenario : Exists(u) => u <= t
                             /\ s = t + 1
      BY <1>6 DEF CopyScenario, CommitScenario, IsNextId
    <3> QED
      OBVIOUS
  <2> QED
    BY <2>1, <2>2 DEF CallInv, TargetInv, FrozenInv, Writing, InTransactionBlock,
                      Writable, Exists, Kept, SameRows
<1> QED
  BY <1>1, <1>2, <1>3, <1>4, <1>5, <1>6 DEF Begin

\* Every statement writes only rows of a scenario that is not frozen.
LEMMA StatementSnapshot ==
  ASSUME SnapshotInv, Statement
  PROVE  CallInv' /\ TargetInv' /\ FrozenInv'
<1>t. TypeOK /\ CallInv /\ TargetInv /\ FrozenInv
  BY DEF SnapshotInv
<1>s. /\ call.scen \in Scenario /\ db.frozen \subseteq Scenario
      /\ db.status \in [Scenario -> Status]
  BY <1>t, CallTypes, TableTypes
<1>1. CASE ClearRows
  <2>1. pc = "clear" /\ pc' = "set" /\ call' = call /\ disk' = disk
    BY <1>1 DEF ClearRows, Step, Goto
  <2>2. db'.status = db.status /\ db'.frozen = db.frozen
    BY <1>1, <1>t, RowStatementEffect
  <2>3. call.scen \notin db.frozen
    BY <1>t, <2>1 DEF TargetInv, Writing, Writable
  <2>4. \A t \in db.frozen : SameRows(db, db', t)
    BY <1>1, <1>t, <1>s, <2>3, RowStatementEffect
  <2>5. FrozenInv'
    BY <1>t, <2>1, <2>2, <2>4, FrozenKept DEF FrozenInv
  <2>6. CallInv' /\ TargetInv'
    BY <1>t, <2>1, <2>2 DEF CallInv, TargetInv, Writing, InTransactionBlock, Writable, Exists
  <2> QED
    BY <2>5, <2>6
<1>2. CASE StoreRows
  <2>1. /\ pc = "set" /\ disk' = disk
        /\ \/ pc' = "explain" /\ call.op = "set_override" /\ call' = call
           \/ pc' = "forget" /\ call.op = "clear_override" /\ call' = call
           \/ pc' = "idle"
    BY <1>2 DEF StoreRows, Step, Goto
  <2>2. db'.status = db.status /\ db'.frozen = db.frozen
    BY <1>2, <1>t, RowStatementEffect
  <2>3. call.scen \notin db.frozen
    BY <1>t, <2>1 DEF TargetInv, Writing, Writable
  <2>4. \A t \in db.frozen : SameRows(db, db', t)
    BY <1>2, <1>t, <1>s, <2>3, RowStatementEffect
  <2>5. FrozenInv'
    BY <1>t, <2>1, <2>2, <2>4, FrozenKept DEF FrozenInv
  <2>6. CallInv' /\ TargetInv'
    BY <1>t, <2>1, <2>2 DEF CallInv, TargetInv, Writing, InTransactionBlock, Writable, Exists
  <2> QED
    BY <2>5, <2>6
<1>3. CASE Explain \/ Forget
  <2>1. pc \in {"explain", "forget"} /\ pc' = "done" /\ call' = call /\ disk' = disk
    BY <1>3 DEF Explain, Forget, Step, Goto
  <2>2. db'.status = db.status /\ db'.frozen = db.frozen
    BY <1>3, <1>t, RowStatementEffect
  <2>3. call.scen \notin db.frozen
    BY <1>t, <2>1 DEF TargetInv, Writing, Writable
  <2>4. \A t \in db.frozen : SameRows(db, db', t)
    BY <1>3, <1>t, <1>s, <2>3, RowStatementEffect
  <2>5. FrozenInv'
    BY <1>t, <2>1, <2>2, <2>4, FrozenKept DEF FrozenInv
  <2>6. CallInv' /\ TargetInv'
    BY <1>t, <2>1, <2>2 DEF CallInv, TargetInv, Writing, InTransactionBlock, Writable, Exists
  <2> QED
    BY <2>5, <2>6
<1>4. CASE CommitBlock
  <2>1. pc' = "idle" /\ disk' = db /\ db' = db
    BY <1>4 DEF CommitBlock, Goto
  <2> QED
    BY <1>t, <2>1 DEF CallInv, TargetInv, FrozenInv, Writing, Kept, SameRows
<1>5. CASE Archive
  <2>1. pc = "archive" /\ pc' = "insert" /\ call' = call /\ disk' = disk
    BY <1>5 DEF Archive, Step, Goto
  <2>2. /\ db'.frozen = db.frozen
        /\ \A t \in Scenario : /\ db'.status[t] = "absent" <=> db.status[t] = "absent"
                               /\ SameRows(db, db', t)
    BY <1>5, <1>t, ArchiveEffect
  <2>3. FrozenInv'
    BY <1>t, <1>s, <2>1, <2>2, FrozenKept DEF FrozenInv
  <2>4. CallInv' /\ TargetInv'
    BY <1>t, <1>s, <2>1, <2>2 DEF CallInv, TargetInv, Writing, Exists
  <2> QED
    BY <2>3, <2>4
<1>6. CASE InsertScenario
  <2>1. pc = "insert" /\ pc' = "copy" /\ call' = call /\ disk' = disk
    BY <1>6 DEF InsertScenario, Step, Goto
  <2>2. /\ db'.frozen = db.frozen
        /\ db'.status[call.scen] # "absent"
        /\ \A t \in Scenario : t # call.scen =>
                db'.status[t] = db.status[t] /\ SameRows(db, db', t)
    BY <1>6, <1>t, InsertEffect
  <2>3. call.scen \notin db.frozen
    BY <1>t, <2>1 DEF TargetInv, FrozenInv, Exists
  <2>4. FrozenInv'
    BY <1>t, <1>s, <2>1, <2>2, <2>3, FrozenKept DEF FrozenInv
  <2>5. CallInv' /\ TargetInv'
    BY <1>t, <1>s, <2>1, <2>2, <2>3 DEF CallInv, TargetInv, Writing, Writable, Exists
  <2> QED
    BY <2>4, <2>5
<1>7. CASE CopyFacts
  <2>1. /\ pc = "copy" /\ disk' = disk
        /\ pc' = "idle" \/ (pc' = "freeze" /\ call' = call)
    BY <1>7 DEF CopyFacts, Step, Goto
  <2>2. /\ db'.status = db.status /\ db'.frozen = db.frozen
        /\ \A t \in Scenario : t # call.scen => SameRows(db, db', t)
    BY <1>7, <1>t, CopyEffect
  <2>3. Writable(call.scen)
    BY <1>7 DEF CopyFacts
  <2>4. FrozenInv'
    BY <1>t, <1>s, <2>1, <2>2, <2>3, FrozenKept DEF FrozenInv, Writable
  <2>5. CallInv' /\ TargetInv'
    BY <1>t, <2>1, <2>2, <2>3 DEF CallInv, TargetInv, Writing, Writable, Exists
  <2> QED
    BY <2>4, <2>5
<1>8. CASE Freeze
  <2>1. pc = "freeze" /\ pc' = "idle" /\ disk' = disk
    BY <1>8 DEF Freeze, Step, Goto
  <2>2. /\ db'.status = db.status
        /\ db'.frozen = db.frozen \cup {call.scen}
        /\ \A t \in Scenario : SameRows(db, db', t)
    BY <1>8, <1>t, FreezeEffect
  <2>3. db.status[call.scen] # "absent"
    BY <1>t, <2>1 DEF TargetInv, Exists
  <2>4. FrozenInv'
    BY <1>t, <1>s, <2>1, <2>2, <2>3, FrozenKept DEF FrozenInv
  <2>5. CallInv' /\ TargetInv'
    BY <2>1 DEF CallInv, TargetInv, Writing
  <2> QED
    BY <2>4, <2>5
<1> QED
  BY <1>1, <1>2, <1>3, <1>4, <1>5, <1>6, <1>7, <1>8 DEF Statement

LEMMA NextSnapshot == SnapshotInv /\ [Next]_vars => SnapshotInv'
<1> SUFFICES ASSUME SnapshotInv, [Next]_vars PROVE SnapshotInv'
  OBVIOUS
<1>t. TypeOK' /\ TypeOK /\ CallInv /\ TargetInv /\ FrozenInv
  BY NextType DEF SnapshotInv
<1>1. CASE Begin
  BY <1>1, <1>t, BeginSnapshot DEF SnapshotInv
<1>2. CASE Statement
  BY <1>2, <1>t, StatementSnapshot DEF SnapshotInv
<1>3. CASE Fail \/ Crash
  <2>1. pc' = "idle" /\ disk' = disk /\ (db' = db \/ db' = disk)
    BY <1>3 DEF Fail, Crash, Goto
  <2>2. CallInv' /\ TargetInv'
    BY <2>1 DEF CallInv, TargetInv, Writing
  <2>3. FrozenInv'
    BY <1>t, <2>1 DEF FrozenInv, Kept, SameRows
  <2> QED
    BY <1>t, <2>2, <2>3 DEF SnapshotInv
<1>4. CASE CallerCommit
  <2>1. pc = "idle" /\ pc' = "idle" /\ call' = call /\ disk' = db /\ db' = db
    BY <1>4 DEF CallerCommit
  <2>2. CallInv' /\ TargetInv'
    BY <2>1 DEF CallInv, TargetInv, Writing
  <2>3. FrozenInv'
    BY <1>t, <2>1 DEF FrozenInv, Kept, SameRows
  <2> QED
    BY <1>t, <2>2, <2>3 DEF SnapshotInv
<1>5. CASE UNCHANGED vars
  BY <1>5, <1>t DEF vars, SnapshotInv, CallInv, TargetInv, FrozenInv, Writing,
                    InTransactionBlock, Writable, Exists, Kept, SameRows
<1> QED
  BY <1>1, <1>2, <1>3, <1>4, <1>5 DEF Next

\* Only a commit writes the file, and what it writes is this connection's view.
LEMMA OnlyCommitsWrite == [Next]_vars => disk' = disk \/ (disk' = db /\ db' = db)
<1> SUFFICES ASSUME [Next]_vars PROVE disk' = disk \/ (disk' = db /\ db' = db)
  OBVIOUS
<1>1. CASE Begin
  BY <1>1 DEF Begin, WriteFacts, SetOverride, ClearOverride, RefusedOverride,
              SetGrowth, CopyScenario, CommitScenario, Enter
<1>2. CASE Statement
  BY <1>2 DEF Statement, ClearRows, StoreRows, Explain, Forget, CommitBlock,
              Archive, InsertScenario, CopyFacts, Freeze, Step
<1>3. CASE Fail \/ Crash \/ CallerCommit \/ UNCHANGED vars
  BY <1>3 DEF Fail, Crash, CallerCommit, vars
<1> QED
  BY <1>1, <1>2, <1>3 DEF Next

\* No sequence of operations, failures, rollbacks and crashes changes or thaws
\* a snapshot the file holds.
THEOREM SnapshotsNeverChange == Spec => FrozenForever
<1>1. SnapshotInv /\ [Next]_vars
        => [\A s \in disk.frozen : s \in disk'.frozen /\ Kept(disk, disk', s)]_vars
  BY OnlyCommitsWrite DEF SnapshotInv, FrozenInv, Kept, SameRows
<1> QED
  BY <1>1, InitSnapshot, NextSnapshot, PTL DEF Spec, FrozenForever

------------------------------------------------------------------------------
(***************************************************************************)
(* What is frozen is what the source holds.                                *)
(***************************************************************************)
\* The new scenario has its source's rates from its row on, its facts from the copy.
SourceInv ==
    /\ pc \in {"copy", "freeze"} => db.growth[call.scen] = db.growth[call.src]
    /\ pc = "freeze" => db.fact[call.scen] = db.fact[call.src]

LEMMA InitSource == Init => SourceInv
BY DEF Init, SourceInv

\* Only the insert and the copy come before a copy or a freeze.
LEMMA NextSource == SnapshotInv /\ SourceInv /\ [Next]_vars => SourceInv'
<1> SUFFICES ASSUME SnapshotInv, SourceInv, [Next]_vars PROVE SourceInv'
  OBVIOUS
<1>t. TypeOK
  BY DEF SnapshotInv
<1>s. call.scen \in Scenario /\ call.src \in Scenario /\ db \in Database
  BY <1>t, CallTypes
<1>1. CASE InsertScenario
  <2>1. pc' = "copy" /\ call' = call
    BY <1>1 DEF InsertScenario, Step, Goto
  <2>2. db'.growth = [db.growth EXCEPT ![call.scen] = db.growth[call.src]]
    BY <1>1, <1>s DEF InsertScenario, Database
  <2>3. db'.growth[call.scen] = db'.growth[call.src]
    BY <1>s, <2>2, TableTypes
  <2> QED
    BY <2>1, <2>3 DEF SourceInv
<1>2. CASE CopyFacts
  <2>1. pc = "copy" /\ pc' \in {"freeze", "idle"} /\ (pc' = "freeze" => call' = call)
    BY <1>2 DEF CopyFacts, Step, Goto
  <2>2. /\ db'.fact = [db.fact EXCEPT ![call.scen] = db.fact[call.src]]
        /\ db'.growth = db.growth
    BY <1>2, <1>s DEF CopyFacts, Database
  <2>3. db'.fact[call.scen] = db'.fact[call.src]
    BY <1>s, <2>2, TableTypes
  <2> QED
    BY <2>1, <2>2, <2>3 DEF SourceInv
<1>3. CASE UNCHANGED vars
  BY <1>3 DEF vars, SourceInv
<1>4. CASE \/ Begin \/ ClearRows \/ StoreRows \/ Explain \/ Forget \/ CommitBlock
           \/ Archive \/ Freeze \/ Fail \/ Crash \/ CallerCommit
  <2>1. pc' \notin {"copy", "freeze"}
    BY <1>4, ZenonT(30)
       DEF Begin, WriteFacts, SetOverride, ClearOverride, RefusedOverride, SetGrowth,
           CopyScenario, CommitScenario, Enter, ClearRows, StoreRows, Explain, Forget,
           CommitBlock, Archive, Freeze, Fail, Crash, CallerCommit, Step, Goto
  <2> QED
    BY <2>1, Zenon DEF SourceInv
<1> QED
  BY <1>1, <1>2, <1>3, <1>4 DEF Next, Statement

\* A freeze is the only step that freezes: a rollback or a restart returns to a file
\* whose snapshots are all frozen here already.
LEMMA OnlyFreezeFreezes ==
  ASSUME SnapshotInv, [Next]_vars, NEW s \in db'.frozen \ db.frozen
  PROVE  Freeze /\ s = call.scen
<1>t. TypeOK /\ FrozenInv
  BY DEF SnapshotInv
<1>s. call.scen \in Scenario /\ db \in Database
  BY <1>t, CallTypes
<1>1. CASE Freeze
  BY <1>1, <1>t, FreezeEffect
<1>2. CASE ClearRows \/ StoreRows \/ Explain \/ Forget
  BY <1>2, <1>t, RowStatementEffect
<1>3. CASE Archive \/ InsertScenario \/ CopyFacts
  BY <1>3, <1>t, ArchiveEffect, InsertEffect, CopyEffect
<1>4. CASE Begin
  <2>1. CASE \E x \in Scenario, g \in Rate : SetGrowth(x, g)
    BY <1>s, <2>1 DEF SetGrowth, Database
  <2>2. CASE \E x \in Scenario : RefusedOverride(x)
    BY <1>t, <2>2 DEF RefusedOverride, FrozenInv
  <2>3. CASE db' = db
    BY <2>3
  <2> QED
    BY <1>4, <2>1, <2>2, <2>3 DEF Begin, WriteFacts, SetOverride, ClearOverride,
                                  CopyScenario, CommitScenario, Enter
<1>5. CASE Fail \/ Crash
  BY <1>5, <1>t DEF Fail, Crash, FrozenInv
<1>6. CASE CommitBlock \/ CallerCommit \/ UNCHANGED vars
  BY <1>6 DEF CommitBlock, CallerCommit, vars
<1> QED
  BY <1>1, <1>2, <1>3, <1>4, <1>5, <1>6 DEF Next, Statement

\* What commit_scenario freezes is what its source holds at that moment, facts and
\* growth rates: nothing is written between the copy and the freeze.
THEOREM SnapshotsAreTheirSource == Spec => FreezesTheSource
<1>1. SnapshotInv /\ SourceInv /\ [Next]_vars
        => [\A s \in db'.frozen \ db.frozen :
              /\ db.fact[s] = db.fact[call.src]
              /\ db.growth[s] = db.growth[call.src]]_vars
  BY OnlyFreezeFreezes DEF SourceInv, Freeze, Step
<1> QED
  BY <1>1, InitSnapshot, NextSnapshot, InitSource, NextSource, PTL DEF Spec, FreezesTheSource

------------------------------------------------------------------------------
(***************************************************************************)
(* The firm quantities and their people, row by row.                       *)
(***************************************************************************)
\* The firm row at (s, a) is the same in e as in d.
SameFirmRow(d, e, s, a) ==
    /\ e.fact[s][Firm][a] = d.fact[s][Firm][a]
    /\ e.author[s][a] = d.author[s][a]
    /\ e.fixedBy[s][a] = d.fixedBy[s][a]

\* The address the operation in progress writes.
Target(s, a) == s = call.scen /\ call.meas = Firm /\ a \in DOMAIN call.vals

LEMMA SameRowsFirm ==
  ASSUME NEW d, NEW e, NEW s, SameRows(d, e, s), NEW a
  PROVE  SameFirmRow(d, e, s, a)
BY DEF SameRows, SameFirmRow

\* The DELETE zeroes the target's zero quantities and nothing else.
LEMMA ClearRowsFirm ==
  ASSUME TypeOK, ClearRows, NEW s \in Scenario, NEW a \in Addr
  PROVE  /\ ~Target(s, a) => SameFirmRow(db, db', s, a)
         /\ Target(s, a) /\ call.vals[a] = 0 => db'.fact[s][Firm][a] = 0
         /\ db'.author = db.author /\ db'.fixedBy = db.fixedBy
<1> DEFINE rows == Zeroed(db.fact[call.scen][call.meas], call.vals)
<1>1. /\ db \in Database /\ call.scen \in Scenario /\ call.meas \in Measure
      /\ db.fact \in [Scenario -> [Measure -> [Addr -> Qty]]]
  BY CallTypes, TableTypes
<1>2. db' = [db EXCEPT !.fact[call.scen][call.meas] = rows]
  BY DEF ClearRows
<1>3. \A x \in Addr : rows[x] = IF x \in DOMAIN call.vals /\ call.vals[x] = 0 THEN 0
                                ELSE db.fact[call.scen][call.meas][x]
  BY DEF Zeroed
<1> HIDE DEF rows
<1>4. db'.author = db.author /\ db'.fixedBy = db.fixedBy
  BY <1>1, <1>2 DEF Database
<1>5. db'.fact[s][Firm] = IF s = call.scen /\ call.meas = Firm THEN rows
                          ELSE db.fact[s][Firm]
  BY <1>1, <1>2 DEF Database
<1> QED
  BY <1>3, <1>4, <1>5 DEF Target, SameFirmRow

\* The upsert stores the target's other quantities, and the person with them.
LEMMA StoreRowsFirm ==
  ASSUME TypeOK, StoreRows, NEW s \in Scenario, NEW a \in Addr
  PROVE  /\ ~Target(s, a) => SameFirmRow(db, db', s, a)
         /\ Target(s, a) =>
              /\ call.vals[a] # 0 => /\ db'.fact[s][Firm][a] = call.vals[a]
                                     /\ db'.fixedBy[s][a] = call.who
              /\ call.vals[a] = 0 => db'.fact[s][Firm][a] = db.fact[s][Firm][a]
         /\ db'.author = db.author
<1> DEFINE rows == Stored(db.fact[call.scen][call.meas], call.vals)
           credit == Credited(db.fixedBy[call.scen], call.vals, call.who)
<1>1. /\ db \in Database /\ call.scen \in Scenario /\ call.meas \in Measure
      /\ db.fact \in [Scenario -> [Measure -> [Addr -> Qty]]]
      /\ db.fixedBy \in [Scenario -> [Addr -> Author \cup {Nobody}]]
  BY CallTypes, TableTypes
<1>2. db' = [db EXCEPT !.fact[call.scen][call.meas] = rows,
                       !.fixedBy[call.scen] = IF call.meas = Firm THEN credit ELSE @]
  BY DEF StoreRows
<1>3. \A x \in Addr : rows[x] = IF x \in DOMAIN call.vals /\ call.vals[x] # 0
                                THEN call.vals[x]
                                ELSE db.fact[call.scen][call.meas][x]
  BY DEF Stored
<1>4. \A x \in Addr : credit[x] = IF x \in DOMAIN call.vals
                                  THEN (IF call.vals[x] = 0 THEN Nobody ELSE call.who)
                                  ELSE db.fixedBy[call.scen][x]
  BY DEF Credited
<1> HIDE DEF rows, credit
<1>5. db'.author = db.author
  BY <1>1, <1>2 DEF Database
<1>6. db'.fact[s][Firm] = IF s = call.scen /\ call.meas = Firm THEN rows
                          ELSE db.fact[s][Firm]
  BY <1>1, <1>2 DEF Database
<1>7. db'.fixedBy[s] = IF s = call.scen /\ call.meas = Firm THEN credit
                       ELSE db.fixedBy[s]
  BY <1>1, <1>2 DEF Database
<1> QED
  BY <1>3, <1>4, <1>5, <1>6, <1>7 DEF Target, SameFirmRow

\* The provenance statements write the person on record at the target only.
LEMMA ProvenanceFirm ==
  ASSUME TypeOK, Explain \/ Forget, call.meas = Firm, NEW s \in Scenario, NEW a \in Addr
  PROVE  /\ ~Target(s, a) => SameFirmRow(db, db', s, a)
         /\ Explain /\ Target(s, a) => db'.author[s][a] = call.who
         /\ db'.fact = db.fact /\ db'.fixedBy = db.fixedBy
<1>1. db \in Database /\ call.scen \in Scenario
  BY CallTypes
<1>2. CASE Explain
  BY <1>1, <1>2 DEF Explain, Step, Database, Target, SameFirmRow
<1>3. CASE Forget
  <2>1. ~Explain
    BY <1>3 DEF Explain, Forget, Step
  <2> QED
    BY <1>1, <1>3, <2>1 DEF Forget, Database, Target, SameFirmRow
<1> QED
  BY <1>2, <1>3

------------------------------------------------------------------------------
(***************************************************************************)
(* An acknowledged override survives.                                      *)
(***************************************************************************)
OverrideInv == SnapshotInv /\ AckInv /\ ProgressInv

LEMMA InitOverride == Init => OverrideInv
<1> SUFFICES ASSUME Init PROVE OverrideInv
  OBVIOUS
<1>1. AckInv /\ ProgressInv
  BY DEF Init, AckInv, ProgressInv, Writing, Overriding
<1> QED
  BY <1>1, InitSnapshot DEF OverrideInv

\* While no override is in progress every acknowledged one is in both views.
LEMMA SettledHolds ==
  ASSUME AckInv, ~Overriding
  PROVE  \A s \in Scenario, a \in Addr : acked[s][a] # NoAck =>
             /\ db.status[s] # "absent" /\ disk.status[s] # "absent"
             /\ Holds(db, s, a) /\ Holds(disk, s, a)
BY DEF AckInv, Rewriting

\* A step between operations that keeps the firm rows, or returns to the file.
LEMMA AckSettled ==
  ASSUME AckInv, ~Overriding, acked' = acked, pc' # "copy",
         disk' = disk \/ disk' = db,
         \/ db' = disk
         \/ \A s \in Scenario, a \in Addr :
              /\ db.status[s] # "absent" => db'.status[s] # "absent"
              /\ acked[s][a] # NoAck => SameFirmRow(db, db', s, a)
  PROVE  AckInv'
<1> SUFFICES ASSUME NEW s \in Scenario, NEW a \in Addr, acked[s][a] # NoAck
             PROVE  /\ disk'.status[s] # "absent" /\ db'.status[s] # "absent"
                    /\ /\ disk'.fact[s][Firm][a] = acked[s][a]
                       /\ acked[s][a] # 0 => disk'.author[s][a] # Nobody
                    /\ /\ db'.fact[s][Firm][a] = acked[s][a]
                       /\ acked[s][a] # 0 => db'.author[s][a] # Nobody
  BY DEF AckInv, Holds
<1>1. /\ db.status[s] # "absent" /\ disk.status[s] # "absent"
      /\ Holds(db, s, a) /\ Holds(disk, s, a)
  BY SettledHolds
<1> QED
  BY <1>1 DEF Holds, SameFirmRow

LEMMA BeginOverride ==
  ASSUME OverrideInv, Begin
  PROVE  AckInv' /\ ProgressInv'
<1>t. TypeOK /\ AckInv /\ ProgressInv
  BY DEF OverrideInv, SnapshotInv
<1>1. CASE \/ \E s \in Scenario, m \in Measure, w \in Write : WriteFacts(s, m, w)
           \/ \E s \in Scenario, a \in Addr, q \in Qty, who \in Author :
                SetOverride(s, a, q, who)
           \/ \E s \in Scenario, a \in Addr : ClearOverride(s, a)
           \/ \E src, s \in Scenario, n \in Name : CopyScenario(src, s, n)
           \/ \E src, s \in Scenario, n \in Name : CommitScenario(src, s, n)
  <2>1. /\ pc = "idle" /\ pc' \in {"clear", "insert", "archive"}
        /\ db' = db /\ disk' = disk /\ acked' = acked
    BY <1>1 DEF WriteFacts, SetOverride, ClearOverride, CopyScenario,
                CommitScenario, Enter
  <2>2. ~Overriding
    BY <2>1 DEF Overriding, Writing
  <2>3. AckInv'
    BY <1>t, <2>1, <2>2, AckSettled DEF SameFirmRow
  <2> QED
    BY <2>1, <2>3 DEF ProgressInv, Overriding, Writing
<1>2. ASSUME NEW s \in Scenario, RefusedOverride(s)
      PROVE  AckInv' /\ ProgressInv'
  <2>1. /\ pc = "idle" /\ pc' = "idle" /\ db' = disk /\ disk' = disk /\ acked' = acked
    BY <1>2 DEF RefusedOverride
  <2>2. ~Overriding
    BY <2>1 DEF Overriding, Writing
  <2>3. AckInv'
    BY <1>t, <2>1, <2>2, AckSettled
  <2> QED
    BY <2>1, <2>3 DEF ProgressInv, Overriding, Writing
<1>3. ASSUME NEW s \in Scenario, NEW g \in Rate, SetGrowth(s, g)
      PROVE  AckInv' /\ ProgressInv'
  <2>1. /\ pc = "idle" /\ pc' = "idle" /\ disk' = disk /\ acked' = acked
    BY <1>3 DEF SetGrowth
  <2>2. /\ db'.status = db.status /\ db'.fact = db.fact
        /\ db'.author = db.author /\ db'.fixedBy = db.fixedBy
    BY <1>3, <1>t DEF SetGrowth, TypeOK, Database
  <2>3. ~Overriding
    BY <2>1 DEF Overriding, Writing
  <2>4. AckInv'
    BY <1>t, <2>1, <2>2, <2>3, AckSettled DEF SameFirmRow
  <2> QED
    BY <2>1, <2>4 DEF ProgressInv, Overriding, Writing
<1> QED
  BY <1>1, <1>2, <1>3 DEF Begin

\* A statement of an override, or of an import beside it: only the target moves.
LEMMA AckWriting ==
  ASSUME OverrideInv, acked' = acked, disk' = disk, db'.status = db.status,
         Writing, pc' # "copy", pc' # "idle" => Writing' /\ call' = call,
         pc' = "idle" => ~InTransactionBlock,
         \A s \in Scenario, a \in Addr : ~Target(s, a) => SameFirmRow(db, db', s, a)
  PROVE  AckInv'
<1> SUFFICES ASSUME NEW s \in Scenario, NEW a \in Addr, acked[s][a] # NoAck,
                    ~Rewriting(s, a)'
             PROVE  Holds(db, s, a) /\ SameFirmRow(db, db', s, a)
  <2>1. AckInv
    BY DEF OverrideInv
  <2> QED
    BY <2>1 DEF AckInv, Holds, SameFirmRow
<1>1. CallInv /\ AckInv
  BY DEF OverrideInv, SnapshotInv
<1>2. ~Target(s, a) /\ ~Rewriting(s, a)
  BY <1>1 DEF CallInv, Target, Rewriting, Overriding, InTransactionBlock
<1> QED
  BY <1>1, <1>2 DEF AckInv

\* The end of the block: the file now holds what the caller is told.
LEMMA AckCommit ==
  ASSUME OverrideInv, CommitBlock
  PROVE  AckInv' /\ ProgressInv'
<1>t. TypeOK /\ CallInv /\ TargetInv /\ AckInv /\ ProgressInv
  BY DEF OverrideInv, SnapshotInv
<1>1. pc = "done" /\ pc' = "idle" /\ db' = db /\ disk' = db
  BY DEF CommitBlock, Goto
<1>2. Overriding /\ Writable(call.scen)
  BY <1>t, <1>1 DEF CallInv, TargetInv, Overriding, Writing
<1>3. ProgressInv'
  BY <1>1 DEF ProgressInv, Overriding, Writing
<1>4. ASSUME NEW s \in Scenario, NEW a \in Addr, acked'[s][a] # NoAck
      PROVE  /\ db.status[s] # "absent"
             /\ db.fact[s][Firm][a] = acked'[s][a]
             /\ acked'[s][a] # 0 => db.author[s][a] # Nobody
  <2>0. /\ call.scen \in Scenario
        /\ acked' = [acked EXCEPT ![call.scen] =
                       [x \in Addr |-> IF x \in DOMAIN call.vals
                                       THEN call.vals[x] ELSE @[x]]]
        /\ acked \in [Scenario -> [Addr -> Qty \cup {NoAck}]]
    BY <1>t, CallTypes DEF CommitBlock, TypeOK
  <2>1. CASE s = call.scen /\ a \in DOMAIN call.vals
    <3>1. acked'[s][a] = call.vals[a]
      BY <2>0, <2>1
    <3>2. /\ db.fact[s][Firm][a] = call.vals[a]
          /\ call.vals[a] # 0 => db.author[s][a] # Nobody
      BY <1>t, <1>1, <1>2, <2>1 DEF ProgressInv
    <3> QED
      BY <1>2, <2>1, <3>1, <3>2 DEF Writable, Exists
  <2>2. CASE ~(s = call.scen /\ a \in DOMAIN call.vals)
    <3>1. acked'[s][a] = acked[s][a]
      BY <2>0, <2>2
    <3>2. ~Rewriting(s, a)
      BY <2>2 DEF Rewriting
    <3> QED
      BY <1>t, <1>4, <3>1, <3>2 DEF AckInv, Holds
  <2> QED
    BY <2>1, <2>2
<1>5. AckInv'
  BY <1>1, <1>4 DEF AckInv, Holds
<1> QED
  BY <1>3, <1>5

LEMMA ClearRowsOverride ==
  ASSUME OverrideInv, ClearRows
  PROVE  AckInv' /\ ProgressInv'
<1>t. TypeOK /\ CallInv /\ AckInv
  BY DEF OverrideInv, SnapshotInv
<1>1. /\ pc = "clear" /\ pc' = "set" /\ call' = call /\ acked' = acked
      /\ disk' = disk
  BY DEF ClearRows, Step, Goto
<1>2. db'.status = db.status
  BY <1>t, RowStatementEffect
<1>3. AckInv'
  BY <1>t, <1>1, <1>2, ClearRowsFirm, AckWriting DEF Writing
<1>4. ASSUME Overriding, NEW a \in DOMAIN call.vals, call.vals[a] = 0
      PROVE  db'.fact[call.scen][Firm][a] = call.vals[a]
  <2>1. call.scen \in Scenario /\ a \in Addr
    BY <1>t, CallTypes
  <2>2. Target(call.scen, a)
    BY <1>t, <1>4 DEF Target, CallInv, Overriding
  <2> QED
    BY <1>t, <1>4, <2>1, <2>2, ClearRowsFirm
<1>5. ProgressInv'
  BY <1>1, <1>4 DEF ProgressInv, Overriding, Writing, InTransactionBlock
<1> QED
  BY <1>3, <1>5

LEMMA StoreRowsOverride ==
  ASSUME OverrideInv, StoreRows
  PROVE  AckInv' /\ ProgressInv'
<1>t. TypeOK /\ CallInv /\ AckInv /\ ProgressInv
  BY DEF OverrideInv, SnapshotInv
<1>1. /\ pc = "set" /\ acked' = acked /\ disk' = disk
      /\ \/ pc' \in {"explain", "forget"} /\ call' = call /\ InTransactionBlock
         \/ pc' = "idle" /\ ~InTransactionBlock
  BY DEF StoreRows, Step, Goto, InTransactionBlock
<1>2. db'.status = db.status
  BY <1>t, RowStatementEffect
<1>3. AckInv'
  BY <1>t, <1>1, <1>2, StoreRowsFirm, AckWriting DEF Writing
<1>4. ASSUME Overriding, NEW a \in DOMAIN call.vals
      PROVE  /\ db'.fact[call.scen][Firm][a] = call.vals[a]
             /\ call.vals[a] # 0 => db'.fixedBy[call.scen][a] = call.who
  <2>1. call.scen \in Scenario /\ a \in Addr
    BY <1>t, CallTypes
  <2>2. Target(call.scen, a)
    BY <1>t, <1>4 DEF Target, CallInv, Overriding
  <2>3. call.vals[a] = 0 => db.fact[call.scen][Firm][a] = call.vals[a]
    BY <1>t, <1>1, <1>4 DEF ProgressInv
  <2> QED
    BY <1>t, <2>1, <2>2, <2>3, StoreRowsFirm
<1>5. ProgressInv'
  BY <1>1, <1>4 DEF ProgressInv, Overriding, Writing
<1> QED
  BY <1>3, <1>5

LEMMA ProvenanceOverride ==
  ASSUME OverrideInv, Explain \/ Forget
  PROVE  AckInv' /\ ProgressInv'
<1>t. TypeOK /\ CallInv /\ AckInv /\ ProgressInv
  BY DEF OverrideInv, SnapshotInv
<1>1. /\ pc \in {"explain", "forget"} /\ pc' = "done" /\ call' = call
      /\ acked' = acked /\ disk' = disk
  BY DEF Explain, Forget, Step, Goto
<1>2. /\ db'.status = db.status
      /\ call.meas = Firm /\ Overriding
  BY <1>t, <1>1, RowStatementEffect DEF CallInv, Overriding, Writing
<1>3. AckInv'
  BY <1>t, <1>1, <1>2, ProvenanceFirm, AckWriting DEF Writing
<1>4. ASSUME NEW a \in DOMAIN call.vals
      PROVE  /\ db'.fact[call.scen][Firm][a] = call.vals[a]
             /\ call.vals[a] # 0 => /\ db'.fixedBy[call.scen][a] = call.who
                                    /\ db'.author[call.scen][a] = call.who
                                    /\ call.who # Nobody
  <2>1. call.scen \in Scenario /\ a \in Addr /\ Target(call.scen, a)
    BY <1>t, <1>2, CallTypes DEF Target
  <2>2. /\ db'.fact = db.fact /\ db'.fixedBy = db.fixedBy
        /\ Explain => db'.author[call.scen][a] = call.who
    BY <1>t, <1>2, <2>1, ProvenanceFirm
  <2>3. db.fact[call.scen][Firm][a] = call.vals[a]
    BY <1>t, <1>1, <1>2 DEF ProgressInv
  <2>4. CASE Explain
    <3>1. pc = "explain" /\ call.who \in Author
      BY <1>t, <1>2, <2>4 DEF Explain, Step, CallInv, Overriding
    <3> QED
      BY <1>t, <2>2, <2>3, <2>4, <3>1, PeopleAssumption DEF ProgressInv
  <2>5. CASE Forget
    <3>1. call.vals[a] = 0
      BY <1>t, <1>2, <2>5 DEF Forget, Step, CallInv, Overriding
    <3> QED
      BY <2>2, <2>3, <3>1
  <2> QED
    BY <2>4, <2>5
<1>5. ProgressInv'
  BY <1>1, <1>4 DEF ProgressInv
<1> QED
  BY <1>3, <1>5

\* Copying and committing write a scenario nobody has overridden anything in.
LEMMA ScenarioOverride ==
  ASSUME OverrideInv, Archive \/ InsertScenario \/ CopyFacts \/ Freeze
  PROVE  AckInv' /\ ProgressInv'
<1>t. TypeOK /\ CallInv /\ TargetInv /\ AckInv /\ ProgressInv
  BY DEF OverrideInv, SnapshotInv
<1>1. /\ pc \in {"archive", "insert", "copy", "freeze"}
      /\ pc' \in {"insert", "copy", "freeze", "idle"}
      /\ acked' = acked /\ disk' = disk
  BY DEF Archive, InsertScenario, CopyFacts, Freeze, Step, Goto
<1>2. ~Overriding /\ ~Overriding'
  BY <1>1 DEF Overriding, Writing
<1>3. ProgressInv'
  BY <1>1, <1>2 DEF ProgressInv
<1>4. CASE Archive
  <2>1. pc' # "copy"
    BY <1>4 DEF Archive, Step, Goto
  <2>2. \A s \in Scenario, a \in Addr :
          /\ db.status[s] # "absent" => db'.status[s] # "absent"
          /\ acked[s][a] # NoAck => SameFirmRow(db, db', s, a)
    BY <1>4, <1>t, ArchiveEffect, SameRowsFirm
  <2> QED
    BY <1>t, <1>1, <1>2, <1>3, <2>1, <2>2, AckSettled
<1>5. CASE InsertScenario
  <2>1. pc = "insert" /\ call' = call
    BY <1>5 DEF InsertScenario, Step, Goto
  <2>2. \A a \in Addr : acked[call.scen][a] = NoAck
    <3>1. db.status[call.scen] = "absent" /\ call.scen \in Scenario
      BY <1>t, <2>1, CallTypes DEF TargetInv, Exists
    <3> QED
      BY <1>t, <3>1 DEF AckInv
  <2>3. \A s \in Scenario :
          /\ db.status[s] # "absent" => db'.status[s] # "absent"
          /\ db'.fact = db.fact /\ db'.author = db.author
    BY <1>5, <1>t, InsertEffect
  <2>4. \A s \in Scenario, a \in Addr : acked[s][a] # NoAck =>
          /\ disk.status[s] # "absent" /\ db.status[s] # "absent"
          /\ Holds(disk, s, a) /\ Holds(db, s, a)
    BY <1>t, <1>2, SettledHolds
  <2>5. AckInv'
    BY <1>1, <2>1, <2>2, <2>3, <2>4 DEF AckInv, Holds
  <2> QED
    BY <1>3, <2>5
<1>6. CASE CopyFacts
  <2>1. pc = "copy" /\ pc' # "copy"
    BY <1>6 DEF CopyFacts, Step, Goto
  <2>2. \A a \in Addr : acked[call.scen][a] = NoAck
    BY <1>t, <2>1 DEF AckInv
  <2>3. \A s \in Scenario, a \in Addr :
          /\ db.status[s] # "absent" => db'.status[s] # "absent"
          /\ acked[s][a] # NoAck => SameFirmRow(db, db', s, a)
    BY <1>6, <1>t, <2>2, CopyEffect, SameRowsFirm
  <2> QED
    BY <1>t, <1>1, <1>2, <1>3, <2>1, <2>3, AckSettled
<1>7. CASE Freeze
  <2>1. pc' # "copy"
    BY <1>7 DEF Freeze, Step, Goto
  <2>2. \A s \in Scenario, a \in Addr :
          /\ db.status[s] # "absent" => db'.status[s] # "absent"
          /\ acked[s][a] # NoAck => SameFirmRow(db, db', s, a)
    BY <1>7, <1>t, FreezeEffect, SameRowsFirm
  <2> QED
    BY <1>t, <1>1, <1>2, <1>3, <2>1, <2>2, AckSettled
<1> QED
  BY <1>4, <1>5, <1>6, <1>7

LEMMA NextOverride == OverrideInv /\ [Next]_vars => OverrideInv'
<1> SUFFICES ASSUME OverrideInv, [Next]_vars PROVE OverrideInv'
  OBVIOUS
<1>t. SnapshotInv' /\ AckInv /\ ProgressInv
  BY NextSnapshot DEF OverrideInv
<1>1. CASE Begin
  BY <1>1, <1>t, BeginOverride DEF OverrideInv
<1>2. CASE Statement
  BY <1>2, <1>t, ClearRowsOverride, StoreRowsOverride, ProvenanceOverride, AckCommit,
     ScenarioOverride DEF Statement, OverrideInv
<1>3. CASE Fail \/ Crash
  <2>1. /\ pc' = "idle" /\ disk' = disk /\ acked' = acked
        /\ db' = disk \/ (db' = db /\ ~Overriding)
    BY <1>3 DEF Fail, Crash, Goto, Overriding
  <2>2. ProgressInv'
    BY <2>1 DEF ProgressInv, Overriding, Writing
  <2>3. ~Overriding'
    BY <2>1 DEF Overriding, Writing
  <2>4. AckInv'
    <3>1. \A s \in Scenario, a \in Addr : acked[s][a] # NoAck =>
            /\ disk.status[s] # "absent" /\ Holds(disk, s, a)
            /\ ~Overriding => db.status[s] # "absent" /\ Holds(db, s, a)
      BY <1>t DEF AckInv, Rewriting
    <3>2. ASSUME NEW s \in Scenario, NEW a \in Addr, acked'[s][a] # NoAck
          PROVE  /\ disk'.status[s] # "absent" /\ Holds(disk, s, a)'
                 /\ ~Overriding' => db'.status[s] # "absent" /\ Holds(db, s, a)'
      <4>1. /\ disk.status[s] # "absent" /\ Holds(disk, s, a)
            /\ ~Overriding => db.status[s] # "absent" /\ Holds(db, s, a)
        BY <2>1, <3>1, <3>2
      <4>2. /\ disk'.status[s] # "absent" /\ Holds(disk, s, a)'
        BY <2>1, <4>1 DEF Holds
      <4>3. db'.status[s] # "absent" /\ Holds(db, s, a)'
        BY <2>1, <4>1 DEF Holds
      <4> QED
        BY <4>2, <4>3
    <3> QED
      BY <2>1, <2>3, <3>2 DEF AckInv, Rewriting
  <2> QED
    BY <1>t, <2>2, <2>4 DEF OverrideInv
<1>4. CASE CallerCommit
  <2>1. /\ pc = "idle" /\ pc' = "idle" /\ disk' = db /\ db' = db /\ acked' = acked
    BY <1>4 DEF CallerCommit
  <2>2. ProgressInv' /\ ~Overriding
    BY <2>1 DEF ProgressInv, Overriding, Writing
  <2>3. AckInv'
    BY <1>t, <2>1, <2>2, AckSettled DEF SameFirmRow
  <2> QED
    BY <1>t, <2>2, <2>3 DEF OverrideInv
<1>5. CASE UNCHANGED vars
  BY <1>5, <1>t DEF vars, OverrideInv, AckInv, ProgressInv, Holds, Rewriting,
                    Overriding, Writing, InTransactionBlock
<1> QED
  BY <1>1, <1>2, <1>3, <1>4, <1>5 DEF Next

\* An override the caller was told about is in the file, with a person behind
\* it, whatever fails, rolls back or crashes afterwards.
THEOREM AckedOverridesSurvive == Spec => []AckedOverridesKept
<1>1. OverrideInv => AckedOverridesKept
  BY DEF OverrideInv, AckInv, AckedOverridesKept
<1> QED
  BY <1>1, InitOverride, NextOverride, PTL DEF Spec

------------------------------------------------------------------------------
(***************************************************************************)
(* The author on record is the author of the quantity.                     *)
(***************************************************************************)
AttributedInv == OverrideInv /\ AttributionInv

LEMMA InitAttributed == Init => AttributedInv
<1> SUFFICES ASSUME Init PROVE AttributedInv
  OBVIOUS
<1>1. AttributionInv
  BY ScenarioAssumption, MeasureAssumption
     DEF Init, AttributionInv, Attributed, Seeded, NoFacts, NoWhy
<1> QED
  BY <1>1, InitOverride DEF AttributedInv

\* A step of no override that keeps scenario 0's firm rows, or returns to the
\* file, or writes this connection's view to it.
LEMMA AttributionSettled ==
  ASSUME AttributionInv, ~Overriding, pc' # "copy",
         disk' = disk \/ disk' = db,
         \/ db' = disk
         \/ /\ db'.status[0] # "absent"
            /\ \A a \in Addr : SameFirmRow(db, db', 0, a)
  PROVE  AttributionInv'
<1>1. Attributed(db, 0) /\ Attributed(disk, 0)
  BY DEF AttributionInv, Attributed, Rewriting
<1>2. disk'.status[0] # "absent" /\ db'.status[0] # "absent"
  BY DEF AttributionInv
<1>3. Attributed(disk', 0) /\ Attributed(db', 0)
  BY <1>1, SMTT(20) DEF Attributed, SameFirmRow
<1> QED
  BY <1>2, <1>3 DEF AttributionInv, Attributed

LEMMA BeginAttributed ==
  ASSUME AttributedInv, Begin
  PROVE  AttributionInv'
<1>t. TypeOK /\ AttributionInv
  BY DEF AttributedInv, OverrideInv, SnapshotInv
<1>1. /\ pc = "idle" /\ pc' # "copy" /\ disk' = disk
      /\ \/ db' = disk
         \/ db' = db
         \/ \E s \in Scenario, g \in Rate : db' = [db EXCEPT !.growth[s] = g]
  BY DEF Begin, WriteFacts, SetOverride, ClearOverride, RefusedOverride, SetGrowth,
         CopyScenario, CommitScenario, Enter
<1>2. ~Overriding
  BY <1>1 DEF Overriding, Writing
<1>3. ASSUME NEW s \in Scenario, NEW g \in Rate, db' = [db EXCEPT !.growth[s] = g]
      PROVE  /\ db'.status = db.status /\ db'.fact = db.fact
             /\ db'.author = db.author /\ db'.fixedBy = db.fixedBy
  BY <1>t, <1>3 DEF TypeOK, Database
<1>4. \/ db' = disk
      \/ /\ db'.status[0] # "absent"
         /\ \A a \in Addr : SameFirmRow(db, db', 0, a)
  BY <1>t, <1>1, <1>3 DEF AttributionInv, SameFirmRow
<1> QED
  BY <1>t, <1>1, <1>2, <1>4, AttributionSettled

\* A statement of an override moves only the target, and an import none.
LEMMA AttributionWriting ==
  ASSUME AttributedInv, disk' = disk, db'.status = db.status, Writing, pc' # "copy",
         pc' # "idle" => Writing' /\ call' = call,
         pc' = "idle" => ~InTransactionBlock,
         \A a \in Addr : ~Target(0, a) => SameFirmRow(db, db', 0, a)
  PROVE  AttributionInv'
<1>1. CallInv /\ AttributionInv
  BY DEF AttributedInv, OverrideInv, SnapshotInv
<1>2. ASSUME NEW a \in Addr, ~Rewriting(0, a)'
      PROVE  ~Rewriting(0, a) /\ SameFirmRow(db, db', 0, a)
  BY <1>1, <1>2 DEF CallInv, Target, Rewriting, Overriding, InTransactionBlock
<1>3. Attributed(disk', 0)
  BY <1>1 DEF AttributionInv
<1> QED
  BY <1>1, <1>2, <1>3 DEF AttributionInv, SameFirmRow

LEMMA StatementAttributed ==
  ASSUME AttributedInv, Statement
  PROVE  AttributionInv'
<1>t. TypeOK /\ CallInv /\ TargetInv /\ ProgressInv /\ AttributionInv
  BY DEF AttributedInv, OverrideInv, SnapshotInv
<1>z. 0 \in Scenario /\ call.scen \in Scenario
  BY <1>t, CallTypes, ScenarioAssumption
<1>1. CASE ClearRows
  <2>1. /\ pc = "clear" /\ pc' = "set" /\ call' = call /\ disk' = disk
        /\ db'.status = db.status
    BY <1>1, <1>t, RowStatementEffect DEF ClearRows, Step, Goto
  <2> QED
    BY <1>1, <1>t, <1>z, <2>1, ClearRowsFirm, AttributionWriting DEF Writing
<1>2. CASE StoreRows
  <2>1. /\ pc = "set" /\ disk' = disk /\ db'.status = db.status
        /\ \/ pc' \in {"explain", "forget"} /\ call' = call
           \/ pc' = "idle" /\ ~InTransactionBlock
    BY <1>2, <1>t, RowStatementEffect DEF StoreRows, Step, Goto, InTransactionBlock
  <2> QED
    BY <1>2, <1>t, <1>z, <2>1, StoreRowsFirm, AttributionWriting DEF Writing
<1>3. CASE Explain \/ Forget
  <2>1. /\ pc \in {"explain", "forget"} /\ pc' = "done" /\ call' = call
        /\ disk' = disk /\ db'.status = db.status
    BY <1>3, <1>t, RowStatementEffect DEF Explain, Forget, Step, Goto
  <2>2. call.meas = Firm
    BY <1>t, <2>1 DEF CallInv, Writing
  <2> QED
    BY <1>3, <1>t, <1>z, <2>1, <2>2, ProvenanceFirm, AttributionWriting DEF Writing
<1>4. CASE CommitBlock
  <2>1. pc = "done" /\ pc' = "idle" /\ db' = db /\ disk' = db
    BY <1>4 DEF CommitBlock, Goto
  <2>2. Overriding
    BY <1>t, <2>1 DEF CallInv, Overriding, Writing
  <2>3. \A a \in Addr : Rewriting(0, a) =>
          /\ db.fact[0][Firm][a] = call.vals[a]
          /\ call.vals[a] # 0 => db.author[0][a] = db.fixedBy[0][a]
    BY <1>t, <2>1, <2>2 DEF ProgressInv, Rewriting
  <2>4. Attributed(db, 0)
    BY <1>t, <2>3 DEF AttributionInv, Attributed
  <2> QED
    BY <1>t, <2>1, <2>4 DEF AttributionInv, Attributed
<1>5. CASE Archive
  <2>1. pc = "archive" /\ pc' = "insert" /\ disk' = disk
    BY <1>5 DEF Archive, Step, Goto
  <2>2. ~Overriding
    BY <2>1 DEF Overriding, Writing
  <2>3. /\ db'.status[0] # "absent"
        /\ \A a \in Addr : SameFirmRow(db, db', 0, a)
    BY <1>5, <1>t, <1>z, ArchiveEffect, SameRowsFirm DEF AttributionInv
  <2> QED
    BY <1>t, <2>1, <2>2, <2>3, AttributionSettled
<1>6. CASE InsertScenario
  <2>1. pc = "insert" /\ pc' = "copy" /\ call' = call /\ disk' = disk
    BY <1>6 DEF InsertScenario, Step, Goto
  <2>2. call.scen # 0
    BY <1>t, <2>1 DEF TargetInv, Exists, AttributionInv
  <2>3. /\ db'.status[0] = db.status[0]
        /\ db'.fact = db.fact /\ db'.author = db.author /\ db'.fixedBy = db.fixedBy
    BY <1>6, <1>t, <1>z, <2>2, InsertEffect
  <2>4. Attributed(db, 0) /\ Attributed(disk, 0)
    BY <1>t, <2>1 DEF AttributionInv, Attributed, Rewriting, Overriding, Writing
  <2> QED
    BY <1>t, <2>1, <2>2, <2>3, <2>4 DEF AttributionInv, Attributed
<1>7. CASE CopyFacts
  <2>1. pc = "copy" /\ pc' # "copy" /\ disk' = disk
    BY <1>7 DEF CopyFacts, Step, Goto
  <2>2. ~Overriding /\ call.scen # 0
    BY <1>t, <2>1 DEF Overriding, Writing, AttributionInv
  <2>3. /\ db'.status[0] # "absent"
        /\ \A a \in Addr : SameFirmRow(db, db', 0, a)
    BY <1>7, <1>t, <1>z, <2>2, CopyEffect, SameRowsFirm DEF AttributionInv
  <2> QED
    BY <1>t, <2>1, <2>2, <2>3, AttributionSettled
<1>8. CASE Freeze
  <2>1. pc = "freeze" /\ pc' # "copy" /\ disk' = disk
    BY <1>8 DEF Freeze, Step, Goto
  <2>2. ~Overriding
    BY <2>1 DEF Overriding, Writing
  <2>3. /\ db'.status[0] # "absent"
        /\ \A a \in Addr : SameFirmRow(db, db', 0, a)
    BY <1>8, <1>t, <1>z, FreezeEffect, SameRowsFirm DEF AttributionInv
  <2> QED
    BY <1>t, <2>1, <2>2, <2>3, AttributionSettled
<1> QED
  BY <1>1, <1>2, <1>3, <1>4, <1>5, <1>6, <1>7, <1>8 DEF Statement

LEMMA NextAttributed == AttributedInv /\ [Next]_vars => AttributedInv'
<1> SUFFICES ASSUME AttributedInv, [Next]_vars PROVE AttributedInv'
  OBVIOUS
<1>t. OverrideInv' /\ AttributionInv
  BY NextOverride DEF AttributedInv
<1>1. CASE Begin
  BY <1>1, <1>t, BeginAttributed DEF AttributedInv
<1>2. CASE Statement
  BY <1>2, <1>t, StatementAttributed DEF AttributedInv
<1>3. CASE Fail \/ Crash
  <2>1. /\ pc' = "idle" /\ disk' = disk
        /\ db' = disk \/ (db' = db /\ ~Overriding)
    BY <1>3 DEF Fail, Crash, Goto, Overriding
  <2>2. ~Overriding => Attributed(db, 0)
    BY <1>t DEF AttributionInv, Attributed, Rewriting
  <2>3. AttributionInv'
    BY <1>t, <2>1, <2>2 DEF AttributionInv, Attributed
  <2> QED
    BY <1>t, <2>3 DEF AttributedInv
<1>4. CASE CallerCommit
  <2>1. pc = "idle" /\ pc' = "idle" /\ disk' = db /\ db' = db
    BY <1>4 DEF CallerCommit
  <2>2. ~Overriding
    BY <2>1 DEF Overriding, Writing
  <2>3. AttributionInv'
    BY <1>t, <2>1, <2>2, AttributionSettled DEF SameFirmRow, AttributionInv
  <2> QED
    BY <1>t, <2>3 DEF AttributedInv
<1>5. CASE UNCHANGED vars
  BY <1>5, <1>t DEF vars, AttributedInv, AttributionInv, Attributed, Rewriting,
                    Overriding, Writing, InTransactionBlock
<1> QED
  BY <1>1, <1>2, <1>3, <1>4, <1>5 DEF Next

\* Neither the screen nor the file ever shows a working quantity under the name
\* of somebody who did not fix it.
THEOREM QuantitiesAreAttributed == Spec => []WorkingAttributed
<1>1. AttributedInv => WorkingAttributed
  BY DEF AttributedInv, AttributionInv, WorkingAttributed, Attributed, Rewriting,
         Overriding, Writing
<1> QED
  BY <1>1, InitAttributed, NextAttributed, PTL DEF Spec
=============================================================================
