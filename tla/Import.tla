-------------------------------- MODULE Import --------------------------------
(***************************************************************************)
(* Spreadsheets on their way into the fact table: a directory of them,     *)
(* checked table by table and against each other (planbrain/importer,      *)
(* import_check and tools/import_data), or one of them through a column    *)
(* mapping (planbrain/mapping/apply.py, mapping_preview, mapping_commit).  *)
(*                                                                         *)
(* A row is its key and the number of its cells no parser accepts; what a  *)
(* cell holds is left out.                                                 *)
(***************************************************************************)
EXTENDS Integers, Sequences, FiniteSets, Functions, FiniteSetsExt

CONSTANTS
    Files,     \* the sheets a directory may hold, by table
    Grids,     \* the mapped sheets
    Limit,     \* problems an error log lists; 200 in the code
    MaxRows    \* rows read_grid reads of a sheet; 200 in the code

Order == <<"parts", "bom", "routings", "fleet", "history">>
Table == Range(Order)

\* An empty row has no key.
Row == [key : Seq(Nat), bad : Nat]
Blank(row) == row.key = <<>>

\* "unreadable": empty, or columns asked for are not in the header, which is a problem
\* for each of them if the sheet is mapped, and one if it is not; "unmapped": a required
\* field is mapped to no column.
Sheet == [head : {"absent", "unreadable", "unmapped", "fine"}, lacks : Nat \ {0},
          format : {"csv", "xlsx", "grid"}, rows : Seq(Row)]

NoFile == [head |-> "absent", lacks |-> 1, format |-> "csv", rows |-> <<>>]

\* Rows a header is looked for in; a bound of the model.
HeaderRow == 1..2

ASSUME FileAssumption ==
    /\ Files \in [Table -> SUBSET {sheet \in Sheet :
                       sheet.format # "grid" /\ sheet.head # "unmapped" /\ sheet.lacks = 1}]
    /\ Grids \subseteq {sheet \in Sheet : sheet.format = "grid" /\ sheet.head # "absent"}
ASSUME SizeAssumption == Limit \in Nat \ {0} /\ MaxRows \in Nat

VARIABLES
    job,         \* what to do (a directory is checked or imported, a mapped file previewed
                 \* or committed), its sheets by table, and the row of the header
    pc,
    at,          \* the table of the directory under way
    line,        \* the row of its sheet the reader is at
    seen,        \* the row number of each key of the table so far
    parsed,      \* keys of the rows accepted, by table
    log,         \* problems listed
    suppressed,  \* problems counted only
    before,      \* length of the log as the table was opened
    clean,       \* tables that added nothing to it
    written      \* keys of the rows written as facts

vars == <<job, pc, at, line, seen, parsed, log, suppressed, before, clean, written>>

------------------------------------------------------------------------------
Directory == job.kind \in {"check", "import"}
Now == IF Directory THEN Order[at] ELSE job.table
File == job.sheets[Now]

\* The last row a reader gets to: read_grid stops after MaxRows, header included.
LastRow(sheet) ==
    IF sheet.format = "grid" THEN Min({Len(sheet.rows), MaxRows - job.header}) ELSE Len(sheet.rows)

\* Row i, when blank rows do not count.  (As a mutant of RowNumber: of any format.)
Counted(sheet, i) == job.header + Cardinality({j \in 1..i : ~Blank(sheet.rows[j])})

\* What a reader calls row i: its number in the spreadsheet, except that the reader
\* of CSV files drops empty lines before it counts.
RowNumber(sheet, i) == IF sheet.format = "csv" THEN Counted(sheet, i) ELSE job.header + i

Entry(table, row, why, value) ==
    [table |-> table, row |-> row, why |-> why, value |-> value]

\* ErrorLog.add for each: beyond the limit they are only counted.
Add(problems) ==
    LET all == log \o problems
    IN /\ log' = SubSeq(all, 1, Min({Limit, Len(all)}))
       /\ suppressed' = suppressed + Max({0, Len(all) - Limit})

------------------------------------------------------------------------------
Init ==
    /\ \/ \E kind \in {"check", "import"}, parts \in Files["parts"], bom \in Files["bom"],
            routings \in Files["routings"], fleet \in Files["fleet"],
            history \in Files["history"] :
            job = [kind |-> kind, table |-> "parts", header |-> 1, sheets |->
                     [parts |-> parts, bom |-> bom, routings |-> routings,
                      fleet |-> fleet, history |-> history]]
       \/ \E kind \in {"preview", "commit"}, table \in Table, header \in HeaderRow, grid \in Grids :
            job = [kind |-> kind, table |-> table, header |-> header,
                   sheets |-> [t \in Table |-> IF t = table THEN grid ELSE NoFile]]
    /\ pc = "open"
    /\ at = 1
    /\ line = 1
    /\ seen = <<>>
    /\ parsed = [table \in Table |-> <<>>]
    /\ log = <<>>
    /\ suppressed = 0
    /\ before = 0
    /\ clean = {}
    /\ written = {}

NextTable ==
    IF Directory /\ at < Len(Order)
    THEN pc' = "open" /\ at' = at + 1
    ELSE pc' = (IF Directory THEN "compare" ELSE "decide") /\ UNCHANGED at

SkipTable ==
    /\ pc = "open"
    /\ File.head = "absent"
    /\ NextTable
    /\ UNCHANGED <<job, line, seen, parsed, log, suppressed, before, clean, written>>

\* Problems against the header row, instead of one for each row.
RejectHeader ==
    /\ pc = "open"
    /\ File.head = "unreadable"
    /\ Add([c \in 1..File.lacks |-> Entry(Now, 1, "header", c)])
    /\ NextTable
    /\ clean' = IF Len(log') = Len(log) THEN clean \cup {Now} ELSE clean
    /\ UNCHANGED <<job, line, seen, parsed, before, written>>

\* A required field without a column: nothing is parsed and nothing logged.
LeaveUnmapped ==
    /\ pc = "open"
    /\ File.head = "unmapped"
    /\ NextTable
    /\ UNCHANGED <<job, line, seen, parsed, log, suppressed, before, clean, written>>

OpenTable ==
    /\ pc = "open"
    /\ File.head = "fine"
    /\ pc' = "rows"
    /\ line' = 1
    /\ seen' = <<>>
    /\ before' = Len(log)
    /\ UNCHANGED <<job, at, parsed, log, suppressed, clean, written>>

ReadRow ==
    /\ pc = "rows" /\ line <= LastRow(File)
    /\ line' = line + 1
    /\ UNCHANGED <<job, pc, at, before, clean, written>>

\* A blank spacer row.
SkipRow ==
    /\ ReadRow
    /\ Blank(File.rows[line])
    /\ UNCHANGED <<seen, parsed, log, suppressed>>

\* Every bad cell of the row is a problem, and the row is left out.
RejectRow ==
    /\ ReadRow
    /\ LET row == File.rows[line]
       IN /\ ~Blank(row) /\ row.bad > 0
          /\ Add([c \in 1..row.bad |-> Entry(Now, RowNumber(File, line), "cell", c)])
    /\ UNCHANGED <<seen, parsed>>

RejectDuplicate ==
    /\ ReadRow
    /\ LET row == File.rows[line]
       IN /\ ~Blank(row) /\ row.bad = 0
          /\ row.key \in DOMAIN seen
          /\ Add(<<Entry(Now, RowNumber(File, line), "duplicate", seen[row.key])>>)
    /\ UNCHANGED <<seen, parsed>>

AcceptRow ==
    /\ ReadRow
    /\ LET row == File.rows[line]
       IN /\ ~Blank(row) /\ row.bad = 0
          /\ row.key \notin DOMAIN seen
          /\ seen' = [k \in DOMAIN seen \cup {row.key} |->
                         IF k = row.key THEN RowNumber(File, line) ELSE seen[k]]
          /\ parsed' = [parsed EXCEPT ![Now] = Append(@, row.key)]
    /\ UNCHANGED <<log, suppressed>>

CloseTable ==
    /\ pc = "rows" /\ line > LastRow(File)
    /\ NextTable
    /\ clean' = IF Len(log) = before THEN clean \cup {Now} ELSE clean
    /\ UNCHANGED <<job, line, seen, parsed, log, suppressed, before, written>>

------------------------------------------------------------------------------
(***************************************************************************)
(* validate_cross_references.                                              *)
(***************************************************************************)
\* Mutant of PartsUsable: whatever the part master holds is all there is.
PartsPresent == TRUE

PartsUsable == "parts" \in clean

KnownSkus == {key[1] : key \in Range(parsed["parts"])}

\* The n-th of a set of numbers.
Nth(S, n) == CHOOSE i \in S : Cardinality({j \in S : j < i}) = n - 1

\* The rows of a table with one of these keys, which break a rule, in order.  They
\* are numbered by their place among the accepted rows.
Breaking(table, why, column, keys) ==
    LET rows == parsed[table]
        broken == {i \in DOMAIN rows : rows[i] \in keys}
    IN [n \in 1..Cardinality(broken) |->
          Entry(table, Nth(broken, n) + 1, why, rows[Nth(broken, n)][column])]

Unknown(table, column) ==
    Breaking(table, "unknown", column,
             {key \in Range(parsed[table]) : key[column] \notin KnownSkus})

Dangling ==
    IF KnownSkus = {} \/ ~PartsUsable THEN <<>>
    ELSE Unknown("bom", 1) \o Unknown("bom", 2) \o Unknown("routings", 1)
             \o Unknown("history", 1)

Skipped ==
    IF PartsUsable THEN <<>> ELSE <<Entry("parts", 0, "skipped", 0)>>

\* The command-line tool finds nothing to import.
Nothing == job.kind = "import" /\ \A table \in Table : job.sheets[table].head = "absent"

NothingFound ==
    /\ pc = "compare"
    /\ Nothing
    /\ pc' = "done"
    /\ UNCHANGED <<job, at, line, seen, parsed, log, suppressed, before, clean, written>>

CrossCheck ==
    /\ pc = "compare"
    /\ ~Nothing
    /\ Add(Skipped \o Dangling
             \o Breaking("bom", "itself", 2, {key \in Range(parsed["bom"]) : key[1] = key[2]}))
    /\ pc' = "decide"
    /\ UNCHANGED <<job, at, line, seen, parsed, before, clean, written>>

\* Mutant of Sound: history is what is written, so history has to be clean.
HistoryIsClean == "history" \in clean

\* No problem in any table, and every required field has its column.
Sound == log = <<>> /\ (Directory \/ File.head # "unmapped")

\* Only history becomes facts; a check and a preview write nothing.
Decide ==
    /\ pc = "decide"
    /\ pc' = "done"
    /\ written' = IF Sound /\ job.kind \in {"import", "commit"}
                  THEN Range(parsed["history"]) ELSE {}
    /\ UNCHANGED <<job, at, line, seen, parsed, log, suppressed, before, clean>>

Next ==
    \/ SkipTable
    \/ RejectHeader
    \/ LeaveUnmapped
    \/ OpenTable
    \/ SkipRow
    \/ RejectRow
    \/ RejectDuplicate
    \/ AcceptRow
    \/ CloseTable
    \/ CrossCheck
    \/ NothingFound
    \/ Decide

Spec == Init /\ [][Next]_vars

------------------------------------------------------------------------------
(***************************************************************************)
(* Properties: what is in the spreadsheets, against what became of them.   *)
(***************************************************************************)
\* The rows of a sheet that are read, and those of them that are accepted: with no
\* bad cell, and the first such row of their key.
Read(table) ==
    LET sheet == job.sheets[table]
    IN {i \in DOMAIN sheet.rows :
          /\ sheet.head = "fine"
          /\ ~Blank(sheet.rows[i])
          /\ sheet.format = "grid" => job.header + i <= MaxRows}
Key(table, i) == job.sheets[table].rows[i].key
Parsing(table) == {i \in Read(table) : job.sheets[table].rows[i].bad = 0}
Repeats(table, i) == {j \in Parsing(table) : j < i /\ Key(table, j) = Key(table, i)}
Accepted(table) == {i \in Parsing(table) : Repeats(table, i) = {}}

Intact(table) == job.sheets[table].head = "fine" /\ Accepted(table) = Read(table)
Skus == {Key("parts", i)[1] : i \in Accepted("parts")}

\* Which columns of a table name a part.
Reference(table) ==
    CASE table = "bom" -> {1, 2} [] table \in {"routings", "history"} -> {1} [] OTHER -> {}

\* What is wrong with a row.  References are compared with an intact part master
\* only, and not at all with an empty one.
FaultsOf(table, i) ==
    {<<"cell", c>> : c \in 1..job.sheets[table].rows[i].bad}
    \cup {<<"duplicate", 0>> : j \in IF i \in Parsing(table) THEN Repeats(table, i) ELSE {}}
    \cup {<<"unknown", c>> : c \in {c \in Reference(table) :
              /\ Directory /\ Intact("parts") /\ Skus # {}
              /\ i \in Accepted(table) /\ Key(table, i)[c] \notin Skus}}
    \cup {<<"itself", 0>> : c \in {c \in Reference(table) :
              /\ Directory /\ table = "bom"
              /\ i \in Accepted(table) /\ Key(table, i)[1] = Key(table, i)[2]}}

Faults == UNION {UNION {{<<table, i, f>> : f \in FaultsOf(table, i)} : i \in Read(table)} :
                     table \in Table}
NoHeader ==
    UNION {{<<table, c>> : c \in 1..job.sheets[table].lacks} :
              table \in {t \in Table : job.sheets[t].head = "unreadable"}}
Unchecked == IF Directory /\ ~Intact("parts") THEN 1 ELSE 0

\* All of the history read or none of it becomes facts, and none exactly if
\* something is wrong in any table, in a reference between two, or in a mapping:
\* "a partial import leaves a database that looks populated".
AllOrNothing ==
    LET flawless == /\ Faults = {} /\ NoHeader = {} /\ Unchecked = 0
                    /\ \A table \in Table : job.sheets[table].head # "unmapped"
    IN pc = "done" =>
           written = IF flawless /\ job.kind \in {"import", "commit"}
                     THEN {Key("history", i) : i \in Read("history")} ELSE {}

\* Every fault is listed or counted, once, and only a full log counts without
\* listing; a fault listed for a row is a fault of the row the spreadsheet shows
\* under that number, unless a CSV reader or a comparison counted for itself.
EveryProblemIsReported ==
    /\ pc = "done" /\ ~Nothing =>
          Len(log) + suppressed = Cardinality(Faults) + Cardinality(NoHeader) + Unchecked
    /\ suppressed > 0 => Len(log) = Limit
    /\ \A e \in Range(log) :
          e.why \in {"cell", "duplicate"} /\ job.sheets[e.table].format # "csv" =>
              LET i == e.row - job.header
              IN /\ i \in Read(e.table)
                 /\ \E f \in FaultsOf(e.table, i) : f[1] = e.why
                 /\ e.why = "duplicate" => e.value - job.header \in Repeats(e.table, i)

\* A part that is anywhere in the part master is never reported missing from it,
\* whatever else is wrong there ("four phantom errors caused by one bad cell").
NoPhantomReferences ==
    \A e \in Range(log) : e.why = "unknown" =>
        \A i \in Read("parts") : Key("parts", i)[1] # e.value

\* A file that is imported is imported whole.
WholeFileIsImported ==
    pc = "done" /\ written # {} =>
        written = {row.key : row \in {r \in Range(job.sheets["history"].rows) : ~Blank(r)}}
===============================================================================
