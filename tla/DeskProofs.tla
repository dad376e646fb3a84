------------------------------ MODULE DeskProofs ------------------------------
(***************************************************************************)
(* Theorems about three parts of the program that read no plan: the        *)
(* import, the haul plan, and the mapping that gives an import its         *)
(* columns.  They share lemmas and no state.                               *)
(*                                                                         *)
(* Import, for sheets of any size, any limit of the error log and any      *)
(* number of rows read: history is written whole or not at all, every      *)
(* problem is reported once, and no part is reported missing that is       *)
(* there.  IInv says how far the reader is (StageInv), what it has made of *)
(* the rows behind it (LogInv, CountInv, ParsedInv, SeenInv), that the     *)
(* part master comes first (FirstInv) and what stands at the end (EndInv,  *)
(* WrittenInv).                                                            *)
(*                                                                         *)
(* HaulPlan, for any trips, fleet, horizon and opening ledger: its types,  *)
(* that no truck is in two places, that short runs never take a truck a    *)
(* long haul wanted, that the fairness reported is the plan's and never    *)
(* beats water-filling, and that the gap between the trucks stays bounded. *)
(* HaulInv is the plan's own invariant, LedgerInv adds the ledger and      *)
(* GapInv the kilometres.                                                  *)
(*                                                                         *)
(* Mapping, for sheets of any number of rows, any fields and any names of  *)
(* them: its types, that a suggestion is sound, when inspect finds the     *)
(* header and leaves no named column out, and that a preview is of what    *)
(* was inspected.  MappingInv says what the page's answers are answers to. *)
(***************************************************************************)
EXTENDS Import, HaulPlan, Mapping, Sums, SequenceTheorems, TLAPS

------------------------------------------------------------------------------
(***************************************************************************)
(* The import.                                                             *)
(***************************************************************************)

LEMMA BothCounted ==
    ASSUME NEW S, IsFiniteSet(S), NEW T, IsFiniteSet(T), S \cap T = {}
    PROVE  IsFiniteSet(S \cup T) /\ Cardinality(S \cup T) = Cardinality(S) + Cardinality(T)
  <1>1. Cardinality(S) \in Nat /\ Cardinality(T) \in Nat
    BY FS_CardinalityType
  <1> QED
    BY <1>1, FS_Union, FS_EmptySet

\* What is told apart is counted alike.
LEMMA SameNumber ==
    ASSUME NEW S, IsFiniteSet(S), NEW f, \A x, y \in S : f[x] = f[y] => x = y
    PROVE  IsFiniteSet({f[x] : x \in S}) /\ Cardinality({f[x] : x \in S}) = Cardinality(S)
  <1> PICK T : T = {f[x] : x \in S}
    OBVIOUS
  <1> PICK g : g = [x \in S |-> f[x]]
    OBVIOUS
  <1>1. g \in Surjection(S, T) /\ g \in Injection(S, T)
    BY DEF Surjection, Injection, IsInjective
  <1> QED
    BY <1>1, FS_Surjection

LEMMA PlaceIsTaken ==
    ASSUME NEW S, IsFiniteSet(S), NEW R, Strict(S, R), NEW n \in 0..(Cardinality(S) - 1)
    PROVE  \E x \in S : Cardinality(Preceding(S, R, x)) = n
  BY RankPlaces

LEMMA NthIsOne ==
    ASSUME NEW S \in SUBSET Nat, IsFiniteSet(S), NEW n \in 1..Cardinality(S)
    PROVE  Nth(S, n) \in S
  <1>R. PICK R : R = {p \in S \X S : p[1] < p[2]}
    OBVIOUS
  <1>1. \A x, y \in S : <<x, y>> \in R <=> x < y
    BY <1>R
  <1>S. IsFiniteSet(S)
    OBVIOUS
  <1>2. Strict(S, R)
    BY <1>1 DEF Strict
  <1>3. n - 1 \in 0..(Cardinality(S) - 1)
    BY FS_CardinalityType
  <1>4. PICK x \in S : Cardinality(Preceding(S, R, x)) = n - 1
    BY <1>2, <1>3, <1>S, PlaceIsTaken
  <1>5. Preceding(S, R, x) = {j \in S : j < x}
    BY <1>1 DEF Preceding
  <1>6. Cardinality({j \in S : j < x}) = n - 1
    BY <1>4, <1>5
  <1> QED
    BY <1>6 DEF Nth

LEMMA MinOfTwo ==
    ASSUME NEW a \in Int, NEW b \in Int
    PROVE  Min({a, b}) = IF a <= b THEN a ELSE b
  <1>1. \A x \in {a, b} : (\A y \in {a, b} : x <= y) <=> x = IF a <= b THEN a ELSE b
    OBVIOUS
  <1> QED
    BY <1>1 DEF Min

LEMMA MaxOfTwo ==
    ASSUME NEW a \in Int, NEW b \in Int
    PROVE  Max({a, b}) = IF a >= b THEN a ELSE b
  <1>1. \A x \in {a, b} : (\A y \in {a, b} : x >= y) <=> x = IF a >= b THEN a ELSE b
    OBVIOUS
  <1> QED
    BY <1>1 DEF Max

------------------------------------------------------------------------------
\* The log is a list up to the limit, and only a full one has anything suppressed.
LogTypes ==
    /\ log \in Seq(Range(log)) /\ suppressed \in Nat
    /\ Len(log) <= Limit
    /\ suppressed > 0 => Len(log) = Limit

\* Whatever is added is listed or counted.
LEMMA AddCounts ==
    ASSUME LogTypes, NEW problems, problems \in Seq(Range(problems)), Add(problems)
    PROVE  /\ LogTypes'
           /\ Len(log') + suppressed' = Len(log) + suppressed + Len(problems)
           /\ Range(log') \subseteq Range(log) \cup Range(problems)
  <1>E. PICK E : E = Range(log) \cup Range(problems)
    OBVIOUS
  <1>P. PICK p : p = problems
    OBVIOUS
  <1>L. PICK l : l = log
    OBVIOUS
  <1>s. PICK u : u = suppressed
    OBVIOUS
  <1>t. l \in Seq(Range(l)) /\ u \in Nat /\ Len(l) <= Limit /\ (u > 0 => Len(l) = Limit)
    BY <1>L, <1>s DEF LogTypes
  <1>1. l \in Seq(E) /\ p \in Seq(E)
    BY <1>E, <1>P, <1>L, <1>t
  <1>A. PICK all : all = l \o p
    OBVIOUS
  <1>2. all \in Seq(E) /\ Len(all) = Len(l) + Len(p)
    BY <1>1, <1>A
  <1>n. Len(l) \in Nat /\ Len(p) \in Nat /\ Len(all) \in Nat /\ Limit \in Nat \ {0}
    BY <1>1, <1>2, SizeAssumption
  <1>a. PICK n : n = Len(all)
    OBVIOUS
  <1>i. n \in Int /\ Limit \in Int /\ n - Limit \in Int /\ 0 \in Int
    BY <1>a, <1>n
  <1>m. PICK m : m = Min({Limit, n})
    OBVIOUS
  <1>3. m = IF Limit <= n THEN Limit ELSE n
    BY <1>i, <1>m, MinOfTwo
  <1>x. PICK more : more = Max({0, n - Limit})
    OBVIOUS
  <1>4. more = IF 0 >= n - Limit THEN 0 ELSE n - Limit
    BY <1>i, <1>x, MaxOfTwo
  <1>5. log' = SubSeq(all, 1, m) /\ suppressed' = u + more
    BY <1>P, <1>L, <1>A, <1>a, <1>m, <1>x, <1>s DEF Add
  <1>6. m \in Nat /\ m <= n
    BY <1>n, <1>3, <1>a
  <1>7. log' \in Seq(E) /\ Len(log') = m
    BY <1>2, <1>5, <1>6, <1>a
  <1>8. DOMAIN log' = 1..m /\ \A k \in 1..m : log'[k] \in E
    BY <1>7, <1>6
  <1>9. Range(log') \subseteq E
    BY <1>8 DEF Range
  <1>10. log' \in Seq(Range(log'))
    <2>G. PICK g : g = log'
      OBVIOUS
    <2>H. PICK H : H = Range(g)
      OBVIOUS
    <2>1. DOMAIN g = 1..m /\ g \in Seq(E)
      BY <1>7, <1>8, <2>G
    <2>2. \A k \in 1..m : g[k] \in H
      BY <2>1, <2>H DEF Range
    <2>3. g = [k \in 1..m |-> g[k]]
      BY <2>1
    <2>4. g \in Seq(H)
      BY <1>6, <2>2, <2>3
    <2> QED
      BY <2>G, <2>H, <2>4
  <1>12. u + more \in Nat /\ m <= Limit /\ (u + more > 0 => m = Limit)
         /\ m + (u + more) = Len(l) + u + Len(p)
    <2>1. PICK a, b \in Nat : a = Len(l) /\ b = Len(p)
      BY <1>n
    <2>2. u \in Nat /\ a <= Limit /\ (u > 0 => a = Limit) /\ n = a + b
      BY <1>t, <1>2, <1>a, <2>1
    <2>3. u + more \in Nat /\ m <= Limit /\ (u + more > 0 => m = Limit) /\ m + (u + more) = a + u + b
      BY <1>3, <1>4, <2>2, <1>n
    <2> QED
      BY <2>1, <2>3
  <1> QED
    BY <1>5, <1>7, <1>9, <1>10, <1>12, <1>E, <1>P, <1>L, <1>s DEF LogTypes

LEMMA LogIsEmpty ==
    ASSUME LogTypes
    PROVE  /\ Len(log) \in Nat /\ suppressed \in Nat
           /\ log = <<>> <=> Len(log) + suppressed = 0
  <1>1. Len(log) \in Nat /\ suppressed \in Nat /\ (log = <<>> <=> Len(log) = 0)
    BY DEF LogTypes
  <1> QED
    BY <1>1, SizeAssumption DEF LogTypes

------------------------------------------------------------------------------
(***************************************************************************)
(* What is in the sheets of a job, of whichever state.                     *)
(***************************************************************************)
Sheets(J, t) == J.sheets[t]
InFile(J, t) ==
    {i \in DOMAIN Sheets(J, t).rows :
        /\ Sheets(J, t).head = "fine"
        /\ ~Blank(Sheets(J, t).rows[i])
        /\ Sheets(J, t).format = "grid" => J.header + i <= MaxRows}
KeyIn(J, t, i) == Sheets(J, t).rows[i].key
BadIn(J, t, i) == Sheets(J, t).rows[i].bad
Parsed(J, t) == {i \in InFile(J, t) : BadIn(J, t, i) = 0}
Earlier(J, t, i) == {j \in Parsed(J, t) : j < i /\ KeyIn(J, t, j) = KeyIn(J, t, i)}
Good(J, t) == {i \in Parsed(J, t) : Earlier(J, t, i) = {}}

\* What is wrong with a row by itself, and with all rows of a set.
RowFaults(J, t, i) ==
    {<<"cell", c>> : c \in 1..BadIn(J, t, i)}
    \cup {<<"duplicate", 0>> : j \in IF i \in Parsed(J, t) THEN Earlier(J, t, i) ELSE {}}
FaultsOn(J, x) == {<<x[1], x[2], f>> : f \in RowFaults(J, x[1], x[2])}
Marked(J, P) == UNION {FaultsOn(J, x) : x \in P}
RowsIn(J) == {x \in Table \X Nat : x[2] \in InFile(J, x[1])}

LEMMA InThisJob ==
    ASSUME NEW t
    PROVE  /\ Read(t) = InFile(job, t) /\ Parsing(t) = Parsed(job, t) /\ Accepted(t) = Good(job, t)
           /\ \A i : Key(t, i) = KeyIn(job, t, i) /\ Repeats(t, i) = Earlier(job, t, i)
  <1>1. Read(t) = InFile(job, t)
    BY DEF Read, InFile, Sheets
  <1>2. Parsing(t) = Parsed(job, t)
    BY <1>1 DEF Parsing, Parsed, BadIn, Sheets
  <1>3. \A i : Key(t, i) = KeyIn(job, t, i)
    BY DEF Key, KeyIn, Sheets
  <1>4. \A i : Repeats(t, i) = Earlier(job, t, i)
    BY <1>2, <1>3 DEF Repeats, Earlier
  <1> QED
    BY <1>1, <1>2, <1>3, <1>4 DEF Accepted, Good

IsJob(J) ==
    /\ J.kind \in {"check", "import", "preview", "commit"}
    /\ J.table \in Table /\ J.header \in Nat
    /\ \A t \in Table : Sheets(J, t) \in Sheet
    /\ J.kind \in {"check", "import"} =>
          \A t \in Table : Sheets(J, t).format # "grid" /\ Sheets(J, t).head # "unmapped"
    /\ J.kind \notin {"check", "import"} =>
          \A t \in Table : t # J.table => Sheets(J, t) = NoFile

LEMMA Tables == Table = {"parts", "bom", "routings", "fleet", "history"}
  <1>1. DOMAIN Order = 1..5
    BY DEF Order
  <1>2. Range(Order) = {Order[k] : k \in 1..5}
    BY <1>1 DEF Range
  <1>3. 1..5 = {1, 2, 3, 4, 5}
    OBVIOUS
  <1>4. Order[1] = "parts" /\ Order[2] = "bom" /\ Order[3] = "routings" /\ Order[4] = "fleet"
        /\ Order[5] = "history"
    BY DEF Order
  <1> QED
    BY <1>2, <1>3, <1>4 DEF Table

LEMMA InOrder ==
    /\ Len(Order) = 5 /\ \A k \in 1..5 : Order[k] \in Table
    /\ \A j, k \in 1..5 : Order[j] = Order[k] => j = k
    /\ \A t \in Table : \E k \in 1..5 : Order[k] = t
    /\ Order[1] = "parts"
  <1>1. Order[1] = "parts" /\ Order[2] = "bom" /\ Order[3] = "routings" /\ Order[4] = "fleet"
        /\ Order[5] = "history" /\ Len(Order) = 5
    BY DEF Order
  <1>2. 1..5 = {1, 2, 3, 4, 5}
    OBVIOUS
  <1> QED
    BY <1>1, <1>2, Tables

LEMMA SheetsAreSheets ==
    ASSUME NEW J, IsJob(J), NEW t \in Table
    PROVE  /\ Sheets(J, t).rows \in Seq(Row)
           /\ DOMAIN Sheets(J, t).rows = 1..Len(Sheets(J, t).rows) /\ Len(Sheets(J, t).rows) \in Nat
           /\ \A i \in DOMAIN Sheets(J, t).rows : KeyIn(J, t, i) \in Seq(Nat) /\ BadIn(J, t, i) \in Nat
           /\ InFile(J, t) \subseteq Nat /\ IsFiniteSet(InFile(J, t))
           /\ IsFiniteSet(Parsed(J, t)) /\ IsFiniteSet(Good(J, t))
  <1>s. PICK s : s = Sheets(J, t)
    OBVIOUS
  <1>1. s \in Sheet
    BY <1>s DEF IsJob
  <1>r. PICK rows : rows = s.rows
    OBVIOUS
  <1>2. rows \in Seq(Row)
    BY <1>1, <1>r DEF Sheet
  <1>3. DOMAIN rows = 1..Len(rows) /\ Len(rows) \in Nat /\ \A i \in DOMAIN rows : rows[i] \in Row
    BY <1>2
  <1>4. \A i \in DOMAIN rows : rows[i].key \in Seq(Nat) /\ rows[i].bad \in Nat
    BY <1>3 DEF Row
  <1>5. InFile(J, t) \subseteq DOMAIN rows
    BY <1>s, <1>r DEF InFile
  <1>6. IsFiniteSet(DOMAIN rows)
    BY <1>3, FS_Interval
  <1>7. InFile(J, t) \subseteq Nat
    BY <1>3, <1>5
  <1>8. Parsed(J, t) \subseteq InFile(J, t) /\ Good(J, t) \subseteq Parsed(J, t)
    BY DEF Parsed, Good
  <1>9. IsFiniteSet(InFile(J, t)) /\ IsFiniteSet(Parsed(J, t)) /\ IsFiniteSet(Good(J, t))
    BY <1>5, <1>6, <1>8, FS_Subset
  <1> QED
    BY <1>2, <1>3, <1>4, <1>7, <1>9, <1>s, <1>r DEF KeyIn, BadIn

\* A row that is faultless is accepted.
LEMMA RowFaultsAre ==
    ASSUME NEW J, IsJob(J), NEW t \in Table, NEW i \in InFile(J, t)
    PROVE  /\ BadIn(J, t, i) # 0 =>
                RowFaults(J, t, i) = {<<"cell", c>> : c \in 1..BadIn(J, t, i)}
           /\ BadIn(J, t, i) = 0 => i \in Parsed(J, t)
           /\ BadIn(J, t, i) = 0 /\ Earlier(J, t, i) # {} => RowFaults(J, t, i) = {<<"duplicate", 0>>}
           /\ BadIn(J, t, i) = 0 /\ Earlier(J, t, i) = {} => RowFaults(J, t, i) = {}
           /\ RowFaults(J, t, i) = {} <=> i \in Good(J, t)
           /\ BadIn(J, t, i) \in Nat
  <1>b. PICK b : b = BadIn(J, t, i)
    OBVIOUS
  <1>1. b \in Nat
    BY <1>b, SheetsAreSheets DEF InFile
  <1>2. i \in Parsed(J, t) <=> b = 0
    BY <1>b DEF Parsed
  <1>3. i \in Good(J, t) <=> b = 0 /\ Earlier(J, t, i) = {}
    BY <1>2 DEF Good
  <1>4. b = 0 => 1..b = {}
    OBVIOUS
  <1>5. b # 0 => 1 \in 1..b
    BY <1>1
  <1>6. RowFaults(J, t, i) =
          {<<"cell", c>> : c \in 1..b} \cup
          {<<"duplicate", 0>> : j \in IF i \in Parsed(J, t) THEN Earlier(J, t, i) ELSE {}}
    BY <1>b DEF RowFaults
  <1>7. b # 0 => RowFaults(J, t, i) = {<<"cell", c>> : c \in 1..b} /\ RowFaults(J, t, i) # {}
    BY <1>2, <1>5, <1>6
  <1>8. b = 0 => RowFaults(J, t, i) = {<<"duplicate", 0>> : j \in Earlier(J, t, i)}
    BY <1>2, <1>4, <1>6
  <1>9. b = 0 /\ Earlier(J, t, i) # {} => RowFaults(J, t, i) = {<<"duplicate", 0>>}
    BY <1>8
  <1>10. b = 0 /\ Earlier(J, t, i) = {} => RowFaults(J, t, i) = {}
    BY <1>8
  <1> QED
    BY <1>b, <1>1, <1>2, <1>3, <1>7, <1>9, <1>10

\* How many faults a row has.
RowCount(J, t, i) ==
    IF BadIn(J, t, i) # 0 THEN BadIn(J, t, i) ELSE IF Earlier(J, t, i) # {} THEN 1 ELSE 0

LEMMA RowCounted ==
    ASSUME NEW J, IsJob(J), NEW t \in Table, NEW i \in InFile(J, t)
    PROVE  /\ IsFiniteSet(FaultsOn(J, <<t, i>>))
           /\ Cardinality(FaultsOn(J, <<t, i>>)) = RowCount(J, t, i)
           /\ RowCount(J, t, i) \in Nat
  <1>b. PICK b : b = BadIn(J, t, i)
    OBVIOUS
  <1>0. b \in Nat
    BY <1>b, RowFaultsAre
  <1>F. PICK F : F = RowFaults(J, t, i)
    OBVIOUS
  <1>1. FaultsOn(J, <<t, i>>) = {<<t, i, f>> : f \in F}
    BY <1>F DEF FaultsOn
  <1>2. CASE b # 0
    <2>1. F = {<<"cell", c>> : c \in 1..b}
      BY <1>2, <1>b, <1>F, RowFaultsAre
    <2>2. FaultsOn(J, <<t, i>>) = {<<t, i, <<"cell", c>>>> : c \in 1..b}
      BY <1>1, <2>1
    <2>g. PICK g : g = [c \in 1..b |-> <<t, i, <<"cell", c>>>>]
      OBVIOUS
    <2>3. \A c, d \in 1..b : g[c] = g[d] => c = d
      BY <2>g
    <2>4. {g[c] : c \in 1..b} = FaultsOn(J, <<t, i>>)
      BY <2>2, <2>g
    <2>5. IsFiniteSet(1..b) /\ Cardinality(1..b) = b
      BY <1>0, <1>2, FS_Interval
    <2>6. IsFiniteSet({g[c] : c \in 1..b}) /\ Cardinality({g[c] : c \in 1..b}) = b
      <3>S. PICK S : S = 1..b
        OBVIOUS
      <3>1. IsFiniteSet(S) /\ \A c, d \in S : g[c] = g[d] => c = d
        BY <2>3, <2>5, <3>S
      <3>2. IsFiniteSet({g[c] : c \in S}) /\ Cardinality({g[c] : c \in S}) = Cardinality(S)
        BY <3>1, SameNumber
      <3> QED
        BY <2>5, <3>2, <3>S
    <2> QED
      BY <1>2, <1>b, <2>4, <2>5, <2>6, <1>0 DEF RowCount
  <1>3. CASE b = 0 /\ Earlier(J, t, i) # {}
    <2>1. F = {<<"duplicate", 0>>}
      BY <1>3, <1>b, <1>F, RowFaultsAre
    <2>e. PICK e : e = <<t, i, <<"duplicate", 0>>>>
      OBVIOUS
    <2>3. FaultsOn(J, <<t, i>>) = {e}
      BY <1>1, <2>1, <2>e
    <2>2. IsFiniteSet(FaultsOn(J, <<t, i>>)) /\ Cardinality(FaultsOn(J, <<t, i>>)) = 1
      BY <2>3, FS_Singleton
    <2> QED
      BY <1>3, <1>b, <2>2, FS_Singleton DEF RowCount
  <1>4. CASE b = 0 /\ Earlier(J, t, i) = {}
    <2>1. F = {}
      BY <1>4, <1>b, <1>F, RowFaultsAre
    <2>2. FaultsOn(J, <<t, i>>) = {}
      BY <1>1, <2>1
    <2> QED
      BY <1>4, <1>b, <2>2, FS_EmptySet DEF RowCount
  <1> QED
    BY <1>2, <1>3, <1>4

LEMMA MarkedAdds ==
    ASSUME NEW J, IsJob(J), NEW t \in Table, NEW i \in InFile(J, t),
           NEW P \in SUBSET (Table \X Nat), <<t, i>> \notin P, IsFiniteSet(Marked(J, P))
    PROVE  /\ IsFiniteSet(Marked(J, P \cup {<<t, i>>}))
           /\ Cardinality(Marked(J, P \cup {<<t, i>>})) = Cardinality(Marked(J, P)) + RowCount(J, t, i)
  <1>x. PICK x : x = <<t, i>>
    OBVIOUS
  <1>1. Marked(J, P \cup {x}) = Marked(J, P) \cup FaultsOn(J, x)
    BY DEF Marked
  <1>2. \A y \in P : y = <<y[1], y[2]>>
    OBVIOUS
  <1>3. \A y \in P : y[1] # t \/ y[2] # i
    BY <1>2
  <1>4. \A e \in FaultsOn(J, x) : e[1] = t /\ e[2] = i
    BY <1>x DEF FaultsOn
  <1>5. \A e \in Marked(J, P) : e[1] # t \/ e[2] # i
    BY <1>3 DEF Marked, FaultsOn
  <1>6. Marked(J, P) \cap FaultsOn(J, x) = {}
    BY <1>4, <1>5
  <1>7. IsFiniteSet(FaultsOn(J, x)) /\ Cardinality(FaultsOn(J, x)) = RowCount(J, t, i)
    BY <1>x, RowCounted
  <1>8. /\ IsFiniteSet(Marked(J, P) \cup FaultsOn(J, x))
        /\ Cardinality(Marked(J, P) \cup FaultsOn(J, x)) = Cardinality(Marked(J, P)) + RowCount(J, t, i)
    BY <1>6, <1>7, BothCounted
  <1> QED
    BY <1>1, <1>8, <1>x

LEMMA NoneMarked ==
    ASSUME NEW J, NEW P, \A x \in P : RowFaults(J, x[1], x[2]) = {}
    PROVE  Marked(J, P) = {}
  BY DEF Marked, FaultsOn

------------------------------------------------------------------------------
(***************************************************************************)
(* Where the reader is.                                                    *)
(***************************************************************************)
\* The tables gone through, the rows seen, the headers found unreadable.
Past == {t \in Table : pc \notin {"open", "rows"} \/
            IF Directory THEN \E k \in 1..(at - 1) : Order[k] = t ELSE t # job.table}
Been == {x \in RowsIn(job) : x[1] \in Past \/ (pc = "rows" /\ x[1] = Now /\ x[2] < line)}
Lacking(J, t) == {<<t, c>> : c \in 1..Sheets(J, t).lacks}
Headless(J, T) == UNION {Lacking(J, t) : t \in {u \in T : Sheets(J, u).head = "unreadable"}}
HeadCount(J, t) == IF Sheets(J, t).head = "unreadable" THEN Sheets(J, t).lacks ELSE 0

StageInv ==
    /\ IsJob(job)
    /\ pc \in {"open", "rows", "compare", "decide", "done"}
    /\ at \in 1..5 /\ line \in Nat \ {0}
    /\ pc = "compare" => Directory
    /\ pc = "rows" => File.head = "fine"

LEMMA NowIs ==
    ASSUME StageInv
    PROVE  /\ Now \in Table /\ File = Sheets(job, Now)
           /\ ~Directory => Now = job.table
           /\ Directory => Now = Order[at]
           /\ pc \in {"open", "rows"} => Now \notin Past
           /\ pc \notin {"open", "rows"} => Past = Table
           /\ Past \subseteq Table /\ Been \subseteq Table \X Nat
  <1>1. Now \in Table
    BY InOrder DEF StageInv, Now, IsJob, Directory
  <1>2. (Directory => Now = Order[at]) /\ (~Directory => Now = job.table)
    BY DEF Now
  <1>3. ASSUME pc \in {"open", "rows"} PROVE Now \notin Past
    <2>1. CASE Directory
      <3>1. \A k \in 1..(at - 1) : k \in 1..5 /\ k # at
        BY DEF StageInv
      <3>2. \A k \in 1..(at - 1) : Order[k] # Order[at]
        BY <3>1, InOrder DEF StageInv
      <3> QED
        BY <2>1, <1>2, <1>3, <3>2 DEF Past
    <2>2. CASE ~Directory
      BY <2>2, <1>2, <1>3 DEF Past
    <2> QED
      BY <2>1, <2>2
  <1> QED
    BY <1>1, <1>2, <1>3 DEF Past, Been, RowsIn, File, Sheets

\* Going on to the next table, or to the end, adds the one at hand.
LEMMA TablePasses ==
    ASSUME StageInv, pc \in {"open", "rows"}, NextTable, job' = job, line' \in Nat \ {0}
    PROVE  /\ StageInv' /\ pc' # "rows" /\ pc' # "done"
           /\ Past' = Past \cup {Now}
           /\ (pc' = "decide" => ~Directory) /\ (pc' = "open" => at' # 1 /\ Directory)
           /\ (pc' # "open" /\ Directory => at = 5)
  <1>T. PICK T : T = Now
    OBVIOUS
  <1>0. T \in Table /\ (~Directory => T = job.table) /\ (Directory => T = Order[at])
    BY <1>T, NowIs
  <1>k. at \in 1..5
    BY DEF StageInv
  <1>1. CASE Directory /\ at < 5
    <2>1. pc' = "open" /\ at' = at + 1
      BY <1>1, InOrder DEF NextTable
    <2>2. StageInv'
      BY <1>1, <2>1 DEF StageInv, Directory
    <2>3. 1..at = (1..(at - 1)) \cup {at} /\ at + 1 - 1 = at
      BY <1>k
    <2>4. \A t : (\E k \in 1..(at' - 1) : Order[k] = t) <=> (\E k \in 1..(at - 1) : Order[k] = t) \/ t = T
      BY <1>0, <1>1, <2>1, <2>3
    <2>5. Directory' /\ Directory
      BY <1>1 DEF Directory
    <2>6. Past' = {t \in Table : \E k \in 1..(at' - 1) : Order[k] = t}
      BY <2>1, <2>5 DEF Past
    <2>7. Past = {t \in Table : \E k \in 1..(at - 1) : Order[k] = t}
      BY <2>5 DEF Past
    <2>8. Past' = Past \cup {T}
      BY <1>0, <2>4, <2>6, <2>7
    <2> QED
      BY <1>1, <2>1, <2>2, <2>8, <1>T, <1>k
  <1>2. CASE ~(Directory /\ at < 5)
    <2>1. pc' = (IF Directory THEN "compare" ELSE "decide") /\ at' = at
      BY <1>2, InOrder DEF NextTable
    <2>2. StageInv'
      BY <2>1 DEF StageInv, Directory
    <2>3. Past' = Table
      BY <2>1 DEF Past
    <2>4. Past \cup {T} = Table
      <3>1. CASE Directory
        <4>1. at = 5
          BY <1>2, <1>k, <3>1
        <4>2. \A k \in 1..5 : k = 5 \/ k \in 1..4
          OBVIOUS
        <4>3. \A t \in Table : t = T \/ \E k \in 1..(at - 1) : Order[k] = t
          BY <1>0, <3>1, <4>1, <4>2, InOrder
        <4> QED
          BY <1>0, <3>1, <4>3 DEF Past
      <3>2. CASE ~Directory
        BY <1>0, <3>2 DEF Past
      <3> QED
        BY <3>1, <3>2
    <2>5. Directory => at = 5
      BY <1>2, <1>k
    <2> QED
      BY <2>1, <2>2, <2>3, <2>4, <2>5, <1>T
  <1> QED
    BY <1>1, <1>2

\* How far the reader gets in the file at hand.
LEMMA Readable ==
    ASSUME StageInv, pc = "rows"
    PROVE  /\ LastRow(File) \in Int /\ DOMAIN File.rows = 1..Len(File.rows) /\ Len(File.rows) \in Nat
           /\ LastRow(File) <= Len(File.rows)
           /\ \A i \in DOMAIN File.rows :
                i \in InFile(job, Now) <=> ~Blank(File.rows[i]) /\ i <= LastRow(File)
  <1>T. PICK T : T = Now
    OBVIOUS
  <1>s. PICK s : s = Sheets(job, T)
    OBVIOUS
  <1>h. PICK h : h = job.header
    OBVIOUS
  <1>0. IsJob(job) /\ T \in Table /\ File = s /\ s.head = "fine"
    BY <1>T, <1>s, NowIs DEF StageInv
  <1>1. h \in Nat /\ MaxRows \in Nat
    BY <1>h, <1>0, SizeAssumption DEF IsJob
  <1>n. PICK n : n = Len(s.rows)
    OBVIOUS
  <1>2. DOMAIN s.rows = 1..n /\ n \in Nat
    BY <1>0, <1>s, <1>n, SheetsAreSheets
  <1>3. Min({n, MaxRows - h}) = IF n <= MaxRows - h THEN n ELSE MaxRows - h
    BY <1>1, <1>2, MinOfTwo
  <1>4. LastRow(s) = IF s.format = "grid" THEN Min({n, MaxRows - h}) ELSE n
    BY <1>n, <1>h DEF LastRow
  <1>5. LastRow(s) \in Int /\ LastRow(s) <= n
    BY <1>1, <1>2, <1>3, <1>4
  <1>6. \A i \in 1..n : i <= LastRow(s) <=> (s.format = "grid" => h + i <= MaxRows)
    BY <1>1, <1>2, <1>3, <1>4
  <1>7. \A i \in 1..n : i \in InFile(job, T) <=> ~Blank(s.rows[i]) /\ (s.format = "grid" => h + i <= MaxRows)
    BY <1>0, <1>2, <1>s, <1>h DEF InFile
  <1> QED
    BY <1>0, <1>2, <1>5, <1>6, <1>7, <1>n, <1>T

LEMMA TableIsBeen ==
    ASSUME StageInv, pc \in {"open", "rows"}, NextTable, job' = job, line' \in Nat \ {0},
           pc = "open" => File.head # "fine", pc = "rows" => line > LastRow(File)
    PROVE  Been' = Been
  <1>T. PICK T : T = Now
    OBVIOUS
  <1>1. Past' = Past \cup {T} /\ pc' # "rows"
    BY <1>T, TablePasses
  <1>2. Been' = {x \in RowsIn(job) : x[1] \in Past'}
    BY <1>1 DEF Been
  <1>3. ASSUME NEW x \in RowsIn(job), x[1] = T PROVE pc = "rows" /\ x[2] < line
    <2>0. x[2] \in InFile(job, T)
      BY <1>3 DEF RowsIn
    <2>1. pc = "rows"
      BY <1>T, <2>0, NowIs DEF InFile
    <2>2. x[2] \in DOMAIN File.rows /\ x[2] <= LastRow(File)
      <3>1. x[2] \in DOMAIN File.rows
        BY <1>T, <2>0, NowIs DEF InFile
      <3> QED
        BY <1>T, <2>0, <2>1, <3>1, Readable
    <2>3. LastRow(File) \in Int /\ x[2] \in Int /\ line \in Int
      BY <2>1, <2>2, Readable DEF StageInv
    <2> QED
      BY <2>1, <2>2, <2>3
  <1>4. Been = {x \in RowsIn(job) : x[1] \in Past \/ (pc = "rows" /\ x[1] = T /\ x[2] < line)}
    BY <1>T DEF Been
  <1> QED
    BY <1>1, <1>2, <1>3, <1>4

LEMMA RowIsBeen ==
    ASSUME StageInv, ReadRow
    PROVE  /\ StageInv' /\ Past' = Past /\ pc = "rows" /\ pc' = "rows" /\ job' = job
           /\ line \in DOMAIN File.rows
           /\ line \in InFile(job, Now) <=> ~Blank(File.rows[line])
           /\ <<Now, line>> \notin Been
           /\ Been' = Been \cup (IF line \in InFile(job, Now) THEN {<<Now, line>>} ELSE {})
  <1>T. PICK T : T = Now
    OBVIOUS
  <1>l. PICK l : l = line
    OBVIOUS
  <1>0. pc = "rows" /\ pc' = pc /\ l <= LastRow(File) /\ line' = l + 1 /\ job' = job /\ at' = at
    BY <1>l DEF ReadRow
  <1>1. l \in Nat \ {0} /\ T \in Table
    BY <1>l, <1>T, NowIs DEF StageInv
  <1>2. l \in DOMAIN File.rows
    BY <1>0, <1>1, Readable
  <1>3. l \in InFile(job, T) <=> ~Blank(File.rows[l])
    BY <1>0, <1>2, <1>T, Readable
  <1>4. Now' = T
    BY <1>0, <1>T DEF Now, Directory
  <1>5. StageInv'
    BY <1>0, <1>1 DEF StageInv, File, Now, Directory
  <1>6. Past' = Past
    BY <1>0 DEF Past, Directory
  <1>7. T \notin Past
    BY <1>0, <1>T, NowIs
  <1>8. Been = {x \in RowsIn(job) : x[1] \in Past \/ (x[1] = T /\ x[2] < l)}
    BY <1>0, <1>T, <1>l DEF Been
  <1>9. Been' = {x \in RowsIn(job) : x[1] \in Past \/ (x[1] = T /\ x[2] < l + 1)}
    BY <1>0, <1>4, <1>6 DEF Been
  <1>10. \A x \in RowsIn(job) : x = <<x[1], x[2]>> /\ x[2] \in Nat
    BY DEF RowsIn
  <1>11. \A x \in RowsIn(job) : x[2] < l + 1 <=> x[2] < l \/ x[2] = l
    BY <1>1, <1>10
  <1>12. <<T, l>> \in RowsIn(job) <=> l \in InFile(job, T)
    BY <1>1 DEF RowsIn
  <1>13. <<T, l>> \notin Been
    BY <1>1, <1>7, <1>8
  <1>14. \A x \in RowsIn(job) : x[1] = T /\ x[2] = l <=> x = <<T, l>>
    BY <1>10
  <1>15. Been' = Been \cup (IF l \in InFile(job, T) THEN {<<T, l>>} ELSE {})
    BY <1>8, <1>9, <1>11, <1>12, <1>14
  <1> QED
    BY <1>0, <1>2, <1>3, <1>5, <1>6, <1>13, <1>15, <1>T, <1>l

LEMMA TableIsOpened ==
    ASSUME StageInv, OpenTable
    PROVE  StageInv' /\ Past' = Past /\ Been' = Been /\ Now' = Now /\ job' = job /\ pc' = "rows" /\ line' = 1
  <1>T. PICK T : T = Now
    OBVIOUS
  <1>0. pc = "open" /\ pc' = "rows" /\ line' = 1 /\ job' = job /\ at' = at /\ File.head = "fine"
    BY DEF OpenTable
  <1>1. Past' = Past
    BY <1>0 DEF Past, Directory
  <1>2. Now' = T
    BY <1>0, <1>T DEF Now, Directory
  <1>3. StageInv'
    BY <1>0 DEF StageInv, File, Now, Directory
  <1>4. Been = {x \in RowsIn(job) : x[1] \in Past}
    BY <1>0 DEF Been
  <1>5. Been' = {x \in RowsIn(job) : x[1] \in Past \/ (x[1] = T /\ x[2] < 1)}
    BY <1>0, <1>1, <1>2 DEF Been
  <1>6. \A x \in RowsIn(job) : ~(x[2] < 1)
    <2>1. ASSUME NEW x \in RowsIn(job) PROVE ~(x[2] < 1)
      <3>1. x[1] \in Table /\ x[2] \in InFile(job, x[1])
        BY DEF RowsIn
      <3>2. x[2] \in DOMAIN Sheets(job, x[1]).rows
        BY <3>1 DEF InFile
      <3>3. DOMAIN Sheets(job, x[1]).rows = 1..Len(Sheets(job, x[1]).rows)
        BY <3>1, SheetsAreSheets DEF StageInv
      <3>k. PICK k : k = x[2]
        OBVIOUS
      <3>4. k \in 1..Len(Sheets(job, x[1]).rows) /\ Len(Sheets(job, x[1]).rows) \in Nat
        BY <3>1, <3>2, <3>3, <3>k, SheetsAreSheets DEF StageInv
      <3> QED
        BY <3>4, <3>k
    <2> QED
      BY <2>1
  <1> QED
    BY <1>0, <1>1, <1>2, <1>3, <1>4, <1>5, <1>6, <1>T

------------------------------------------------------------------------------
(***************************************************************************)
(* What has been made of the rows seen.                                    *)
(***************************************************************************)
NumberIn(J, t, i) ==
    IF Sheets(J, t).format = "csv"
    THEN J.header + Cardinality({j \in 1..i : ~Blank(Sheets(J, t).rows[j])}) ELSE J.header + i

\* An entry is about a row that has the fault, and a part reported missing is.
Truthful(J, e) ==
    /\ e.why \in {"cell", "duplicate"} /\ Sheets(J, e.table).format # "csv" =>
          /\ e.row - J.header \in InFile(J, e.table)
          /\ \E f \in RowFaults(J, e.table, e.row - J.header) : f[1] = e.why
          /\ e.why = "duplicate" => e.value - J.header \in Earlier(J, e.table, e.row - J.header)
    /\ e.why = "unknown" => \A i \in InFile(J, "parts") : KeyIn(J, "parts", i)[1] # e.value

LogInv == LogTypes /\ \A e \in Range(log) : Truthful(job, e)

\* Every fault of the rows seen is listed or counted.
CountIs ==
    /\ IsFiniteSet(Marked(job, Been))
    /\ Len(log) + suppressed = Cardinality(Marked(job, Been)) + Cardinality(Headless(job, Past))
CountInv == pc \in {"open", "rows", "compare"} => CountIs

GoodBeen(J, t, B) == {i \in Good(J, t) : <<t, i>> \in B}
KeysAre(list, keys) ==
    /\ list \in Seq(Seq(Nat)) /\ Range(list) = keys
    /\ \A m, n \in DOMAIN list : list[m] = list[n] => m = n
ParsedInv ==
    /\ parsed \in [Table -> Seq(Seq(Nat))]
    /\ \A t \in Table : KeysAre(parsed[t], {KeyIn(job, t, i) : i \in GoodBeen(job, t, Been)})

SeenAre(J, t, l, book) ==
    /\ DOMAIN book = {KeyIn(J, t, i) : i \in {i \in Parsed(J, t) : i < l}}
    /\ \A k \in DOMAIN book : \E i \in Parsed(J, t) :
          i < l /\ KeyIn(J, t, i) = k /\ book[k] = NumberIn(J, t, i)
SeenInv == pc = "rows" => SeenAre(job, Now, line, seen)

LEMMA NumberHere ==
    ASSUME StageInv
    PROVE  RowNumber(File, line) = NumberIn(job, Now, line)
  BY NowIs DEF RowNumber, Counted, NumberIn

\* Keeping the rows seen keeps the keys parsed.
LEMMA ParsedKept ==
    ASSUME ParsedInv, parsed' = parsed, job' = job,
           \A t \in Table : GoodBeen(job, t, Been') = GoodBeen(job, t, Been)
    PROVE  ParsedInv'
  BY DEF ParsedInv

LEMMA LogKept ==
    ASSUME LogInv, log' = log, suppressed' = suppressed, job' = job
    PROVE  LogInv'
  BY DEF LogInv, LogTypes

\* The problems of a header are as many as it lacks columns.
LEMMA LackingIs ==
    ASSUME NEW J, IsJob(J), NEW t \in Table
    PROVE  /\ Sheets(J, t).lacks \in Nat \ {0}
           /\ IsFiniteSet(Lacking(J, t)) /\ Cardinality(Lacking(J, t)) = Sheets(J, t).lacks
           /\ Lacking(J, t) # {} /\ \A x \in Lacking(J, t) : x[1] = t
  <1>n. PICK n : n = Sheets(J, t).lacks
    OBVIOUS
  <1>1. n \in Nat \ {0}
    BY <1>n DEF IsJob, Sheet
  <1>S. PICK S : S = 1..n
    OBVIOUS
  <1>2. IsFiniteSet(S) /\ Cardinality(S) = n
    BY <1>1, <1>S, FS_Interval
  <1>g. PICK g : g = [c \in S |-> <<t, c>>]
    OBVIOUS
  <1>3. {g[c] : c \in S} = Lacking(J, t) /\ \A c, d \in S : g[c] = g[d] => c = d
    BY <1>n, <1>S, <1>g DEF Lacking
  <1>4. IsFiniteSet({g[c] : c \in S}) /\ Cardinality({g[c] : c \in S}) = Cardinality(S)
    BY <1>2, <1>3, SameNumber
  <1>5. 1 \in S
    BY <1>1, <1>S
  <1>6. Lacking(J, t) # {} /\ \A x \in Lacking(J, t) : x[1] = t
    BY <1>3, <1>5, <1>n, <1>S DEF Lacking
  <1> QED
    BY <1>1, <1>2, <1>3, <1>4, <1>6, <1>n

LEMMA HeadersAreFinite ==
    ASSUME NEW J, IsJob(J), NEW T \in SUBSET Table
    PROVE  IsFiniteSet(T) /\ IsFiniteSet(Headless(J, T)) /\ Cardinality(Headless(J, T)) \in Nat
  <1>1. IsFiniteSet(1..5)
    <2>1. PICK a, b \in Int : a = 1 /\ b = 5
      OBVIOUS
    <2>2. IsFiniteSet(a..b)
      BY FS_Interval
    <2> QED
      BY <2>1, <2>2
  <1>2. IsFiniteSet({Order[k] : k \in 1..5})
    BY <1>1, ImageIsFinite
  <1>3. Table = {Order[k] : k \in 1..5}
    BY InOrder
  <1>4. IsFiniteSet(Table)
    BY <1>2, <1>3
  <1>5. IsFiniteSet(T)
    BY <1>4, FS_Subset
  <1>U. PICK U : U = {u \in T : Sheets(J, u).head = "unreadable"}
    OBVIOUS
  <1>6. IsFiniteSet(U) /\ U \subseteq Table
    BY <1>5, <1>U, FS_Subset
  <1>g. PICK g : g = [t \in U |-> Lacking(J, t)]
    OBVIOUS
  <1>7. IsFiniteSet({g[t] : t \in U})
    BY <1>6, ImageIsFinite
  <1>8. \A V \in {g[t] : t \in U} : IsFiniteSet(V)
    BY <1>6, <1>g, LackingIs
  <1>9. IsFiniteSet(UNION {g[t] : t \in U})
    BY <1>7, <1>8, FS_UNION
  <1>10. UNION {g[t] : t \in U} = Headless(J, T)
    BY <1>U, <1>g DEF Headless
  <1> QED
    BY <1>5, <1>9, <1>10, FS_CardinalityType

LEMMA RowIsCounted ==
    ASSUME StageInv, CountIs, LogTypes, job' = job, Past' = Past,
           line \in InFile(job, Now), <<Now, line>> \notin Been, Been' = Been \cup {<<Now, line>>},
           Len(log') + suppressed' = Len(log) + suppressed + RowCount(job, Now, line)
    PROVE  CountIs'
  <1>T. PICK T : T = Now
    OBVIOUS
  <1>l. PICK l : l = line
    OBVIOUS
  <1>t. T \in Table /\ IsJob(job) /\ l \in InFile(job, T)
    BY <1>T, <1>l, NowIs DEF StageInv
  <1>c. PICK c : c = RowCount(job, T, l)
    OBVIOUS
  <1>1. Been \subseteq Table \X Nat /\ IsFiniteSet(Marked(job, Been)) /\ Past \subseteq Table
    BY NowIs DEF CountIs
  <1>2. <<T, l>> \notin Been /\ Been' = Been \cup {<<T, l>>}
    BY <1>T, <1>l
  <1>3. /\ IsFiniteSet(Marked(job, Been'))
        /\ Cardinality(Marked(job, Been')) = Cardinality(Marked(job, Been)) + c
    BY <1>1, <1>2, <1>t, <1>c, MarkedAdds
  <1>4. Len(log) + suppressed = Cardinality(Marked(job, Been)) + Cardinality(Headless(job, Past))
    BY DEF CountIs
  <1>5. Cardinality(Marked(job, Been)) \in Nat /\ Cardinality(Headless(job, Past)) \in Nat
    BY <1>1, <1>t, HeadersAreFinite, FS_CardinalityType
  <1>6. c \in Nat
    BY <1>c, <1>t, RowCounted
  <1>7. Len(log') + suppressed' = Len(log) + suppressed + c
    BY <1>T, <1>l, <1>c
  <1>8. Len(log') + suppressed' = Cardinality(Marked(job, Been')) + Cardinality(Headless(job, Past))
    BY <1>3, <1>4, <1>5, <1>6, <1>7
  <1> QED
    BY <1>3, <1>8 DEF CountIs

\* A row that is not parsed leaves the keys seen as they are.
LEMMA SeenKept ==
    ASSUME StageInv, SeenInv, ReadRow, seen' = seen, line \notin Parsed(job, Now)
    PROVE  SeenInv'
  <1>T. PICK T : T = Now
    OBVIOUS
  <1>l. PICK l : l = line
    OBVIOUS
  <1>1. pc = "rows" /\ pc' = "rows" /\ job' = job /\ line' = l + 1 /\ Now' = T
    BY <1>l, <1>T DEF ReadRow, Now, Directory
  <1>2. SeenAre(job, T, l, seen) /\ l \in Nat
    BY <1>1, <1>T, <1>l DEF SeenInv, StageInv
  <1>3. \A i \in Parsed(job, T) : i \in Nat /\ i # l
    <2>1. Parsed(job, T) \subseteq InFile(job, T)
      BY DEF Parsed
    <2>2. InFile(job, T) \subseteq Nat
      BY <1>T, NowIs, SheetsAreSheets DEF StageInv
    <2> QED
      BY <1>T, <1>l, <2>1, <2>2
  <1>4. \A i \in Parsed(job, T) : i < l + 1 <=> i < l
    BY <1>2, <1>3
  <1>5. {i \in Parsed(job, T) : i < l + 1} = {i \in Parsed(job, T) : i < l}
    BY <1>4
  <1>6. SeenAre(job, T, l + 1, seen)
    BY <1>2, <1>4, <1>5 DEF SeenAre
  <1> QED
    BY <1>1, <1>6 DEF SeenInv

LEMMA SkipRowStep ==
    ASSUME StageInv, LogInv, CountIs, ParsedInv, SeenInv, SkipRow
    PROVE  LogInv' /\ CountIs' /\ ParsedInv' /\ SeenInv'
  <1>T. PICK T : T = Now
    OBVIOUS
  <1>l. PICK l : l = line
    OBVIOUS
  <1>1. ReadRow /\ Blank(File.rows[l]) /\ UNCHANGED <<seen, parsed, log, suppressed>>
    BY <1>l DEF SkipRow
  <1>2. /\ Past' = Past /\ pc = "rows" /\ pc' = "rows" /\ job' = job
        /\ l \notin InFile(job, T)
        /\ Been' = Been
    BY <1>1, <1>T, <1>l, RowIsBeen
  <1>3. LogInv'
    BY <1>1, <1>2, LogKept
  <1>4. ParsedInv'
    BY <1>1, <1>2, ParsedKept
  <1>5. CountIs'
    BY <1>1, <1>2 DEF CountIs
  <1>6. SeenInv'
    BY <1>1, <1>2, <1>T, <1>l, SeenKept DEF Parsed
  <1> QED
    BY <1>3, <1>4, <1>5, <1>6

LEMMA RejectRowStep ==
    ASSUME StageInv, LogInv, CountIs, ParsedInv, SeenInv, RejectRow
    PROVE  LogInv' /\ CountIs' /\ ParsedInv' /\ SeenInv'
  <1>T. PICK T : T = Now
    OBVIOUS
  <1>l. PICK l : l = line
    OBVIOUS
  <1>b. PICK b : b = BadIn(job, T, l)
    OBVIOUS
  <1>N. PICK N : N = NumberIn(job, T, l)
    OBVIOUS
  <1>p. PICK p : p = [c \in 1..b |-> Entry(T, N, "cell", c)]
    OBVIOUS
  <1>t. T \in Table /\ File = Sheets(job, T) /\ IsJob(job)
    BY <1>T, NowIs DEF StageInv
  <1>1. ReadRow /\ ~Blank(File.rows[l]) /\ b > 0 /\ Add(p) /\ UNCHANGED <<seen, parsed>>
    BY <1>l, <1>T, <1>b, <1>N, <1>p, <1>t, NumberHere DEF RejectRow, BadIn
  <1>2. /\ Past' = Past /\ pc = "rows" /\ pc' = "rows" /\ job' = job
        /\ l \in InFile(job, T) /\ <<T, l>> \notin Been
        /\ Been' = Been \cup {<<T, l>>}
    BY <1>1, <1>T, <1>l, RowIsBeen
  <1>3. b \in Nat /\ RowCount(job, T, l) = b
        /\ RowFaults(job, T, l) = {<<"cell", c>> : c \in 1..b} /\ l \notin Parsed(job, T)
    BY <1>1, <1>2, <1>b, <1>t, RowFaultsAre DEF RowCount, Parsed
  <1>4. p \in Seq(Range(p)) /\ Len(p) = b /\ \A e \in Range(p) : e.table = T /\ e.row = N /\ e.why = "cell"
    <2>1. DOMAIN p = 1..b
      BY <1>p
    <2>2. \A c \in 1..b : p[c] \in Range(p)
      BY <2>1 DEF Range
    <2>3. p = [c \in 1..b |-> p[c]]
      BY <1>p
    <2>R. PICK R : R = Range(p)
      OBVIOUS
    <2>4. p \in Seq(R) /\ Len(p) = b
      BY <1>3, <2>1, <2>2, <2>3, <2>R
    <2>5. \A c \in 1..b : p[c].table = T /\ p[c].row = N /\ p[c].why = "cell"
      BY <1>p DEF Entry
    <2>6. \A e \in Range(p) : \E c \in 1..b : e = p[c]
      BY <2>1 DEF Range
    <2> QED
      BY <2>4, <2>5, <2>6, <2>R
  <1>5. /\ LogTypes' /\ Len(log') + suppressed' = Len(log) + suppressed + b
        /\ Range(log') \subseteq Range(log) \cup Range(p)
    BY <1>1, <1>4, AddCounts DEF LogInv
  <1>6. \A e \in Range(p) : Truthful(job, e)
    <2>h. PICK h : h = job.header
      OBVIOUS
    <2>1. Sheets(job, T).format # "csv" => N - h = l
      <3>1. Sheets(job, T).format # "csv" => N = h + l
        BY <1>N, <2>h DEF NumberIn
      <3>2. h \in Nat /\ l \in Nat
        BY <2>h, <1>t, <1>2, SheetsAreSheets DEF IsJob
      <3> QED
        BY <3>1, <3>2
    <2>2. <<"cell", 1>> \in RowFaults(job, T, l) /\ <<"cell", 1>>[1] = "cell"
      BY <1>1, <1>3
    <2> QED
      BY <1>2, <1>4, <2>1, <2>2, <2>h DEF Truthful
  <1>7. LogInv'
    BY <1>2, <1>5, <1>6 DEF LogInv
  <1>8. CountIs'
    BY <1>2, <1>3, <1>5, <1>T, <1>l, RowIsCounted DEF LogInv
  <1>9. ParsedInv'
    <2>1. \A t \in Table : GoodBeen(job, t, Been') = GoodBeen(job, t, Been)
      <3>1. \A t, i : <<t, i>> \in Been' /\ <<t, i>> \notin Been => t = T /\ i = l
        BY <1>2
      <3>2. l \notin Good(job, T)
        BY <1>3 DEF Good
      <3> QED
        BY <1>2, <3>1, <3>2 DEF GoodBeen
    <2> QED
      BY <1>1, <1>2, <2>1, ParsedKept
  <1>10. SeenInv'
    BY <1>1, <1>3, <1>T, <1>l, SeenKept
  <1> QED
    BY <1>7, <1>8, <1>9, <1>10

\* A list of one entry.
LEMMA OneEntry ==
    ASSUME NEW e
    PROVE  <<e>> \in Seq(Range(<<e>>)) /\ Len(<<e>>) = 1 /\ Range(<<e>>) = {e}
  <1>1. DOMAIN <<e>> = {1} /\ <<e>>[1] = e
    OBVIOUS
  <1>2. Range(<<e>>) = {e}
    BY <1>1 DEF Range
  <1>R. PICK R : R = {e}
    OBVIOUS
  <1>3. <<e>> \in Seq(R) /\ Len(<<e>>) = 1
    BY <1>R
  <1> QED
    BY <1>2, <1>3, <1>R

LEMMA RejectDuplicateStep ==
    ASSUME StageInv, LogInv, CountIs, ParsedInv, SeenInv, RejectDuplicate
    PROVE  LogInv' /\ CountIs' /\ ParsedInv' /\ SeenInv'
  <1>T. PICK T : T = Now
    OBVIOUS
  <1>l. PICK l : l = line
    OBVIOUS
  <1>k. PICK key : key = KeyIn(job, T, l)
    OBVIOUS
  <1>N. PICK N : N = NumberIn(job, T, l)
    OBVIOUS
  <1>e. PICK e : e = Entry(T, N, "duplicate", seen[key])
    OBVIOUS
  <1>t. T \in Table /\ File = Sheets(job, T) /\ IsJob(job)
    BY <1>T, NowIs DEF StageInv
  <1>1. /\ ReadRow /\ ~Blank(File.rows[l]) /\ BadIn(job, T, l) = 0 /\ key \in DOMAIN seen
        /\ Add(<<e>>) /\ UNCHANGED <<seen, parsed>>
    BY <1>l, <1>T, <1>k, <1>N, <1>e, <1>t, NumberHere DEF RejectDuplicate, BadIn, KeyIn
  <1>2. /\ Past' = Past /\ pc = "rows" /\ pc' = "rows" /\ job' = job
        /\ l \in InFile(job, T) /\ <<T, l>> \notin Been
        /\ Been' = Been \cup {<<T, l>>}
    BY <1>1, <1>T, <1>l, RowIsBeen
  <1>3. SeenAre(job, T, l, seen) /\ l \in Nat /\ l \in Parsed(job, T)
    BY <1>1, <1>2, <1>T, <1>l, <1>t, RowFaultsAre DEF SeenInv, StageInv
  <1>4. PICK j \in Parsed(job, T) : j < l /\ KeyIn(job, T, j) = key /\ seen[key] = NumberIn(job, T, j)
    BY <1>1, <1>3 DEF SeenAre
  <1>5. j \in Earlier(job, T, l)
    BY <1>4, <1>k DEF Earlier
  <1>6. RowCount(job, T, l) = 1 /\ RowFaults(job, T, l) = {<<"duplicate", 0>>} /\ l \notin Good(job, T)
    BY <1>1, <1>2, <1>5, <1>t, RowFaultsAre DEF RowCount, Good
  <1>7. <<e>> \in Seq(Range(<<e>>)) /\ Len(<<e>>) = 1 /\ Range(<<e>>) = {e}
    BY OneEntry
  <1>8. /\ LogTypes' /\ Len(log') + suppressed' = Len(log) + suppressed + 1
        /\ Range(log') \subseteq Range(log) \cup {e}
    <2>p. PICK p : p = <<e>>
      OBVIOUS
    <2>1. p \in Seq(Range(p)) /\ Len(p) = 1 /\ Range(p) = {e} /\ Add(p)
      BY <1>1, <1>7, <2>p
    <2>2. LogTypes
      BY DEF LogInv
    <2>3. /\ LogTypes' /\ Len(log') + suppressed' = Len(log) + suppressed + Len(p)
          /\ Range(log') \subseteq Range(log) \cup Range(p)
      BY <2>1, <2>2, AddCounts, Zenon
    <2> QED
      BY <2>1, <2>3
  <1>9. Truthful(job, e)
    <2>h. PICK h : h = job.header
      OBVIOUS
    <2>1. h \in Nat /\ l \in Nat /\ j \in Nat
      <3>1. Parsed(job, T) \subseteq InFile(job, T)
        BY DEF Parsed
      <3> QED
        BY <2>h, <1>t, <1>3, <3>1, SheetsAreSheets DEF IsJob
    <2>2. Sheets(job, T).format # "csv" => N = h + l /\ seen[key] = h + j
      BY <1>N, <1>4, <2>h DEF NumberIn
    <2>3. Sheets(job, T).format # "csv" => N - h = l /\ seen[key] - h = j
      BY <2>1, <2>2
    <2>4. e.table = T /\ e.row = N /\ e.why = "duplicate" /\ e.value = seen[key]
      BY <1>e DEF Entry
    <2>5. <<"duplicate", 0>> \in RowFaults(job, T, l) /\ <<"duplicate", 0>>[1] = "duplicate"
      BY <1>6
    <2> QED
      BY <1>2, <1>5, <2>3, <2>4, <2>5, <2>h DEF Truthful
  <1>10. LogInv'
    BY <1>2, <1>8, <1>9 DEF LogInv
  <1>11. CountIs'
    BY <1>2, <1>6, <1>8, <1>T, <1>l, RowIsCounted DEF LogInv
  <1>12. ParsedInv'
    <2>1. \A t, i : <<t, i>> \in Been' /\ <<t, i>> \notin Been => t = T /\ i = l
      BY <1>2
    <2>2. \A t \in Table : GoodBeen(job, t, Been') = GoodBeen(job, t, Been)
      BY <1>2, <1>6, <2>1 DEF GoodBeen
    <2> QED
      BY <1>1, <1>2, <2>2, ParsedKept
  <1>13. SeenInv'
    <2>1. Now' = T /\ line' = l + 1
      BY <1>1, <1>2, <1>T, <1>l DEF Now, Directory, ReadRow
    <2>2. \A i \in Parsed(job, T) : i \in Nat
      <3>1. Parsed(job, T) \subseteq InFile(job, T)
        BY DEF Parsed
      <3> QED
        BY <3>1, <1>t, SheetsAreSheets
    <2>3. \A i \in Parsed(job, T) : i < l + 1 <=> i < l \/ i = l
      BY <1>3, <2>2
    <2>4. {KeyIn(job, T, i) : i \in {i \in Parsed(job, T) : i < l + 1}}
            = {KeyIn(job, T, i) : i \in {i \in Parsed(job, T) : i < l}}
      BY <1>4, <1>k, <2>3
    <2>5. SeenAre(job, T, l + 1, seen)
      BY <1>3, <2>3, <2>4 DEF SeenAre
    <2> QED
      BY <1>1, <1>2, <2>1, <2>5 DEF SeenInv
  <1> QED
    BY <1>10, <1>11, <1>12, <1>13

LEMMA AcceptRowStep ==
    ASSUME StageInv, LogInv, CountIs, ParsedInv, SeenInv, AcceptRow
    PROVE  LogInv' /\ CountIs' /\ ParsedInv' /\ SeenInv'
  <1>T. PICK T : T = Now
    OBVIOUS
  <1>l. PICK l : l = line
    OBVIOUS
  <1>k. PICK key : key = KeyIn(job, T, l)
    OBVIOUS
  <1>N. PICK N : N = NumberIn(job, T, l)
    OBVIOUS
  <1>t. T \in Table /\ File = Sheets(job, T) /\ IsJob(job)
    BY <1>T, NowIs DEF StageInv
  <1>1. /\ ReadRow /\ ~Blank(File.rows[l]) /\ BadIn(job, T, l) = 0 /\ key \notin DOMAIN seen
        /\ seen' = [x \in DOMAIN seen \cup {key} |-> IF x = key THEN N ELSE seen[x]]
        /\ parsed' = [parsed EXCEPT ![T] = Append(@, key)]
        /\ log' = log /\ suppressed' = suppressed
    BY <1>l, <1>T, <1>k, <1>N, <1>t, NumberHere DEF AcceptRow, BadIn, KeyIn
  <1>2. /\ Past' = Past /\ pc = "rows" /\ pc' = "rows" /\ job' = job
        /\ l \in InFile(job, T) /\ <<T, l>> \notin Been
        /\ Been' = Been \cup {<<T, l>>}
    BY <1>1, <1>T, <1>l, RowIsBeen
  <1>3. SeenAre(job, T, l, seen) /\ l \in Nat /\ l \in Parsed(job, T)
    BY <1>1, <1>2, <1>T, <1>l, <1>t, RowFaultsAre DEF SeenInv, StageInv
  <1>4. Earlier(job, T, l) = {}
    <2>1. \A j \in Earlier(job, T, l) : j \in Parsed(job, T) /\ j < l /\ KeyIn(job, T, j) = key
      BY <1>k DEF Earlier
    <2>2. \A j \in Parsed(job, T) : j < l => KeyIn(job, T, j) \in DOMAIN seen
      BY <1>3 DEF SeenAre
    <2> QED
      BY <1>1, <2>1, <2>2
  <1>5. RowCount(job, T, l) = 0 /\ l \in Good(job, T)
    BY <1>1, <1>2, <1>3, <1>4 DEF RowCount, Good
  <1>6. LogInv'
    BY <1>1, <1>2, LogKept
  <1>7. CountIs'
    <2>1. Len(log) + suppressed \in Nat
      BY LogIsEmpty DEF LogInv
    <2>2. Len(log') + suppressed' = Len(log) + suppressed + RowCount(job, T, l)
      BY <1>1, <1>5, <2>1
    <2> QED
      BY <1>2, <2>2, <1>T, <1>l, RowIsCounted DEF LogInv
  <1>8. \A i \in Parsed(job, T) : i \in Nat
    <2>1. Parsed(job, T) \subseteq InFile(job, T)
      BY DEF Parsed
    <2> QED
      BY <2>1, <1>t, SheetsAreSheets
  <1>9. ParsedInv'
    <2>p. PICK p : p = parsed[T]
      OBVIOUS
    <2>K. PICK K : K = {KeyIn(job, T, i) : i \in GoodBeen(job, T, Been)}
      OBVIOUS
    <2>1. KeysAre(p, K) /\ parsed \in [Table -> Seq(Seq(Nat))]
      BY <1>t, <2>p, <2>K DEF ParsedInv
    <2>2. p \in Seq(Seq(Nat)) /\ Range(p) = K /\ \A m, n \in DOMAIN p : p[m] = p[n] => m = n
      BY <2>1 DEF KeysAre
    <2>3. key \in Seq(Nat)
      BY <1>k, <1>2, <1>t, SheetsAreSheets DEF InFile
    <2>4. key \notin K
      <3>1. \A i \in GoodBeen(job, T, Been) : i \in Parsed(job, T) /\ <<T, i>> \in Been
        BY DEF GoodBeen, Good
      <3>2. \A i : <<T, i>> \in Been => i < l
        <4>1. T \notin Past
          BY <1>2, <1>T, NowIs
        <4>2. \A x \in Been : x[1] = T => x[2] < l
          BY <4>1, <1>l DEF Been
        <4> QED
          BY <4>2
      <3>3. \A i \in GoodBeen(job, T, Been) : KeyIn(job, T, i) \in DOMAIN seen
        BY <1>3, <3>1, <3>2 DEF SeenAre
      <3> QED
        BY <1>1, <2>K, <3>3
    <2>q. PICK q : q = Append(p, key)
      OBVIOUS
    <2>n. PICK n : n = Len(p)
      OBVIOUS
    <2>5. /\ q \in Seq(Seq(Nat)) /\ Len(q) = n + 1 /\ n \in Nat /\ DOMAIN p = 1..n /\ DOMAIN q = 1..(n + 1)
          /\ q[n + 1] = key /\ \A m \in 1..n : q[m] = p[m]
      BY <2>2, <2>3, <2>q, <2>n
    <2>6. \A m \in 1..(n + 1) : m \in 1..n \/ m = n + 1
      BY <2>5
    <2>7. Range(q) = K \cup {key}
      <3>1. \A m \in 1..n : p[m] \in K
        BY <2>2, <2>5 DEF Range
      <3>2. \A m \in DOMAIN q : q[m] \in K \cup {key}
        BY <2>5, <2>6, <3>1
      <3>3. \A k \in K : \E m \in 1..n : q[m] = k
        BY <2>2, <2>5 DEF Range
      <3>4. 1..n \subseteq DOMAIN q /\ n + 1 \in DOMAIN q
        BY <2>5
      <3>5. Range(q) \subseteq K \cup {key}
        BY <3>2 DEF Range
      <3>6. K \cup {key} \subseteq Range(q)
        BY <2>5, <3>3, <3>4 DEF Range
      <3> QED
        BY <3>5, <3>6
    <2>8. ASSUME NEW a \in DOMAIN q, NEW b \in DOMAIN q, q[a] = q[b] PROVE a = b
      <3>1. \A m \in 1..n : q[m] \in K
        BY <2>2, <2>5 DEF Range
      <3>2. a \in 1..n <=> b \in 1..n
        BY <2>4, <2>5, <2>6, <2>8, <3>1
      <3>3. CASE a \in 1..n
        BY <2>2, <2>5, <2>8, <3>2, <3>3
      <3>4. CASE a \notin 1..n
        BY <2>5, <2>6, <3>2, <3>4
      <3> QED
        BY <3>3, <3>4
    <2>9. GoodBeen(job, T, Been') = GoodBeen(job, T, Been) \cup {l}
      BY <1>2, <1>5 DEF GoodBeen
    <2>10. {KeyIn(job, T, i) : i \in GoodBeen(job, T, Been')} = K \cup {key}
      BY <1>k, <2>9, <2>K
    <2>11. KeysAre(q, {KeyIn(job, T, i) : i \in GoodBeen(job, T, Been')})
      BY <2>5, <2>7, <2>8, <2>10 DEF KeysAre
    <2>12. \A t \in Table : t # T => GoodBeen(job, t, Been') = GoodBeen(job, t, Been)
      <3>1. \A t, i : t # T => (<<t, i>> \in Been' <=> <<t, i>> \in Been)
        BY <1>2
      <3> QED
        BY <3>1 DEF GoodBeen
    <2>13. parsed' = [t \in Table |-> IF t = T THEN q ELSE parsed[t]]
      BY <1>1, <2>1, <2>p, <2>q
    <2>14. \A t \in Table : KeysAre(parsed'[t], {KeyIn(job, t, i) : i \in GoodBeen(job, t, Been')})
      <3> TAKE t \in Table
      <3>1. CASE t = T
        BY <2>11, <2>13, <3>1
      <3>2. CASE t # T
        BY <2>12, <2>13, <3>2 DEF ParsedInv
      <3> QED
        BY <3>1, <3>2
    <2>15. parsed' \in [Table -> Seq(Seq(Nat))]
      BY <2>1, <2>5, <2>13
    <2> QED
      BY <1>2, <2>14, <2>15 DEF ParsedInv
  <1>10. SeenInv'
    <2>1. Now' = T /\ line' = l + 1
      BY <1>1, <1>2, <1>T, <1>l DEF Now, Directory, ReadRow
    <2>2. \A i \in Parsed(job, T) : i < l + 1 <=> i < l \/ i = l
      BY <1>3, <1>8
    <2>s. PICK s : s = seen'
      OBVIOUS
    <2>3. DOMAIN s = DOMAIN seen \cup {key}
      BY <1>1, <2>s
    <2>4. DOMAIN s = {KeyIn(job, T, i) : i \in {i \in Parsed(job, T) : i < l + 1}}
      <3>1. DOMAIN seen = {KeyIn(job, T, i) : i \in {i \in Parsed(job, T) : i < l}}
        BY <1>3 DEF SeenAre
      <3>2. {i \in Parsed(job, T) : i < l + 1} = {i \in Parsed(job, T) : i < l} \cup {l}
        BY <1>3, <2>2
      <3> QED
        BY <2>3, <3>1, <3>2, <1>k
    <2>5. ASSUME NEW x \in DOMAIN s
          PROVE  \E i \in Parsed(job, T) : i < l + 1 /\ KeyIn(job, T, i) = x /\ s[x] = NumberIn(job, T, i)
      <3>1. CASE x = key
        <4>1. s[x] = N
          BY <1>1, <2>s, <2>3, <3>1
        <4>2. l < l + 1
          BY <1>3
        <4> QED
          BY <1>3, <1>k, <1>N, <3>1, <4>1, <4>2
      <3>2. CASE x # key
        <4>1. s[x] = seen[x] /\ x \in DOMAIN seen
          BY <1>1, <2>s, <2>3, <3>2
        <4>2. PICK i \in Parsed(job, T) : i < l /\ KeyIn(job, T, i) = x /\ seen[x] = NumberIn(job, T, i)
          BY <1>3, <4>1 DEF SeenAre
        <4> QED
          BY <2>2, <4>1, <4>2
      <3> QED
        BY <3>1, <3>2
    <2>6. SeenAre(job, T, l + 1, s)
      BY <2>4, <2>5 DEF SeenAre
    <2> QED
      BY <1>2, <2>1, <2>6, <2>s DEF SeenInv
  <1> QED
    BY <1>6, <1>7, <1>9, <1>10

------------------------------------------------------------------------------
(***************************************************************************)
(* Going on to the next table.                                             *)
(***************************************************************************)
\* The tables whose turn ends here leave the rows seen as they are.
TableEnds ==
    /\ NextTable /\ job' = job /\ line' = line /\ parsed' = parsed /\ pc \in {"open", "rows"}
    /\ pc = "open" => File.head # "fine"
    /\ pc = "rows" => line > LastRow(File)

\* One more header is unreadable, or none.
LEMMA HeaderIsCounted ==
    ASSUME NEW J, IsJob(J), NEW T \in SUBSET Table, NEW t \in Table, t \notin T
    PROVE  /\ HeadCount(J, t) \in Nat
           /\ Cardinality(Headless(J, T \cup {t})) = Cardinality(Headless(J, T)) + HeadCount(J, t)
  <1>1. IsFiniteSet(Headless(J, T)) /\ Cardinality(Headless(J, T)) \in Nat
    BY HeadersAreFinite
  <1>L. PICK L : L = Lacking(J, t)
    OBVIOUS
  <1>0. IsFiniteSet(L) /\ Cardinality(L) = Sheets(J, t).lacks /\ \A x \in L : x[1] = t
    BY <1>L, LackingIs
  <1>n. Sheets(J, t).lacks \in Nat
    BY LackingIs
  <1>2. CASE Sheets(J, t).head = "unreadable"
    <2>1. {u \in T \cup {t} : Sheets(J, u).head = "unreadable"}
            = {u \in T : Sheets(J, u).head = "unreadable"} \cup {t}
      BY <1>2
    <2>2. Headless(J, T \cup {t}) = Headless(J, T) \cup L
      BY <1>L, <2>1 DEF Headless
    <2>3. \A u \in T : u # t /\ u \in Table
      OBVIOUS
    <2>4. \A x \in Headless(J, T) : x[1] \in T
      BY <2>3, LackingIs DEF Headless
    <2>5. Headless(J, T) \cap L = {}
      BY <1>0, <2>3, <2>4
    <2>6. Cardinality(Headless(J, T) \cup L) = Cardinality(Headless(J, T)) + Cardinality(L)
      BY <1>0, <1>1, <2>5, BothCounted
    <2> QED
      BY <1>0, <1>2, <1>n, <2>2, <2>6 DEF HeadCount
  <1>3. CASE Sheets(J, t).head # "unreadable"
    <2>0. {u \in T \cup {t} : Sheets(J, u).head = "unreadable"}
            = {u \in T : Sheets(J, u).head = "unreadable"}
      BY <1>3
    <2>1. Headless(J, T \cup {t}) = Headless(J, T)
      BY <2>0 DEF Headless
    <2> QED
      BY <1>1, <1>3, <2>1 DEF HeadCount
  <1> QED
    BY <1>2, <1>3

LEMMA EndsCounted ==
    ASSUME StageInv, LogTypes, CountIs, ParsedInv, TableEnds,
           Len(log') + suppressed' = Len(log) + suppressed + HeadCount(job, Now)
    PROVE  StageInv' /\ CountIs' /\ ParsedInv' /\ SeenInv' /\ Been' = Been /\ Past' = Past \cup {Now}
  <1>T. PICK T : T = Now
    OBVIOUS
  <1>0. T \in Table /\ T \notin Past /\ Past \subseteq Table
    BY <1>T, NowIs DEF TableEnds
  <1>1. line' \in Nat \ {0} /\ job' = job /\ pc \in {"open", "rows"} /\ NextTable /\ parsed' = parsed
    BY DEF TableEnds, StageInv
  <1>2. StageInv' /\ Past' = Past \cup {T} /\ pc' # "rows"
    BY <1>1, <1>T, TablePasses
  <1>3. Been' = Been
    BY <1>1, TableIsBeen DEF TableEnds
  <1>4. SeenInv'
    BY <1>2 DEF SeenInv
  <1>5. ParsedInv'
    BY <1>1, <1>3, ParsedKept
  <1>n. PICK n : n = HeadCount(job, T)
    OBVIOUS
  <1>6. n \in Nat /\ Cardinality(Headless(job, Past')) = Cardinality(Headless(job, Past)) + n
    BY <1>0, <1>2, <1>n, HeaderIsCounted DEF StageInv
  <1>7. IsFiniteSet(Marked(job, Been)) /\ Cardinality(Marked(job, Been)) \in Nat
    BY FS_CardinalityType DEF CountIs
  <1>8. Len(log) + suppressed = Cardinality(Marked(job, Been)) + Cardinality(Headless(job, Past))
    BY DEF CountIs
  <1>9. Cardinality(Headless(job, Past)) \in Nat /\ n \in Nat
    BY <1>0, <1>6, HeadersAreFinite DEF StageInv
  <1>10. Len(log') + suppressed' = Len(log) + suppressed + n
    BY <1>T, <1>n
  <1>11. Len(log') + suppressed' = Cardinality(Marked(job, Been)) + Cardinality(Headless(job, Past'))
    BY <1>6, <1>7, <1>8, <1>9, <1>10
  <1>12. CountIs'
    BY <1>1, <1>3, <1>7, <1>11 DEF CountIs
  <1> QED
    BY <1>2, <1>3, <1>4, <1>5, <1>12, <1>T

\* The part master comes first: whether it is clean is said by an empty log.
IntactIn(J) == Sheets(J, "parts").head = "fine" /\ Good(J, "parts") = InFile(J, "parts")
FirstInv ==
    Directory =>
        IF "parts" \in Past THEN "parts" \in clean <=> IntactIn(job)
        ELSE /\ "parts" \notin clean
             /\ pc = "open" => log = <<>>
             /\ pc = "rows" => before = 0

LEMMA PartsAreFirst ==
    ASSUME StageInv, Directory, pc \in {"open", "rows"}
    PROVE  /\ "parts" \in Past <=> Now # "parts"
           /\ "parts" \notin Past => Past = {}
           /\ "parts" \in Table
  <1>1. at \in 1..5 /\ Now = Order[at]
    BY NowIs DEF StageInv
  <1>2. Past = {t \in Table : \E k \in 1..(at - 1) : Order[k] = t}
    BY DEF Past
  <1>3. Order[1] = "parts" /\ "parts" \in Table
    BY InOrder, Tables
  <1>4. CASE at = 1
    <2>1. 1..(at - 1) = {}
      BY <1>4
    <2> QED
      BY <1>1, <1>2, <1>3, <1>4, <2>1
  <1>5. CASE at # 1
    <2>1. 1 \in 1..(at - 1) /\ 1 \in 1..5
      BY <1>1, <1>5
    <2>2. Order[at] # Order[1]
      BY <1>1, <1>5, <2>1, InOrder
    <2> QED
      BY <1>1, <1>2, <1>3, <2>1, <2>2
  <1> QED
    BY <1>4, <1>5

LEMMA SkipTableStep ==
    ASSUME StageInv, LogInv, CountIs, ParsedInv, FirstInv, SkipTable \/ LeaveUnmapped
    PROVE  StageInv' /\ LogInv' /\ CountIs' /\ ParsedInv' /\ SeenInv' /\ FirstInv'
  <1>T. PICK T : T = Now
    OBVIOUS
  <1>0. T \in Table /\ File = Sheets(job, T) /\ IsJob(job)
    BY <1>T, NowIs DEF StageInv
  <1>1. /\ TableEnds /\ pc = "open" /\ log' = log /\ suppressed' = suppressed /\ clean' = clean
        /\ job' = job /\ Sheets(job, T).head \in {"absent", "unmapped"}
    BY <1>0 DEF SkipTable, LeaveUnmapped, TableEnds
  <1>2. Len(log) \in Nat /\ suppressed \in Nat /\ LogTypes
    BY LogIsEmpty DEF LogInv
  <1>3. Len(log') + suppressed' = Len(log) + suppressed + HeadCount(job, T)
    BY <1>1, <1>2 DEF HeadCount
  <1>4. /\ StageInv' /\ CountIs' /\ ParsedInv' /\ SeenInv' /\ Past' = Past \cup {T}
    BY <1>1, <1>2, <1>3, <1>T, EndsCounted
  <1>5. LogInv'
    BY <1>1, LogKept
  <1>6. FirstInv'
    <2> SUFFICES ASSUME Directory' PROVE FirstInv'
      BY DEF FirstInv
    <2>1. Directory
      BY <1>1 DEF Directory
    <2>2. "parts" \in Past'
      BY <1>1, <1>4, <1>T, <2>1, PartsAreFirst
    <2>3. "parts" \in clean <=> IntactIn(job)
      <3>1. CASE T = "parts"
        <4>1. ~IntactIn(job)
          BY <1>1, <3>1 DEF IntactIn
        <4>2. "parts" \notin clean
          BY <1>1, <1>T, <2>1, <3>1, PartsAreFirst DEF FirstInv
        <4> QED
          BY <4>1, <4>2
      <3>2. CASE T # "parts"
        BY <1>1, <1>T, <2>1, <3>2, PartsAreFirst DEF FirstInv
      <3> QED
        BY <3>1, <3>2
    <2> QED
      BY <1>1, <2>2, <2>3 DEF FirstInv
  <1> QED
    BY <1>4, <1>5, <1>6

LEMMA RejectHeaderStep ==
    ASSUME StageInv, LogInv, CountIs, ParsedInv, FirstInv, RejectHeader
    PROVE  StageInv' /\ LogInv' /\ CountIs' /\ ParsedInv' /\ SeenInv' /\ FirstInv'
  <1>T. PICK T : T = Now
    OBVIOUS
  <1>b. PICK b : b = Sheets(job, T).lacks
    OBVIOUS
  <1>p. PICK p : p = [c \in 1..b |-> Entry(T, 1, "header", c)]
    OBVIOUS
  <1>0. T \in Table /\ File = Sheets(job, T) /\ IsJob(job)
    BY <1>T, NowIs DEF StageInv
  <1>1. /\ TableEnds /\ pc = "open" /\ job' = job /\ Sheets(job, T).head = "unreadable" /\ Add(p)
        /\ clean' = IF Len(log') = Len(log) THEN clean \cup {T} ELSE clean
    BY <1>0, <1>T, <1>b, <1>p DEF RejectHeader, TableEnds
  <1>b1. b \in Nat \ {0} /\ HeadCount(job, T) = b
    BY <1>0, <1>1, <1>b, LackingIs DEF HeadCount
  <1>2. p \in Seq(Range(p)) /\ Len(p) = b /\ \A e \in Range(p) : e.why = "header"
    <2>1. DOMAIN p = 1..b
      BY <1>p
    <2>2. \A c \in 1..b : p[c] \in Range(p)
      BY <2>1 DEF Range
    <2>3. p = [c \in 1..b |-> p[c]]
      BY <1>p
    <2>R. PICK R : R = Range(p)
      OBVIOUS
    <2>4. p \in Seq(R) /\ Len(p) = b
      BY <1>b1, <2>1, <2>2, <2>3, <2>R
    <2>5. \A c \in 1..b : p[c].why = "header"
      BY <1>p DEF Entry
    <2>6. \A e \in Range(p) : \E c \in 1..b : e = p[c]
      BY <2>1 DEF Range
    <2> QED
      BY <2>4, <2>5, <2>6, <2>R
  <1>3. LogTypes
    BY DEF LogInv
  <1>4. /\ LogTypes' /\ Len(log') + suppressed' = Len(log) + suppressed + Len(p)
        /\ Range(log') \subseteq Range(log) \cup Range(p)
    BY <1>1, <1>2, <1>3, AddCounts, Zenon
  <1>5. /\ StageInv' /\ CountIs' /\ ParsedInv' /\ SeenInv' /\ Past' = Past \cup {T}
    BY <1>1, <1>2, <1>3, <1>4, <1>b1, <1>T, EndsCounted
  <1>7. LogInv'
    BY <1>1, <1>2, <1>4 DEF LogInv, Truthful
  <1>8. FirstInv'
    <2> SUFFICES ASSUME Directory' PROVE FirstInv'
      BY DEF FirstInv
    <2>1. Directory
      BY <1>1 DEF Directory
    <2>2. "parts" \in Past'
      BY <1>1, <1>5, <1>T, <2>1, PartsAreFirst
    <2>3. "parts" \in clean' <=> IntactIn(job)
      <3>1. CASE T = "parts"
        <4>1. ~IntactIn(job)
          BY <1>1, <3>1 DEF IntactIn
        <4>2. "parts" \notin clean /\ log = <<>>
          BY <1>1, <1>T, <2>1, <3>1, PartsAreFirst DEF FirstInv
        <4>3. Len(log) + suppressed = 0 /\ Len(log) \in Nat /\ suppressed \in Nat
          BY <1>3, <4>2, LogIsEmpty
        <4>4. Len(log') + suppressed' = b /\ b > 0
          BY <1>2, <1>4, <1>b1, <4>3
        <4>5. Len(log') \in Nat /\ suppressed' \in Nat /\ (suppressed' > 0 => Len(log') = Limit)
          BY <1>4 DEF LogTypes
        <4>6. Len(log') # 0
          BY <4>4, <4>5, SizeAssumption
        <4>7. Len(log) = 0
          BY <4>3
        <4> QED
          BY <1>1, <4>1, <4>2, <4>6, <4>7
      <3>2. CASE T # "parts"
        <4>1. "parts" \in clean <=> IntactIn(job)
          BY <1>1, <1>T, <2>1, <3>2, PartsAreFirst DEF FirstInv
        <4> QED
          BY <1>1, <3>2, <4>1
      <3> QED
        BY <3>1, <3>2
    <2> QED
      BY <1>1, <2>2, <2>3 DEF FirstInv
  <1> QED
    BY <1>5, <1>7, <1>8

\* Nothing is wrong with the rows of a table if each of them is accepted.
LEMMA FaultlessTable ==
    ASSUME NEW J, IsJob(J), NEW t \in Table, NEW P, P = {x \in RowsIn(J) : x[1] = t}
    PROVE  Marked(J, P) = {} <=> Good(J, t) = InFile(J, t)
  <1>1. \A i \in InFile(J, t) : RowFaults(J, t, i) = {} <=> i \in Good(J, t)
    BY RowFaultsAre
  <1>2. \A x \in P : x = <<t, x[2]>> /\ x[1] = t /\ x[2] \in InFile(J, t)
    BY DEF RowsIn
  <1>3. \A i \in InFile(J, t) : <<t, i>> \in P
    <2>1. \A i \in InFile(J, t) : i \in Nat
      BY SheetsAreSheets
    <2> QED
      BY <2>1 DEF RowsIn
  <1>4. Good(J, t) \subseteq InFile(J, t)
    BY DEF Good, Parsed
  <1>5. ASSUME Good(J, t) = InFile(J, t) PROVE Marked(J, P) = {}
    <2>1. \A x \in P : RowFaults(J, x[1], x[2]) = {}
      BY <1>1, <1>2, <1>5
    <2> QED
      BY <2>1, NoneMarked
  <1>6. ASSUME Marked(J, P) = {}, NEW i \in InFile(J, t) PROVE i \in Good(J, t)
    <2>1. FaultsOn(J, <<t, i>>) = {}
      BY <1>3, <1>6 DEF Marked
    <2>2. RowFaults(J, t, i) = {}
      BY <2>1 DEF FaultsOn
    <2> QED
      BY <1>1, <2>2
  <1> QED
    BY <1>4, <1>5, <1>6

LEMMA CloseTableStep ==
    ASSUME StageInv, LogInv, CountIs, ParsedInv, FirstInv, CloseTable
    PROVE  StageInv' /\ LogInv' /\ CountIs' /\ ParsedInv' /\ SeenInv' /\ FirstInv'
  <1>T. PICK T : T = Now
    OBVIOUS
  <1>0. T \in Table /\ File = Sheets(job, T) /\ IsJob(job)
    BY <1>T, NowIs DEF StageInv
  <1>1. /\ TableEnds /\ pc = "rows" /\ job' = job /\ Sheets(job, T).head = "fine"
        /\ log' = log /\ suppressed' = suppressed
        /\ clean' = IF Len(log) = before THEN clean \cup {T} ELSE clean
    BY <1>0, <1>T DEF CloseTable, TableEnds, StageInv
  <1>2. Len(log) \in Nat /\ suppressed \in Nat /\ LogTypes
    BY LogIsEmpty DEF LogInv
  <1>3. Len(log') + suppressed' = Len(log) + suppressed + HeadCount(job, T)
    BY <1>1, <1>2 DEF HeadCount
  <1>4. /\ StageInv' /\ CountIs' /\ ParsedInv' /\ SeenInv' /\ Past' = Past \cup {T} /\ Been' = Been
    BY <1>1, <1>2, <1>3, <1>T, EndsCounted
  <1>5. LogInv'
    BY <1>1, LogKept
  <1>6. FirstInv'
    <2> SUFFICES ASSUME Directory' PROVE FirstInv'
      BY DEF FirstInv
    <2>1. Directory
      BY <1>1 DEF Directory
    <2>2. "parts" \in Past'
      BY <1>1, <1>4, <1>T, <2>1, PartsAreFirst
    <2>3. "parts" \in clean' <=> IntactIn(job)
      <3>1. CASE T = "parts"
        <4>1. Past = {} /\ "parts" \notin clean /\ before = 0
          BY <1>1, <1>T, <2>1, <3>1, PartsAreFirst DEF FirstInv
        <4>2. pc' # "rows"
          BY <1>1, TablePasses DEF TableEnds, StageInv
        <4>3. Been = {x \in RowsIn(job) : x[1] = T}
          <5>1. Been' = {x \in RowsIn(job) : x[1] \in Past'}
            BY <1>1, <4>2 DEF Been
          <5> QED
            BY <1>4, <4>1, <5>1
        <4>4. Marked(job, Been) = {} <=> IntactIn(job)
          BY <1>0, <1>1, <3>1, <4>3, FaultlessTable DEF IntactIn
        <4>5. Headless(job, Past) = {}
          BY <4>1 DEF Headless
        <4>6. IsFiniteSet(Marked(job, Been)) /\ Cardinality(Headless(job, Past)) = 0
              /\ Len(log) + suppressed = Cardinality(Marked(job, Been)) + Cardinality(Headless(job, Past))
          BY <4>5, FS_EmptySet DEF CountIs
        <4>7. Cardinality(Marked(job, Been)) = 0 <=> Marked(job, Been) = {}
          BY <4>6, FS_EmptySet
        <4>8. log = <<>> <=> Len(log) + suppressed = 0
          BY <1>2, LogIsEmpty
        <4>9. Len(log) = 0 <=> log = <<>>
          BY <1>2 DEF LogTypes
        <4>10. Cardinality(Marked(job, Been)) \in Nat
          BY <4>6, FS_CardinalityType
        <4>11. Len(log) = before <=> IntactIn(job)
          BY <4>1, <4>4, <4>6, <4>7, <4>8, <4>9, <4>10
        <4> QED
          BY <1>1, <3>1, <4>1, <4>11
      <3>2. CASE T # "parts"
        <4>1. "parts" \in clean <=> IntactIn(job)
          BY <1>1, <1>T, <2>1, <3>2, PartsAreFirst DEF FirstInv
        <4> QED
          BY <1>1, <3>2, <4>1
      <3> QED
        BY <3>1, <3>2
    <2> QED
      BY <1>1, <2>2, <2>3 DEF FirstInv
  <1> QED
    BY <1>4, <1>5, <1>6

LEMMA OpenTableStep ==
    ASSUME StageInv, LogInv, CountIs, ParsedInv, FirstInv, OpenTable
    PROVE  StageInv' /\ LogInv' /\ CountIs' /\ ParsedInv' /\ SeenInv' /\ FirstInv'
  <1>T. PICK T : T = Now
    OBVIOUS
  <1>0. T \in Table /\ IsJob(job)
    BY <1>T, NowIs DEF StageInv
  <1>1. /\ pc = "open" /\ log' = log /\ suppressed' = suppressed /\ clean' = clean /\ parsed' = parsed
        /\ seen' = <<>> /\ before' = Len(log)
    BY DEF OpenTable
  <1>2. /\ StageInv' /\ Past' = Past /\ Been' = Been /\ Now' = T /\ job' = job /\ pc' = "rows" /\ line' = 1
    BY <1>T, TableIsOpened
  <1>3. LogInv'
    BY <1>1, <1>2, LogKept
  <1>4. CountIs'
    BY <1>1, <1>2 DEF CountIs
  <1>5. ParsedInv'
    BY <1>1, <1>2, ParsedKept
  <1>6. SeenInv'
    <2>1. \A i \in Parsed(job, T) : ~(i < 1)
      <3>1. Parsed(job, T) \subseteq DOMAIN Sheets(job, T).rows
        BY DEF Parsed, InFile
      <3>2. DOMAIN Sheets(job, T).rows = 1..Len(Sheets(job, T).rows) /\ Len(Sheets(job, T).rows) \in Nat
        BY <1>0, SheetsAreSheets
      <3>n. PICK n \in Nat : n = Len(Sheets(job, T).rows)
        BY <3>2
      <3>3. \A i \in 1..n : ~(i < 1)
        OBVIOUS
      <3> QED
        BY <3>1, <3>2, <3>n, <3>3
    <2>2. {i \in Parsed(job, T) : i < 1} = {}
      BY <2>1
    <2>s. PICK s : s = <<>>
      OBVIOUS
    <2>3. DOMAIN s = {}
      BY <2>s
    <2>4. SeenAre(job, T, 1, s)
      BY <2>2, <2>3 DEF SeenAre
    <2> QED
      BY <1>1, <1>2, <2>4, <2>s DEF SeenInv
  <1>7. FirstInv'
    <2>1. Directory' = Directory
      BY <1>2 DEF Directory
    <2>2. log = <<>> => Len(log) = 0
      OBVIOUS
    <2> QED
      BY <1>1, <1>2, <2>1, <2>2 DEF FirstInv
  <1> QED
    BY <1>2, <1>3, <1>4, <1>5, <1>6, <1>7

LEMMA RowStep ==
    ASSUME StageInv, LogInv, CountIs, ParsedInv, SeenInv, FirstInv,
           SkipRow \/ RejectRow \/ RejectDuplicate \/ AcceptRow
    PROVE  StageInv' /\ LogInv' /\ CountIs' /\ ParsedInv' /\ SeenInv' /\ FirstInv'
  <1>1. ReadRow
    BY DEF SkipRow, RejectRow, RejectDuplicate, AcceptRow
  <1>2. LogInv' /\ CountIs' /\ ParsedInv' /\ SeenInv'
    BY SkipRowStep, RejectRowStep, RejectDuplicateStep, AcceptRowStep
  <1>3. StageInv' /\ Past' = Past /\ pc = "rows" /\ pc' = "rows" /\ job' = job
    BY <1>1, RowIsBeen
  <1>4. clean' = clean /\ before' = before
    BY <1>1 DEF ReadRow
  <1>5. FirstInv'
    BY <1>3, <1>4 DEF FirstInv, Directory
  <1> QED
    BY <1>2, <1>3, <1>5

------------------------------------------------------------------------------
(***************************************************************************)
(* The tables against each other.                                          *)
(***************************************************************************)
LEMMA GoodKeysDiffer ==
    ASSUME NEW J, IsJob(J), NEW t \in Table, NEW i \in Good(J, t), NEW j \in Good(J, t),
           KeyIn(J, t, i) = KeyIn(J, t, j)
    PROVE  i = j
  <1>1. i \in Parsed(J, t) /\ j \in Parsed(J, t) /\ Earlier(J, t, i) = {} /\ Earlier(J, t, j) = {}
    BY DEF Good
  <1>2. i \in Nat /\ j \in Nat
    BY <1>1, SheetsAreSheets DEF Parsed
  <1>3. ~(i < j) /\ ~(j < i)
    BY <1>1 DEF Earlier
  <1> QED
    BY <1>2, <1>3

IsList(p) == p \in Seq(Range(p)) /\ Len(p) \in Nat

LEMMA Joined ==
    ASSUME NEW p, IsList(p), NEW q, IsList(q)
    PROVE  /\ IsList(p \o q) /\ Len(p \o q) = Len(p) + Len(q)
           /\ \A e \in Range(p \o q) : e \in Range(p) \/ e \in Range(q)
  <1>E. PICK E : E = Range(p) \cup Range(q)
    OBVIOUS
  <1>1. p \in Seq(E) /\ q \in Seq(E)
    BY <1>E DEF IsList
  <1>r. PICK r : r = p \o q
    OBVIOUS
  <1>2. r \in Seq(E) /\ Len(r) = Len(p) + Len(q) /\ Len(r) \in Nat
    BY <1>1, <1>r
  <1>n. PICK n \in Nat : n = Len(r)
    BY <1>2
  <1>3. DOMAIN r = 1..n /\ \A k \in 1..n : r[k] \in E
    BY <1>2, <1>n
  <1>4. \A e \in Range(r) : e \in E
    BY <1>3 DEF Range
  <1>R. PICK R : R = Range(r)
    OBVIOUS
  <1>5. \A k \in 1..n : r[k] \in R
    BY <1>3, <1>R DEF Range
  <1>6. r = [k \in 1..n |-> r[k]]
    BY <1>2, <1>3
  <1>7. r \in Seq(R)
    BY <1>5, <1>6
  <1>8. IsList(r)
    BY <1>2, <1>7, <1>R DEF IsList
  <1> QED
    BY <1>2, <1>4, <1>8, <1>E, <1>r

AllKeys(J, t) == {KeyIn(J, t, i) : i \in Good(J, t)}
GoodUnder(J, t, keys) == {i \in Good(J, t) : KeyIn(J, t, i) \in keys}

\* The rows accepted under one of these keys are found once each.
LEMMA BreakingIs ==
    ASSUME NEW t \in Table, IsJob(job), NEW why, NEW column, NEW keys, NEW b,
           b = Breaking(t, why, column, keys), KeysAre(parsed[t], AllKeys(job, t))
    PROVE  /\ IsList(b) /\ Len(b) = Cardinality(GoodUnder(job, t, keys))
           /\ \A e \in Range(b) : e.why = why /\ \E k \in keys : e.value = k[column]
  <1>G. PICK G : G = GoodUnder(job, t, keys)
    OBVIOUS
  <1>0. G = {i \in Good(job, t) : KeyIn(job, t, i) \in keys}
    BY <1>G DEF GoodUnder
  <1>p. PICK p : p = parsed[t]
    OBVIOUS
  <1>K. PICK K : K = {KeyIn(job, t, i) : i \in Good(job, t)}
    OBVIOUS
  <1>1. p \in Seq(Seq(Nat)) /\ Range(p) = K /\ \A m, n \in DOMAIN p : p[m] = p[n] => m = n
    BY <1>p, <1>K DEF KeysAre, AllKeys
  <1>B. PICK B : B = {m \in DOMAIN p : p[m] \in keys}
    OBVIOUS
  <1>2. DOMAIN p = 1..Len(p) /\ Len(p) \in Nat
    BY <1>1
  <1>3. IsFiniteSet(B) /\ B \in SUBSET Nat
    <2>a. PICK a \in Int : a = 1
      OBVIOUS
    <2>n. PICK n : n = Len(p)
      OBVIOUS
    <2>i. n \in Int
      BY <1>2, <2>n
    <2>1. IsFiniteSet(a..n)
      BY <2>i, FS_Interval
    <2>2. IsFiniteSet(DOMAIN p) /\ B \subseteq DOMAIN p
      BY <1>2, <1>B, <2>a, <2>n, <2>1
    <2>3. IsFiniteSet(B)
      BY <2>2, FS_Subset
    <2> QED
      BY <1>2, <2>2, <2>3
  <1>4. \A m, n \in B : p[m] = p[n] => m = n
    BY <1>1, <1>B
  <1>5. Cardinality({p[m] : m \in B}) = Cardinality(B)
    BY <1>3, <1>4, SameNumber
  <1>6. IsFiniteSet(G) /\ \A i, j \in G : KeyIn(job, t, i) = KeyIn(job, t, j) => i = j
    <2>1. IsFiniteSet(Good(job, t)) /\ G \subseteq Good(job, t)
      BY <1>0, SheetsAreSheets
    <2> QED
      BY <2>1, FS_Subset, GoodKeysDiffer
  <1>g. PICK g : g = [i \in G |-> KeyIn(job, t, i)]
    OBVIOUS
  <1>7. \A i, j \in G : g[i] = g[j] => i = j
    BY <1>6, <1>g
  <1>8. Cardinality({g[i] : i \in G}) = Cardinality(G)
    BY <1>6, <1>7, SameNumber
  <1>9. {g[i] : i \in G} = {p[m] : m \in B}
    <2>1. \A i \in G : g[i] \in K /\ g[i] \in keys
      BY <1>0, <1>g, <1>K
    <2>2. \A i \in G : \E m \in DOMAIN p : p[m] = g[i]
      BY <1>1, <2>1 DEF Range
    <2>3. \A i \in G : \E m \in B : p[m] = g[i]
      BY <1>B, <2>1, <2>2
    <2>4. \A m \in B : p[m] \in K /\ p[m] \in keys
      BY <1>1, <1>B DEF Range
    <2>5. \A m \in B : \E i \in G : g[i] = p[m]
      BY <1>0, <1>g, <1>K, <2>4
    <2> QED
      BY <2>3, <2>5
  <1>c. PICK c : c = Cardinality(B)
    OBVIOUS
  <1>10. c \in Nat /\ c = Cardinality(G)
    BY <1>3, <1>5, <1>8, <1>9, <1>c, FS_CardinalityType
  <1>11. b = [n \in 1..c |-> Entry(t, Nth(B, n) + 1, why, p[Nth(B, n)][column])]
    BY <1>p, <1>B, <1>c DEF Breaking
  <1>12. IsList(b) /\ Len(b) = c /\ DOMAIN b = 1..c
    <2>1. DOMAIN b = 1..c
      BY <1>11
    <2>2. \A n \in 1..c : b[n] \in Range(b)
      BY <2>1 DEF Range
    <2>3. b = [n \in 1..c |-> b[n]]
      BY <1>11
    <2>R. PICK R : R = Range(b)
      OBVIOUS
    <2>f. PICK f : f = b
      OBVIOUS
    <2>4. f = [n \in 1..c |-> f[n]] /\ \A n \in 1..c : f[n] \in R
      BY <2>2, <2>3, <2>R, <2>f
    <2>c. c \in Nat
      BY <1>10
    <2>d. DOMAIN f = 1..c
      BY <2>1, <2>f
    <2>5. f \in Seq(R) /\ Len(f) = c
      BY <2>4, <2>c, <2>d
    <2> QED
      BY <1>10, <2>1, <2>5, <2>R, <2>f DEF IsList
  <1>13. ASSUME NEW e \in Range(b) PROVE e.why = why /\ \E k \in keys : e.value = k[column]
    <2>1. PICK n \in 1..c : e = b[n]
      BY <1>12 DEF Range
    <2>2. n \in 1..Cardinality(B)
      BY <1>c
    <2>m. PICK m : m = Nth(B, n)
      OBVIOUS
    <2>3. m \in B
      BY <1>3, <2>2, <2>m, NthIsOne
    <2>4. e = Entry(t, m + 1, why, p[m][column])
      BY <1>11, <2>1, <2>m
    <2>5. p[m] \in keys
      BY <1>B, <2>3
    <2> QED
      BY <2>4, <2>5 DEF Entry
  <1> QED
    BY <1>10, <1>12, <1>13, <1>G

------------------------------------------------------------------------------
SkusIn(J) == {KeyIn(J, "parts", i)[1] : i \in Good(J, "parts")}
Missing(J, t, c) == {i \in Good(J, t) : KeyIn(J, t, i)[c] \notin SkusIn(J)}
Looping(J) == {i \in Good(J, "bom") : KeyIn(J, "bom", i)[1] = KeyIn(J, "bom", i)[2]}
Compared(J) == IntactIn(J) /\ SkusIn(J) # {}

\* A fault of all rows of a set.
Tagged(t, f, S) == {<<t, i, f>> : i \in S}
Absent(J) ==
    IF Compared(J)
    THEN Tagged("bom", <<"unknown", 1>>, Missing(J, "bom", 1))
           \cup Tagged("bom", <<"unknown", 2>>, Missing(J, "bom", 2))
           \cup Tagged("routings", <<"unknown", 1>>, Missing(J, "routings", 1))
           \cup Tagged("history", <<"unknown", 1>>, Missing(J, "history", 1))
    ELSE {}
Itself(J) == Tagged("bom", <<"itself", 0>>, Looping(J))

LEMMA TaggedCount ==
    ASSUME NEW t, NEW f, NEW S, IsFiniteSet(S)
    PROVE  IsFiniteSet(Tagged(t, f, S)) /\ Cardinality(Tagged(t, f, S)) = Cardinality(S)
  <1>g. PICK g : g = [i \in S |-> <<t, i, f>>]
    OBVIOUS
  <1>1. \A i, j \in S : g[i] = g[j] => i = j
    BY <1>g
  <1>2. {g[i] : i \in S} = Tagged(t, f, S)
    BY <1>g DEF Tagged
  <1>3. IsFiniteSet({g[i] : i \in S}) /\ Cardinality({g[i] : i \in S}) = Cardinality(S)
    BY <1>1, SameNumber
  <1> QED
    BY <1>2, <1>3

LEMMA AbsentCount ==
    ASSUME NEW J, IsJob(J), Compared(J)
    PROVE  /\ IsFiniteSet(Absent(J))
           /\ Cardinality(Absent(J)) = Cardinality(Missing(J, "bom", 1)) + Cardinality(Missing(J, "bom", 2))
                + Cardinality(Missing(J, "routings", 1)) + Cardinality(Missing(J, "history", 1))
  <1>0. {"bom", "routings", "history"} \subseteq Table
    BY Tables
  <1>1. \A t \in Table, c \in {1, 2} : IsFiniteSet(Missing(J, t, c))
    <2>1. \A t \in Table, c \in {1, 2} : Missing(J, t, c) \subseteq Good(J, t) /\ IsFiniteSet(Good(J, t))
      BY SheetsAreSheets DEF Missing
    <2> QED
      BY <2>1, FS_Subset
  <1>A. PICK A : A = Tagged("bom", <<"unknown", 1>>, Missing(J, "bom", 1))
    OBVIOUS
  <1>B. PICK B : B = Tagged("bom", <<"unknown", 2>>, Missing(J, "bom", 2))
    OBVIOUS
  <1>C. PICK C : C = Tagged("routings", <<"unknown", 1>>, Missing(J, "routings", 1))
    OBVIOUS
  <1>D. PICK D : D = Tagged("history", <<"unknown", 1>>, Missing(J, "history", 1))
    OBVIOUS
  <1>2. /\ IsFiniteSet(A) /\ Cardinality(A) = Cardinality(Missing(J, "bom", 1))
        /\ IsFiniteSet(B) /\ Cardinality(B) = Cardinality(Missing(J, "bom", 2))
        /\ IsFiniteSet(C) /\ Cardinality(C) = Cardinality(Missing(J, "routings", 1))
        /\ IsFiniteSet(D) /\ Cardinality(D) = Cardinality(Missing(J, "history", 1))
    BY <1>0, <1>1, <1>A, <1>B, <1>C, <1>D, TaggedCount
  <1>3. /\ \A x \in A : x[1] = "bom" /\ x[3] = <<"unknown", 1>>
        /\ \A x \in B : x[1] = "bom" /\ x[3] = <<"unknown", 2>>
        /\ \A x \in C : x[1] = "routings"
        /\ \A x \in D : x[1] = "history"
    BY <1>A, <1>B, <1>C, <1>D DEF Tagged
  <1>4. <<"unknown", 1>> # <<"unknown", 2>>
    OBVIOUS
  <1>5. A \cap B = {}
    BY <1>3, <1>4
  <1>6. IsFiniteSet(A \cup B) /\ Cardinality(A \cup B) = Cardinality(A) + Cardinality(B)
    BY <1>2, <1>5, BothCounted
  <1>7. (A \cup B) \cap C = {}
    BY <1>3
  <1>8. IsFiniteSet((A \cup B) \cup C) /\ Cardinality((A \cup B) \cup C) = Cardinality(A \cup B) + Cardinality(C)
    BY <1>2, <1>6, <1>7, BothCounted
  <1>9. ((A \cup B) \cup C) \cap D = {}
    BY <1>3
  <1>10. /\ IsFiniteSet(((A \cup B) \cup C) \cup D)
         /\ Cardinality(((A \cup B) \cup C) \cup D) = Cardinality((A \cup B) \cup C) + Cardinality(D)
    BY <1>2, <1>8, <1>9, BothCounted
  <1>11. Absent(J) = ((A \cup B) \cup C) \cup D
    BY <1>A, <1>B, <1>C, <1>D DEF Absent
  <1> QED
    BY <1>2, <1>6, <1>8, <1>10, <1>11

LEMMA ItselfCount ==
    ASSUME NEW J, IsJob(J)
    PROVE  /\ IsFiniteSet(Itself(J)) /\ IsFiniteSet(Looping(J))
           /\ Cardinality(Itself(J)) = Cardinality(Looping(J))
  <1>1. "bom" \in Table
    BY Tables
  <1>2. Looping(J) \subseteq Good(J, "bom") /\ IsFiniteSet(Good(J, "bom"))
    BY <1>1, SheetsAreSheets DEF Looping
  <1>3. IsFiniteSet(Looping(J))
    BY <1>2, FS_Subset
  <1> QED
    BY <1>3, TaggedCount DEF Itself

\* The faults of rows, of references to the part master, and of parts in themselves.
LEMMA AllFaultsCount ==
    ASSUME NEW J, IsJob(J), NEW P, IsFiniteSet(Marked(J, P)),
           NEW A, IsFiniteSet(A), A \in {{}, Absent(J)}
    PROVE  /\ IsFiniteSet((Marked(J, P) \cup A) \cup Itself(J))
           /\ Cardinality((Marked(J, P) \cup A) \cup Itself(J))
                = Cardinality(Marked(J, P)) + Cardinality(A) + Cardinality(Itself(J))
  <1>1. \A x \in Marked(J, P) : x[3][1] \in {"cell", "duplicate"}
    BY DEF Marked, FaultsOn, RowFaults
  <1>2. \A x \in Absent(J) : x[3][1] = "unknown"
    BY DEF Absent, Tagged
  <1>3. \A x \in Itself(J) : x[3][1] = "itself"
    BY DEF Itself, Tagged
  <1>4. Marked(J, P) \cap A = {}
    BY <1>1, <1>2
  <1>5. (Marked(J, P) \cup A) \cap Itself(J) = {}
    BY <1>1, <1>2, <1>3
  <1>6. /\ IsFiniteSet(Marked(J, P) \cup A)
        /\ Cardinality(Marked(J, P) \cup A) = Cardinality(Marked(J, P)) + Cardinality(A)
    BY <1>4, BothCounted
  <1>7. IsFiniteSet(Itself(J))
    BY ItselfCount
  <1>M. PICK M : M = Marked(J, P) \cup A
    OBVIOUS
  <1>I. PICK I : I = Itself(J)
    OBVIOUS
  <1>8. IsFiniteSet(M) /\ IsFiniteSet(I) /\ M \cap I = {}
    BY <1>5, <1>6, <1>7, <1>M, <1>I
  <1>9. IsFiniteSet(M \cup I) /\ Cardinality(M \cup I) = Cardinality(M) + Cardinality(I)
    BY <1>8, BothCounted
  <1> QED
    BY <1>6, <1>9, <1>M, <1>I

------------------------------------------------------------------------------
\* What a comparison adds to the faults of a row.
Late(t, i) ==
    {<<"unknown", c>> : c \in {c \in Reference(t) :
              /\ Directory /\ Intact("parts") /\ Skus # {}
              /\ i \in Accepted(t) /\ Key(t, i)[c] \notin Skus}}
    \cup {<<"itself", 0>> : c \in {c \in Reference(t) :
              /\ Directory /\ t = "bom"
              /\ i \in Accepted(t) /\ Key(t, i)[1] = Key(t, i)[2]}}

LEMMA SkusAre == Skus = SkusIn(job) /\ (Intact("parts") <=> IntactIn(job))
  BY InThisJob DEF Skus, SkusIn, Intact, IntactIn, Sheets

LEMMA FaultsOfAre ==
    ASSUME NEW t, NEW i
    PROVE  FaultsOf(t, i) = RowFaults(job, t, i) \cup Late(t, i)
  <1>1. {<<"cell", c>> : c \in 1..job.sheets[t].rows[i].bad} = {<<"cell", c>> : c \in 1..BadIn(job, t, i)}
    BY DEF BadIn, Sheets
  <1>2. (i \in Parsing(t) <=> i \in Parsed(job, t)) /\ Repeats(t, i) = Earlier(job, t, i)
    BY InThisJob
  <1>3. {<<"duplicate", 0>> : j \in IF i \in Parsing(t) THEN Repeats(t, i) ELSE {}}
          = {<<"duplicate", 0>> : j \in IF i \in Parsed(job, t) THEN Earlier(job, t, i) ELSE {}}
    BY <1>2
  <1> QED
    BY <1>1, <1>3 DEF FaultsOf, RowFaults, Late

LEMMA LateIs ==
    ASSUME StageInv, NEW e
    PROVE  (\E t \in Table : \E i \in Read(t) : \E f \in Late(t, i) : e = <<t, i, f>>)
             <=> Directory /\ e \in Absent(job) \cup Itself(job)
  <1>1. \A t, i : i \in Good(job, t) => i \in Read(t) /\ i \in Accepted(t)
    BY InThisJob DEF Good, Parsed
  <1>2. \A t, i : i \in Accepted(t) => i \in Good(job, t)
    BY InThisJob
  <1>3. \A t, i : Key(t, i) = KeyIn(job, t, i)
    BY InThisJob
  <1>4. Skus = SkusIn(job) /\ (Intact("parts") /\ Skus # {} <=> Compared(job))
    BY SkusAre DEF Compared
  <1>5. /\ Reference("bom") = {1, 2} /\ Reference("routings") = {1} /\ Reference("history") = {1}
        /\ \A t \in Table : t \notin {"bom", "routings", "history"} => Reference(t) = {}
    BY Tables DEF Reference
  <1>6. {"bom", "routings", "history"} \subseteq Table
    BY Tables
  <1>7. \A t, i, c : c \in Reference(t) /\ i \in Missing(job, t, c) /\ Compared(job) /\ Directory
                 => i \in Read(t) /\ <<"unknown", c>> \in Late(t, i)
    BY <1>1, <1>3, <1>4 DEF Late, Missing
  <1>8. \A i : i \in Looping(job) /\ Directory => i \in Read("bom") /\ <<"itself", 0>> \in Late("bom", i)
    BY <1>1, <1>3, <1>5 DEF Late, Looping
  <1>9. ASSUME Directory, e \in Absent(job) \cup Itself(job)
        PROVE  \E t \in Table : \E i \in Read(t) : \E f \in Late(t, i) : e = <<t, i, f>>
    <2>1. CASE e \in Itself(job)
      <3>1. PICK i \in Looping(job) : e = <<"bom", i, <<"itself", 0>>>>
        BY <2>1 DEF Itself, Tagged
      <3> QED
        BY <1>6, <1>8, <1>9, <3>1
    <2>2. CASE e \in Absent(job)
      <3>1. Compared(job)
        BY <2>2 DEF Absent
      <3>2. PICK t \in {"bom", "routings", "history"}, c \in {1, 2} :
                c \in Reference(t) /\ e \in Tagged(t, <<"unknown", c>>, Missing(job, t, c))
        BY <2>2, <3>1, <1>5 DEF Absent
      <3>3. PICK i \in Missing(job, t, c) : e = <<t, i, <<"unknown", c>>>>
        BY <3>2 DEF Tagged
      <3>4. t \in Table /\ i \in Read(t) /\ <<"unknown", c>> \in Late(t, i)
        BY <1>6, <1>7, <1>9, <3>1, <3>2, <3>3
      <3> QED
        BY <3>3, <3>4
    <2> QED
      BY <1>9, <2>1, <2>2
  <1>10. ASSUME NEW t \in Table, NEW i \in Read(t), NEW f \in Late(t, i), e = <<t, i, f>>
         PROVE  Directory /\ e \in Absent(job) \cup Itself(job)
    <2>1. CASE \E c \in Reference(t) : f = <<"unknown", c>> /\ Directory /\ Intact("parts") /\ Skus # {}
                 /\ i \in Accepted(t) /\ Key(t, i)[c] \notin Skus
      <3>1. PICK c \in Reference(t) : f = <<"unknown", c>> /\ Directory /\ Compared(job)
                 /\ i \in Good(job, t) /\ KeyIn(job, t, i)[c] \notin SkusIn(job)
        BY <2>1, <1>2, <1>3, <1>4
      <3>2. e \in Tagged(t, <<"unknown", c>>, Missing(job, t, c))
        BY <1>10, <3>1 DEF Tagged, Missing
      <3>3. (t = "bom" /\ c \in {1, 2}) \/ (t \in {"routings", "history"} /\ c = 1)
        BY <1>5
      <3>4. e \in Absent(job)
        BY <3>1, <3>2, <3>3 DEF Absent
      <3> QED
        BY <3>1, <3>4
    <2>2. CASE f = <<"itself", 0>> /\ Directory /\ t = "bom" /\ i \in Accepted(t) /\ Key(t, i)[1] = Key(t, i)[2]
      <3>1. i \in Looping(job)
        BY <2>2, <1>2, <1>3 DEF Looping
      <3> QED
        BY <1>10, <2>2, <3>1 DEF Itself, Tagged
    <2> QED
      BY <2>1, <2>2 DEF Late
  <1> QED
    BY <1>9, <1>10

LEMMA FaultsAre ==
    ASSUME StageInv
    PROVE  Faults = Marked(job, RowsIn(job)) \cup (IF Directory THEN Absent(job) \cup Itself(job) ELSE {})
  <1>1. \A t : Read(t) = InFile(job, t)
    BY InThisJob
  <1>2. \A e : e \in Faults <=> \E t \in Table : \E i \in Read(t) : \E f \in FaultsOf(t, i) : e = <<t, i, f>>
    BY DEF Faults
  <1>3. \A e : e \in Faults <=>
            \/ \E t \in Table : \E i \in Read(t) : \E f \in RowFaults(job, t, i) : e = <<t, i, f>>
            \/ \E t \in Table : \E i \in Read(t) : \E f \in Late(t, i) : e = <<t, i, f>>
    BY <1>2, FaultsOfAre
  <1>4. \A t \in Table : InFile(job, t) \subseteq Nat
    BY SheetsAreSheets DEF StageInv
  <1>5. \A e : e \in Marked(job, RowsIn(job)) <=>
            \E t \in Table : \E i \in Read(t) : \E f \in RowFaults(job, t, i) : e = <<t, i, f>>
    <2> TAKE e
    <2>1. ASSUME NEW t \in Table, NEW i \in Read(t), NEW f \in RowFaults(job, t, i), e = <<t, i, f>>
          PROVE  e \in Marked(job, RowsIn(job))
      <3>1. <<t, i>> \in RowsIn(job) /\ <<t, i>>[1] = t /\ <<t, i>>[2] = i
        BY <1>1, <1>4 DEF RowsIn
      <3>2. e \in FaultsOn(job, <<t, i>>)
        BY <2>1, <3>1 DEF FaultsOn
      <3> QED
        BY <3>1, <3>2 DEF Marked
    <2>2. ASSUME e \in Marked(job, RowsIn(job))
          PROVE  \E t \in Table : \E i \in Read(t) : \E f \in RowFaults(job, t, i) : e = <<t, i, f>>
      <3>1. PICK x \in RowsIn(job) : e \in FaultsOn(job, x)
        BY <2>2 DEF Marked
      <3>2. x[1] \in Table /\ x[2] \in Read(x[1])
        BY <1>1, <3>1 DEF RowsIn
      <3> QED
        BY <3>1, <3>2 DEF FaultsOn
    <2> QED
      BY <2>1, <2>2
  <1>6. \A e : e \in Faults <=>
            e \in Marked(job, RowsIn(job)) \/ (Directory /\ e \in Absent(job) \cup Itself(job))
    BY <1>3, <1>5, LateIs
  <1> QED
    BY <1>6

------------------------------------------------------------------------------
(***************************************************************************)
(* The end: what has been counted by then, and what is written.            *)
(***************************************************************************)
IsDirectory(J) == J.kind \in {"check", "import"}
FaultsIn(J) ==
    Marked(J, RowsIn(J)) \cup (IF IsDirectory(J) THEN Absent(J) \cup Itself(J) ELSE {})
UncheckedIn(J) == IF IsDirectory(J) /\ ~IntactIn(J) THEN 1 ELSE 0

EndInv ==
    /\ pc = "decide" => ~Nothing
    /\ pc \in {"decide", "done"} /\ ~Nothing =>
          /\ IsFiniteSet(FaultsIn(job))
          /\ Len(log) + suppressed
               = Cardinality(FaultsIn(job)) + Cardinality(Headless(job, Table)) + UncheckedIn(job)

WrittenInv ==
    written = IF pc = "done" /\ ~Nothing /\ Sound /\ job.kind \in {"import", "commit"}
              THEN Range(parsed["history"]) ELSE {}

IInv ==
    /\ StageInv /\ LogInv /\ CountInv /\ ParsedInv /\ SeenInv
    /\ FirstInv /\ EndInv /\ WrittenInv

LEMMA EndsDecided ==
    ASSUME StageInv, CountIs', job' = job, pc' = "decide", ~Directory
    PROVE  EndInv'
  <1>1. ~IsDirectory(job) /\ Directory' = Directory
    BY DEF Directory, IsDirectory
  <1>2. Past' = Table
    BY DEF Past
  <1>3. Been' = RowsIn(job)
    <2>1. \A x \in RowsIn(job) : x[1] \in Table
      BY DEF RowsIn
    <2>2. Been' = {x \in RowsIn(job) : x[1] \in Past'}
      BY <1>2, <2>1 DEF Been
    <2> QED
      BY <1>2, <2>1, <2>2
  <1>4. FaultsIn(job) = Marked(job, RowsIn(job)) /\ UncheckedIn(job) = 0
    BY <1>1 DEF FaultsIn, UncheckedIn
  <1>5. /\ IsFiniteSet(Marked(job, RowsIn(job)))
        /\ Len(log') + suppressed' = Cardinality(Marked(job, RowsIn(job))) + Cardinality(Headless(job, Table))
    BY <1>2, <1>3 DEF CountIs
  <1>6. Cardinality(Marked(job, RowsIn(job))) \in Nat /\ Cardinality(Headless(job, Table)) \in Nat
    BY <1>5, HeadersAreFinite, FS_CardinalityType DEF StageInv
  <1>7. Len(log') + suppressed'
          = Cardinality(FaultsIn(job)) + Cardinality(Headless(job, Table)) + UncheckedIn(job)
    BY <1>4, <1>5, <1>6
  <1>8. ~Nothing'
    BY <1>1 DEF Nothing, IsDirectory
  <1> QED
    BY <1>4, <1>5, <1>7, <1>8 DEF EndInv

LEMMA TableStep ==
    ASSUME IInv, SkipTable \/ LeaveUnmapped \/ RejectHeader \/ CloseTable
    PROVE  IInv'
  <1>1. pc \in {"open", "rows"} /\ TableEnds /\ job' = job /\ written' = written
    BY DEF SkipTable, LeaveUnmapped, RejectHeader, CloseTable, TableEnds, IInv, StageInv
  <1>2. StageInv /\ LogInv /\ CountIs /\ ParsedInv /\ FirstInv
    BY <1>1 DEF IInv, CountInv
  <1>3. StageInv' /\ LogInv' /\ CountIs' /\ ParsedInv' /\ SeenInv' /\ FirstInv'
    BY <1>2, SkipTableStep, RejectHeaderStep, CloseTableStep
  <1>4. NextTable /\ line' \in Nat \ {0}
    BY <1>1, <1>2 DEF TableEnds, StageInv
  <1>5. pc' # "rows" /\ pc' # "done" /\ (pc' = "decide" => ~Directory)
    BY <1>1, <1>2, <1>4, TablePasses
  <1>6. EndInv'
    <2>1. CASE pc' = "decide"
      BY <1>1, <1>2, <1>3, <1>5, <2>1, EndsDecided
    <2>2. CASE pc' # "decide"
      BY <1>5, <2>2 DEF EndInv
    <2> QED
      BY <2>1, <2>2
  <1>7. written = {}
    BY <1>1 DEF IInv, WrittenInv
  <1>8. WrittenInv'
    BY <1>1, <1>5, <1>7 DEF WrittenInv
  <1> QED
    BY <1>3, <1>6, <1>8 DEF IInv, CountInv

LEMMA ReadStep ==
    ASSUME IInv, OpenTable \/ SkipRow \/ RejectRow \/ RejectDuplicate \/ AcceptRow
    PROVE  IInv'
  <1>1. pc \in {"open", "rows"} /\ pc' = "rows" /\ written' = written
    BY DEF OpenTable, SkipRow, RejectRow, RejectDuplicate, AcceptRow, ReadRow
  <1>2. StageInv /\ LogInv /\ CountIs /\ ParsedInv /\ SeenInv /\ FirstInv
    BY <1>1 DEF IInv, CountInv
  <1>3. StageInv' /\ LogInv' /\ CountIs' /\ ParsedInv' /\ SeenInv' /\ FirstInv'
    BY <1>2, OpenTableStep, RowStep
  <1>4. EndInv'
    BY <1>1 DEF EndInv
  <1>5. WrittenInv'
    BY <1>1 DEF IInv, WrittenInv
  <1> QED
    BY <1>3, <1>4, <1>5 DEF IInv, CountInv

\* Once all tables have been gone through.
LEMMA AllIsBeen ==
    ASSUME StageInv, ParsedInv, pc \notin {"open", "rows"}
    PROVE  /\ Been = RowsIn(job) /\ Past = Table
           /\ \A t \in Table : KeysAre(parsed[t], AllKeys(job, t))
  <1>1. Past = Table
    BY DEF Past
  <1>2. Been = RowsIn(job)
    <2>1. \A x \in RowsIn(job) : x[1] \in Table
      BY DEF RowsIn
    <2> QED
      BY <1>1, <2>1 DEF Been
  <1>3. \A t \in Table : GoodBeen(job, t, RowsIn(job)) = Good(job, t)
    <2> TAKE t \in Table
    <2>1. \A i \in Good(job, t) : i \in InFile(job, t)
      BY DEF Good, Parsed
    <2>2. InFile(job, t) \subseteq Nat
      BY SheetsAreSheets DEF StageInv
    <2>3. \A i \in Good(job, t) : <<t, i>> \in RowsIn(job)
      BY <2>1, <2>2 DEF RowsIn
    <2> QED
      BY <2>3 DEF GoodBeen
  <1> QED
    BY <1>1, <1>2, <1>3 DEF ParsedInv, AllKeys

LEMMA UnknownIs ==
    ASSUME IsJob(job), NEW t \in Table, NEW c, NEW u, u = Unknown(t, c),
           KeysAre(parsed[t], AllKeys(job, t)), KnownSkus = SkusIn(job)
    PROVE  /\ IsList(u) /\ Len(u) = Cardinality(Missing(job, t, c))
           /\ \A e \in Range(u) : e.why = "unknown" /\ e.value \notin SkusIn(job)
  <1>K. PICK keys : keys = {key \in Range(parsed[t]) : key[c] \notin KnownSkus}
    OBVIOUS
  <1>w. PICK w : w = "unknown"
    OBVIOUS
  <1>1. u = Breaking(t, w, c, keys) /\ t \in Table /\ KeysAre(parsed[t], AllKeys(job, t))
    BY <1>K, <1>w DEF Unknown
  <1>2. \A i \in Good(job, t) : KeyIn(job, t, i) \in Range(parsed[t])
    BY DEF KeysAre, AllKeys
  <1>3. GoodUnder(job, t, keys) = Missing(job, t, c)
    BY <1>2, <1>K DEF Missing, GoodUnder
  <1>4. /\ IsList(u) /\ Len(u) = Cardinality(GoodUnder(job, t, keys))
        /\ \A e \in Range(u) : e.why = w /\ \E k \in keys : e.value = k[c]
    BY <1>1, BreakingIs
  <1> QED
    BY <1>3, <1>4, <1>K, <1>w

LEMMA LoopingIs ==
    ASSUME IsJob(job), NEW keys, keys = {key \in Range(parsed["bom"]) : key[1] = key[2]},
           NEW t \in Table, t = "bom", NEW why, why = "itself", NEW c, NEW u, u = Breaking(t, why, c, keys),
           KeysAre(parsed[t], AllKeys(job, t))
    PROVE  /\ IsList(u) /\ Len(u) = Cardinality(Looping(job))
           /\ \A e \in Range(u) : e.why = "itself"
  <1>1. u = Breaking(t, why, c, keys) /\ t \in Table /\ KeysAre(parsed[t], AllKeys(job, t))
    OBVIOUS
  <1>2. \A i \in Good(job, "bom") : KeyIn(job, "bom", i) \in Range(parsed["bom"])
    BY DEF KeysAre, AllKeys
  <1>3. GoodUnder(job, t, keys) = Looping(job)
    BY <1>2 DEF Looping, GoodUnder
  <1>4. /\ IsList(u) /\ Len(u) = Cardinality(GoodUnder(job, t, keys))
        /\ \A e \in Range(u) : e.why = why /\ \E k \in keys : e.value = k[c]
    BY <1>1, BreakingIs
  <1> QED
    BY <1>3, <1>4

LEMMA EmptyIsList == IsList(<<>>) /\ Len(<<>>) = 0 /\ Range(<<>>) = {}
  <1>e. PICK e : e = <<>>
    OBVIOUS
  <1>1. DOMAIN e = {} /\ Len(e) = 0
    BY <1>e
  <1>2. Range(e) = {}
    BY <1>1 DEF Range
  <1>R. PICK R : R = Range(e)
    OBVIOUS
  <1>3. e \in Seq(R)
    BY <1>e
  <1> QED
    BY <1>1, <1>2, <1>3, <1>R, <1>e DEF IsList

\* References that lead nowhere are reported where the part master is intact, and
\* only those.
LEMMA DanglingIs ==
    ASSUME IsJob(job), \A t \in Table : KeysAre(parsed[t], AllKeys(job, t)),
           PartsUsable <=> IntactIn(job), NEW d, d = Dangling
    PROVE  /\ IsList(d) /\ Len(d) = Cardinality(Absent(job)) /\ IsFiniteSet(Absent(job))
           /\ \A e \in Range(d) : e.why = "unknown" /\ IntactIn(job) /\ e.value \notin SkusIn(job)
  <1>0. {"parts", "bom", "routings", "history"} \subseteq Table
    BY Tables
  <1>1. KnownSkus = SkusIn(job)
    <2>1. Range(parsed["parts"]) = {KeyIn(job, "parts", i) : i \in Good(job, "parts")}
      BY <1>0 DEF KeysAre, AllKeys
    <2> QED
      BY <2>1 DEF KnownSkus, SkusIn
  <1>2. CASE Compared(job)
    <2>A. PICK A : A = Unknown("bom", 1)
      OBVIOUS
    <2>B. PICK B : B = Unknown("bom", 2)
      OBVIOUS
    <2>C. PICK C : C = Unknown("routings", 1)
      OBVIOUS
    <2>D. PICK D : D = Unknown("history", 1)
      OBVIOUS
    <2>1. /\ IsList(A) /\ Len(A) = Cardinality(Missing(job, "bom", 1))
          /\ \A e \in Range(A) : e.why = "unknown" /\ e.value \notin SkusIn(job)
      BY <1>0, <1>1, <2>A, UnknownIs
    <2>2. /\ IsList(B) /\ Len(B) = Cardinality(Missing(job, "bom", 2))
          /\ \A e \in Range(B) : e.why = "unknown" /\ e.value \notin SkusIn(job)
      BY <1>0, <1>1, <2>B, UnknownIs
    <2>3. /\ IsList(C) /\ Len(C) = Cardinality(Missing(job, "routings", 1))
          /\ \A e \in Range(C) : e.why = "unknown" /\ e.value \notin SkusIn(job)
      BY <1>0, <1>1, <2>C, UnknownIs
    <2>4. /\ IsList(D) /\ Len(D) = Cardinality(Missing(job, "history", 1))
          /\ \A e \in Range(D) : e.why = "unknown" /\ e.value \notin SkusIn(job)
      BY <1>0, <1>1, <2>D, UnknownIs
    <2>5. d = ((A \o B) \o C) \o D
      BY <1>1, <1>2, <2>A, <2>B, <2>C, <2>D DEF Dangling, Compared
    <2>p. PICK p : p = A \o B
      OBVIOUS
    <2>6. IsList(p) /\ Len(p) = Len(A) + Len(B) /\ \A e \in Range(p) : e \in Range(A) \/ e \in Range(B)
      BY <2>1, <2>2, <2>p, Joined
    <2>q. PICK q : q = p \o C
      OBVIOUS
    <2>7. IsList(q) /\ Len(q) = Len(p) + Len(C) /\ \A e \in Range(q) : e \in Range(p) \/ e \in Range(C)
      BY <2>3, <2>6, <2>q, Joined
    <2>8. d = q \o D
      BY <2>5, <2>p, <2>q
    <2>9. IsList(d) /\ Len(d) = Len(q) + Len(D) /\ \A e \in Range(d) : e \in Range(q) \/ e \in Range(D)
      BY <2>4, <2>7, <2>8, Joined
    <2>10. \A e \in Range(d) : e.why = "unknown" /\ IntactIn(job) /\ e.value \notin SkusIn(job)
      BY <1>2, <2>1, <2>2, <2>3, <2>4, <2>6, <2>7, <2>9 DEF Compared
    <2>11. /\ IsFiniteSet(Absent(job))
           /\ Cardinality(Absent(job)) = Cardinality(Missing(job, "bom", 1)) + Cardinality(Missing(job, "bom", 2))
                + Cardinality(Missing(job, "routings", 1)) + Cardinality(Missing(job, "history", 1))
      BY <1>2, AbsentCount
    <2>12. Len(d) = Cardinality(Absent(job))
      BY <2>1, <2>2, <2>3, <2>4, <2>6, <2>7, <2>9, <2>11
    <2> QED
      BY <2>9, <2>10, <2>11, <2>12
  <1>3. CASE ~Compared(job)
    <2>1. Absent(job) = {}
      BY <1>3 DEF Absent
    <2>2. d = <<>>
      BY <1>1, <1>3 DEF Dangling, Compared
    <2> QED
      BY <2>1, <2>2, EmptyIsList, FS_EmptySet
  <1> QED
    BY <1>2, <1>3

LEMMA SkippedIs ==
    ASSUME Directory, PartsUsable <=> IntactIn(job), NEW s, s = Skipped
    PROVE  /\ IsList(s) /\ Len(s) = UncheckedIn(job) /\ UncheckedIn(job) \in Nat
           /\ \A e \in Range(s) : e.why = "skipped"
  <1>1. IsDirectory(job)
    BY DEF Directory, IsDirectory
  <1>2. CASE IntactIn(job)
    <2>1. s = <<>> /\ UncheckedIn(job) = 0
      BY <1>2 DEF Skipped, UncheckedIn
    <2> QED
      BY <2>1, EmptyIsList
  <1>3. CASE ~IntactIn(job)
    <2>e. PICK e : e = Entry("parts", 0, "skipped", 0)
      OBVIOUS
    <2>1. s = <<e>> /\ UncheckedIn(job) = 1
      BY <1>1, <1>3, <2>e DEF Skipped, UncheckedIn
    <2>2. s \in Seq(Range(s)) /\ Len(s) = 1 /\ Range(s) = {e}
      BY <2>1, OneEntry
    <2>3. e.why = "skipped"
      BY <2>e DEF Entry
    <2> QED
      BY <2>1, <2>2, <2>3 DEF IsList
  <1> QED
    BY <1>2, <1>3

LEMMA CrossCheckStep ==
    ASSUME IInv, CrossCheck
    PROVE  IInv'
  <1>0. /\ pc = "compare" /\ pc' = "decide" /\ ~Nothing /\ Directory
        /\ UNCHANGED <<job, at, line, seen, parsed, before, clean, written>>
    BY DEF CrossCheck, IInv, StageInv
  <1>1. StageInv /\ LogInv /\ CountIs /\ ParsedInv /\ FirstInv /\ LogTypes /\ IsJob(job)
    BY <1>0 DEF IInv, CountInv, LogInv, StageInv
  <1>2. /\ Been = RowsIn(job) /\ Past = Table
        /\ \A t \in Table : KeysAre(parsed[t], AllKeys(job, t))
    BY <1>0, <1>1, AllIsBeen
  <1>t. {"parts", "bom"} \subseteq Table
    BY Tables
  <1>3. PartsUsable <=> IntactIn(job)
    BY <1>0, <1>1, <1>2, <1>t DEF FirstInv, PartsUsable
  <1>s. PICK s : s = Skipped
    OBVIOUS
  <1>d. PICK d : d = Dangling
    OBVIOUS
  <1>l. PICK l : l = Breaking("bom", "itself", 2, {key \in Range(parsed["bom"]) : key[1] = key[2]})
    OBVIOUS
  <1>4. /\ IsList(s) /\ Len(s) = UncheckedIn(job) /\ UncheckedIn(job) \in Nat
        /\ \A e \in Range(s) : e.why = "skipped"
    BY <1>0, <1>3, <1>s, SkippedIs
  <1>5. /\ IsList(d) /\ Len(d) = Cardinality(Absent(job)) /\ IsFiniteSet(Absent(job))
        /\ \A e \in Range(d) : e.why = "unknown" /\ IntactIn(job) /\ e.value \notin SkusIn(job)
    BY <1>1, <1>2, <1>3, <1>d, DanglingIs
  <1>6. /\ IsList(l) /\ Len(l) = Cardinality(Looping(job))
        /\ \A e \in Range(l) : e.why = "itself"
    <2>w. PICK t, why, c : t = "bom" /\ why = "itself" /\ c = 2
      OBVIOUS
    <2>k. PICK keys : keys = {key \in Range(parsed["bom"]) : key[1] = key[2]}
      OBVIOUS
    <2>1. l = Breaking(t, why, c, keys) /\ t \in Table /\ KeysAre(parsed[t], AllKeys(job, t))
      BY <1>2, <1>t, <1>l, <2>w, <2>k
    <2> QED
      BY <1>1, <2>1, <2>w, <2>k, LoopingIs
  <1>p. PICK p : p = s \o d
    OBVIOUS
  <1>7. IsList(p) /\ Len(p) = Len(s) + Len(d) /\ \A e \in Range(p) : e \in Range(s) \/ e \in Range(d)
    BY <1>4, <1>5, <1>p, Joined
  <1>q. PICK q : q = p \o l
    OBVIOUS
  <1>8. IsList(q) /\ Len(q) = Len(p) + Len(l) /\ \A e \in Range(q) : e \in Range(p) \/ e \in Range(l)
    BY <1>6, <1>7, <1>q, Joined
  <1>9. Add(q)
    BY <1>s, <1>d, <1>l, <1>p, <1>q DEF CrossCheck
  <1>10. /\ LogTypes' /\ Len(log') + suppressed' = Len(log) + suppressed + Len(q)
         /\ Range(log') \subseteq Range(log) \cup Range(q)
    <2>1. q \in Seq(Range(q))
      BY <1>8 DEF IsList
    <2> QED
      BY <1>1, <1>9, <2>1, AddCounts, Zenon
  <1>11. \A e \in Range(q) : Truthful(job, e)
    <2> SUFFICES ASSUME NEW e \in Range(q) PROVE Truthful(job, e)
      OBVIOUS
    <2>1. CASE e.why \in {"skipped", "itself"}
      BY <2>1 DEF Truthful
    <2>2. CASE e.why = "unknown" /\ IntactIn(job) /\ e.value \notin SkusIn(job)
      <3>1. \A i \in InFile(job, "parts") : KeyIn(job, "parts", i)[1] \in SkusIn(job)
        BY <2>2 DEF IntactIn, SkusIn
      <3> QED
        BY <2>2, <3>1 DEF Truthful
    <2> QED
      BY <1>4, <1>5, <1>6, <1>7, <1>8, <2>1, <2>2
  <1>12. LogInv'
    BY <1>0, <1>1, <1>10, <1>11 DEF LogInv
  <1>13. StageInv'
    BY <1>0, <1>1 DEF StageInv, Directory
  <1>14. Past' = Table /\ Been' = Been
    <2>1. Past' = Table
      BY <1>0 DEF Past
    <2>2. \A x \in RowsIn(job) : x[1] \in Table
      BY DEF RowsIn
    <2>3. Been' = {x \in RowsIn(job) : x[1] \in Past' \/ (pc' = "rows" /\ x[1] = Now' /\ x[2] < line')}
      BY <1>0 DEF Been
    <2> QED
      BY <1>2, <2>1, <2>2, <2>3
  <1>15. ParsedInv'
    BY <1>0, <1>1, <1>14, ParsedKept
  <1>16. SeenInv' /\ CountInv'
    BY <1>0 DEF SeenInv, CountInv
  <1>17. FirstInv'
    BY <1>0, <1>1, <1>2, <1>14, <1>t DEF FirstInv, Directory
  <1>18. EndInv'
    <2>1. ~Nothing'
      BY <1>0 DEF Nothing
    <2>M. PICK M : M = Marked(job, RowsIn(job))
      OBVIOUS
    <2>2. IsFiniteSet(M) /\ Cardinality(M) \in Nat
          /\ Len(log) + suppressed = Cardinality(M) + Cardinality(Headless(job, Table))
      BY <1>1, <1>2, <2>M, FS_CardinalityType DEF CountIs
    <2>3. IsDirectory(job)
      BY <1>0 DEF Directory, IsDirectory
    <2>4. FaultsIn(job) = (M \cup Absent(job)) \cup Itself(job)
      BY <2>3, <2>M DEF FaultsIn
    <2>5. /\ IsFiniteSet(FaultsIn(job))
          /\ Cardinality(FaultsIn(job)) = Cardinality(M) + Cardinality(Absent(job)) + Cardinality(Itself(job))
      BY <1>1, <1>5, <2>2, <2>4, <2>M, AllFaultsCount
    <2>6. Cardinality(Itself(job)) = Cardinality(Looping(job))
      BY <1>1, ItselfCount
    <2>7. Cardinality(Headless(job, Table)) \in Nat /\ Cardinality(Absent(job)) \in Nat
      BY <1>1, <1>5, HeadersAreFinite, FS_CardinalityType
    <2>8. Len(q) = UncheckedIn(job) + Cardinality(Absent(job)) + Cardinality(Itself(job))
      BY <1>4, <1>5, <1>6, <1>7, <1>8, <2>6
    <2>9. Cardinality(Itself(job)) \in Nat
      BY <1>1, ItselfCount, FS_CardinalityType
    <2>10. Len(log') + suppressed'
             = Cardinality(FaultsIn(job)) + Cardinality(Headless(job, Table)) + UncheckedIn(job)
      BY <1>4, <1>10, <2>2, <2>5, <2>7, <2>8, <2>9
    <2> QED
      BY <1>0, <2>1, <2>5, <2>10 DEF EndInv
  <1>19. WrittenInv'
    BY <1>0 DEF IInv, WrittenInv
  <1> QED
    BY <1>12, <1>13, <1>15, <1>16, <1>17, <1>18, <1>19 DEF IInv

LEMMA EndStep ==
    ASSUME IInv, NothingFound \/ Decide
    PROVE  IInv'
  <1>0. /\ pc \in {"compare", "decide"} /\ pc' = "done"
        /\ UNCHANGED <<job, at, line, seen, parsed, log, suppressed, before, clean>>
        /\ pc = "compare" => Directory /\ Nothing /\ written' = written
        /\ pc = "decide" => Decide
    BY DEF NothingFound, Decide, IInv, StageInv
  <1>1. StageInv /\ LogInv /\ ParsedInv /\ FirstInv /\ EndInv /\ WrittenInv
    BY DEF IInv
  <1>2. StageInv'
    BY <1>0, <1>1 DEF StageInv
  <1>3. LogInv'
    BY <1>0, <1>1, LogKept
  <1>4. Past' = Table /\ Past = Table /\ Been' = Been
    <2>1. Past' = Table /\ Past = Table
      BY <1>0 DEF Past
    <2>2. \A x \in RowsIn(job) : x[1] \in Table
      BY DEF RowsIn
    <2>3. Been' = {x \in RowsIn(job) : x[1] \in Past' \/ (pc' = "rows" /\ x[1] = Now' /\ x[2] < line')}
      BY <1>0 DEF Been
    <2>4. Been = {x \in RowsIn(job) : x[1] \in Past \/ (pc = "rows" /\ x[1] = Now /\ x[2] < line)}
      BY DEF Been
    <2> QED
      BY <2>1, <2>2, <2>3, <2>4
  <1>5. ParsedInv'
    BY <1>0, <1>1, <1>4, ParsedKept
  <1>6. SeenInv' /\ CountInv'
    BY <1>0 DEF SeenInv, CountInv
  <1>7. FirstInv'
    BY <1>0, <1>1, <1>4, Tables DEF FirstInv, Directory
  <1>8. Nothing' = Nothing /\ Sound' = Sound
    BY <1>0 DEF Nothing, Sound, Directory, File, Now
  <1>9. EndInv'
    BY <1>0, <1>1, <1>8 DEF EndInv
  <1>10. WrittenInv'
    <2>1. CASE pc = "compare"
      <3>1. written = {}
        BY <1>1, <2>1 DEF WrittenInv
      <3> QED
        BY <1>0, <1>8, <2>1, <3>1 DEF WrittenInv
    <2>2. CASE pc = "decide"
      <3>1. ~Nothing
        BY <1>1, <2>2 DEF EndInv
      <3>2. written' = IF Sound /\ job.kind \in {"import", "commit"} THEN Range(parsed["history"]) ELSE {}
        BY <1>0, <2>2 DEF Decide
      <3> QED
        BY <1>0, <1>8, <3>1, <3>2 DEF WrittenInv
    <2> QED
      BY <1>0, <2>1, <2>2
  <1> QED
    BY <1>2, <1>3, <1>5, <1>6, <1>7, <1>9, <1>10 DEF IInv

LEMMA StutterStep ==
    ASSUME IInv, UNCHANGED vars
    PROVE  IInv'
  <1>0. UNCHANGED <<job, pc, at, line, seen, parsed, log, suppressed, before, clean, written>>
    BY DEF vars
  <1>1. Now' = Now /\ Past' = Past /\ Directory' = Directory /\ Nothing' = Nothing /\ Sound' = Sound
    BY <1>0 DEF Now, Past, Directory, Nothing, Sound, File
  <1>2. Been' = Been
    BY <1>0, <1>1 DEF Been
  <1>3. StageInv' /\ LogInv' /\ FirstInv' /\ WrittenInv'
    BY <1>0, <1>1 DEF IInv, StageInv, LogInv, LogTypes, FirstInv, WrittenInv, File
  <1>4. CountInv' /\ ParsedInv'
    BY <1>0, <1>1, <1>2 DEF IInv, CountInv, CountIs, ParsedInv
  <1>5. SeenInv'
    BY <1>0, <1>1 DEF IInv, SeenInv
  <1>6. EndInv'
    BY <1>0, <1>1 DEF IInv, EndInv
  <1> QED
    BY <1>3, <1>4, <1>5, <1>6 DEF IInv

LEMMA InvStep ==
    ASSUME IInv, [Next]_vars
    PROVE  IInv'
  BY TableStep, ReadStep, CrossCheckStep, EndStep, StutterStep DEF Next

LEMMA JobIsJob ==
    ASSUME Init
    PROVE  IsJob(job)
  <1>0. /\ \A t \in Table : Files[t] \subseteq Sheet
        /\ \A t \in Table : \A s \in Files[t] : s.format # "grid" /\ s.head # "unmapped"
        /\ Grids \subseteq Sheet
    BY FileAssumption
  <1>1. {"parts", "bom", "routings", "fleet", "history"} = Table
    BY Tables
  <1>2. NoFile \in Sheet
    <2>1. <<>> \in Seq(Row)
      OBVIOUS
    <2> QED
      BY <2>1 DEF NoFile, Sheet
  <1>3. ASSUME NEW kind \in {"check", "import"}, NEW a \in Files["parts"], NEW b \in Files["bom"],
               NEW c \in Files["routings"], NEW d \in Files["fleet"], NEW e \in Files["history"],
               job = [kind |-> kind, table |-> "parts", header |-> 1, sheets |->
                        [parts |-> a, bom |-> b, routings |-> c, fleet |-> d, history |-> e]]
        PROVE  IsJob(job)
    <2>1. job.kind = kind /\ job.table = "parts" /\ job.header = 1
      BY <1>3
    <2>2. /\ Sheets(job, "parts") = a /\ Sheets(job, "bom") = b /\ Sheets(job, "routings") = c
          /\ Sheets(job, "fleet") = d /\ Sheets(job, "history") = e
      BY <1>3 DEF Sheets
    <2>3. \A t \in Table : Sheets(job, t) \in Files[t]
      BY <1>1, <2>2
    <2>4. \A t \in Table : Sheets(job, t) \in Sheet /\ Sheets(job, t).format # "grid"
                              /\ Sheets(job, t).head # "unmapped"
      BY <1>0, <2>3
    <2> QED
      BY <1>1, <2>1, <2>4 DEF IsJob
  <1>4. ASSUME NEW kind \in {"preview", "commit"}, NEW table \in Table, NEW header \in HeaderRow, NEW grid \in Grids,
               job = [kind |-> kind, table |-> table, header |-> header,
                      sheets |-> [t \in Table |-> IF t = table THEN grid ELSE NoFile]]
        PROVE  IsJob(job)
    <2>1. job.kind = kind /\ job.table = table /\ job.header = header
      BY <1>4
    <2>2. \A t \in Table : Sheets(job, t) = IF t = table THEN grid ELSE NoFile
      BY <1>4 DEF Sheets
    <2>3. header \in Nat
      BY DEF HeaderRow
    <2>4. \A t \in Table : Sheets(job, t) \in Sheet
      BY <1>0, <1>2, <2>2
    <2> QED
      BY <2>1, <2>2, <2>3, <2>4 DEF IsJob
  <1> QED
    BY <1>3, <1>4 DEF Init

LEMMA InitInv ==
    ASSUME Init
    PROVE  IInv
  <1>0. /\ pc = "open" /\ at = 1 /\ line = 1 /\ parsed = [table \in Table |-> <<>>] /\ log = <<>>
        /\ suppressed = 0 /\ clean = {} /\ written = {}
    BY DEF Init
  <1>1. IsJob(job)
    BY JobIsJob
  <1>2. StageInv
    BY <1>0, <1>1 DEF StageInv
  <1>3. \A t \in Past : ~Directory /\ t # job.table
    <2>1. 1..(at - 1) = {}
      BY <1>0
    <2> QED
      BY <1>0, <2>1 DEF Past
  <1>4. \A t \in Past : Sheets(job, t).head = "absent"
    <2>1. \A t \in Past : t \in Table /\ Sheets(job, t) = NoFile
      BY <1>1, <1>3 DEF IsJob, Directory, Past
    <2> QED
      BY <2>1 DEF NoFile
  <1>5. Been = {}
    <2>1. \A x \in RowsIn(job) : x[2] \in InFile(job, x[1])
      BY DEF RowsIn
    <2>2. \A x \in RowsIn(job) : Sheets(job, x[1]).head = "fine"
      BY <2>1 DEF InFile
    <2>3. \A x \in RowsIn(job) : x[1] \notin Past
      BY <1>4, <2>2
    <2> QED
      BY <1>0, <2>3 DEF Been
  <1>6. Headless(job, Past) = {}
    BY <1>4 DEF Headless
  <1>7. IsList(log) /\ Len(log) = 0 /\ Range(log) = {}
    BY <1>0, EmptyIsList
  <1>8. LogInv
    BY <1>0, <1>7, SizeAssumption DEF LogInv, LogTypes, IsList
  <1>9. CountInv
    <2>1. Marked(job, Been) = {}
      BY <1>5 DEF Marked
    <2> QED
      BY <1>0, <1>6, <1>7, <2>1, FS_EmptySet DEF CountInv, CountIs
  <1>10. ParsedInv
    <2>e. PICK e : e = <<>>
      OBVIOUS
    <2>1. e \in Seq(Seq(Nat)) /\ DOMAIN e = {} /\ Range(e) = {}
      BY <2>e, EmptyIsList
    <2>2. parsed = [t \in Table |-> e]
      BY <1>0, <2>e
    <2>3. \A t \in Table : {KeyIn(job, t, i) : i \in GoodBeen(job, t, Been)} = {}
      BY <1>5 DEF GoodBeen
    <2>4. KeysAre(e, {})
      BY <2>1 DEF KeysAre
    <2> QED
      BY <2>1, <2>2, <2>3, <2>4 DEF ParsedInv
  <1>11. SeenInv /\ EndInv /\ WrittenInv
    BY <1>0 DEF SeenInv, EndInv, WrittenInv
  <1>12. FirstInv
    BY <1>0, <1>3 DEF FirstInv
  <1> QED
    BY <1>2, <1>8, <1>9, <1>10, <1>11, <1>12 DEF IInv

LEMMA InvHolds == Spec => []IInv
  <1>1. Init => IInv
    BY InitInv
  <1>2. IInv /\ [Next]_vars => IInv'
    BY InvStep
  <1> QED
    BY <1>1, <1>2, PTL DEF Spec

------------------------------------------------------------------------------
\* The faults counted are those there are.
LEMMA TotalIs ==
    ASSUME StageInv
    PROVE  Faults = FaultsIn(job) /\ NoHeader = Headless(job, Table) /\ Unchecked = UncheckedIn(job)
  <1>1. Directory <=> IsDirectory(job)
    BY DEF Directory, IsDirectory
  <1>2. Faults = FaultsIn(job)
    BY <1>1, FaultsAre DEF FaultsIn
  <1>3. NoHeader = Headless(job, Table)
    BY DEF NoHeader, Headless, Lacking, Sheets
  <1>4. Unchecked = UncheckedIn(job)
    BY <1>1, SkusAre DEF Unchecked, UncheckedIn
  <1> QED
    BY <1>2, <1>3, <1>4

LEMMA PhantomsAreNone ==
    ASSUME IInv
    PROVE  NoPhantomReferences
  <1>1. \A e \in Range(log) : Truthful(job, e)
    BY DEF IInv, LogInv
  <1>2. Read("parts") = InFile(job, "parts") /\ \A i : Key("parts", i) = KeyIn(job, "parts", i)
    BY InThisJob
  <1> QED
    BY <1>1, <1>2 DEF Truthful, NoPhantomReferences

LEMMA ProblemsAreReported ==
    ASSUME IInv
    PROVE  EveryProblemIsReported
  <1>1. StageInv /\ LogTypes /\ EndInv /\ \A e \in Range(log) : Truthful(job, e)
    BY DEF IInv, LogInv
  <1>2. pc = "done" /\ ~Nothing =>
          Len(log) + suppressed = Cardinality(Faults) + Cardinality(NoHeader) + Unchecked
    BY <1>1, TotalIs DEF EndInv
  <1>3. suppressed > 0 => Len(log) = Limit
    BY <1>1 DEF LogTypes
  <1>4. ASSUME NEW e \in Range(log), e.why \in {"cell", "duplicate"}, job.sheets[e.table].format # "csv",
               NEW i, i = e.row - job.header
        PROVE  /\ i \in Read(e.table)
               /\ \E f \in FaultsOf(e.table, i) : f[1] = e.why
               /\ e.why = "duplicate" => e.value - job.header \in Repeats(e.table, i)
    <2>t. PICK t : t = e.table
      OBVIOUS
    <2>1. /\ i \in InFile(job, t)
          /\ \E f \in RowFaults(job, t, i) : f[1] = e.why
          /\ e.why = "duplicate" => e.value - job.header \in Earlier(job, t, i)
      BY <1>1, <1>4, <2>t DEF Truthful, Sheets
    <2>2. Read(t) = InFile(job, t) /\ Repeats(t, i) = Earlier(job, t, i)
      BY InThisJob
    <2>3. RowFaults(job, t, i) \subseteq FaultsOf(t, i)
      BY FaultsOfAre
    <2> QED
      BY <2>t, <2>1, <2>2, <2>3
  <1> QED
    BY <1>2, <1>3, <1>4 DEF EveryProblemIsReported

LEMMA AllOrNothingHolds ==
    ASSUME IInv
    PROVE  AllOrNothing
  <1>1. StageInv /\ LogTypes /\ EndInv /\ ParsedInv /\ WrittenInv /\ IsJob(job)
    BY DEF IInv, LogInv, StageInv
  <1>f. PICK flawless \in BOOLEAN : flawless = (/\ Faults = {} /\ NoHeader = {} /\ Unchecked = 0
                    /\ \A table \in Table : job.sheets[table].head # "unmapped")
    OBVIOUS
  <1>t. {"parts", "history"} \subseteq Table
    BY Tables
  <1> SUFFICES ASSUME pc = "done"
               PROVE  written = IF flawless /\ job.kind \in {"import", "commit"}
                                THEN {Key("history", i) : i \in Read("history")} ELSE {}
    BY <1>f DEF AllOrNothing
  <1>2. CASE Nothing
    <2>1. written = {}
      BY <1>1, <1>2 DEF WrittenInv
    <2>2. Directory /\ job.sheets["parts"].head = "absent"
      BY <1>2, <1>t DEF Nothing, Directory
    <2>3. Unchecked # 0
      BY <2>2 DEF Unchecked, Intact
    <2>4. ~flawless
      BY <1>f, <2>3, Zenon
    <2> QED
      BY <2>1, <2>4
  <1>3. CASE ~Nothing
    <2>1. /\ IsFiniteSet(Faults)
          /\ Len(log) + suppressed = Cardinality(Faults) + Cardinality(NoHeader) + Unchecked
      BY <1>1, <1>3, TotalIs DEF EndInv
    <2>2. IsFiniteSet(NoHeader) /\ Unchecked \in {0, 1}
      BY <1>1, TotalIs, HeadersAreFinite DEF Unchecked
    <2>3. /\ Cardinality(Faults) \in Nat /\ Cardinality(NoHeader) \in Nat
          /\ Cardinality(Faults) = 0 <=> Faults = {}
          /\ Cardinality(NoHeader) = 0 <=> NoHeader = {}
      BY <2>1, <2>2, FS_EmptySet, FS_CardinalityType
    <2>4. log = <<>> <=> Len(log) + suppressed = 0
      BY <1>1, LogIsEmpty
    <2>5. log = <<>> <=> Faults = {} /\ NoHeader = {} /\ Unchecked = 0
      <3>1. PICK a \in Nat, b \in Nat : a = Cardinality(Faults) /\ b = Cardinality(NoHeader)
        BY <2>3
      <3>u. PICK u \in {0, 1} : u = Unchecked
        BY <2>2
      <3>2. Len(log) + suppressed = a + b + u
        BY <2>1, <3>1, <3>u
      <3>3. a + b + u = 0 <=> a = 0 /\ b = 0 /\ u = 0
        OBVIOUS
      <3>4. log = <<>> <=> a = 0 /\ b = 0 /\ u = 0
        BY <2>4, <3>2, <3>3
      <3> QED
        BY <2>3, <3>1, <3>4, <3>u
    <2>6. Directory \/ File.head # "unmapped" <=> \A table \in Table : job.sheets[table].head # "unmapped"
      <3>1. CASE Directory
        BY <1>1, <3>1 DEF IsJob, Directory, Sheets
      <3>2. CASE ~Directory
        <4>1. File = job.sheets[job.table] /\ job.table \in Table
          BY <1>1, <3>2 DEF File, Now, IsJob
        <4>2. \A t \in Table : t # job.table => job.sheets[t].head = "absent"
          BY <1>1, <3>2 DEF IsJob, Directory, Sheets, NoFile
        <4> QED
          BY <3>2, <4>1, <4>2
      <3> QED
        BY <3>1, <3>2
    <2>7. Sound <=> flawless
      BY <1>f, <2>5, <2>6 DEF Sound
    <2>8. written = IF flawless /\ job.kind \in {"import", "commit"} THEN Range(parsed["history"]) ELSE {}
      BY <1>1, <1>3, <2>7 DEF WrittenInv
    <2>9. flawless => Range(parsed["history"]) = {Key("history", i) : i \in Read("history")}
      <3> SUFFICES ASSUME flawless PROVE Range(parsed["history"]) = {Key("history", i) : i \in Read("history")}
        OBVIOUS
      <3>P. PICK P : P = {x \in RowsIn(job) : x[1] = "history"}
        OBVIOUS
      <3>1. Marked(job, RowsIn(job)) = {}
        BY <1>1, <1>f, FaultsAre
      <3>2. Marked(job, P) = {}
        BY <3>1, <3>P DEF Marked
      <3>3. Good(job, "history") = InFile(job, "history")
        BY <1>1, <1>t, <3>2, <3>P, FaultlessTable
      <3>4. KeysAre(parsed["history"], AllKeys(job, "history"))
        BY <1>1, <1>t, AllIsBeen
      <3>5. Range(parsed["history"]) = {KeyIn(job, "history", i) : i \in InFile(job, "history")}
        BY <3>3, <3>4 DEF KeysAre, AllKeys
      <3>6. Read("history") = InFile(job, "history") /\ \A i : Key("history", i) = KeyIn(job, "history", i)
        BY InThisJob
      <3> QED
        BY <3>5, <3>6
    <2> QED
      BY <2>8, <2>9
  <1> QED
    BY <1>2, <1>3

\* All of the history read or none of it becomes facts, and none exactly if something
\* is wrong anywhere in the job (Decide and what leads to it), for files of any size,
\* any limit of the log and any number of rows read.
THEOREM ImportIsAllOrNothing == Spec => []AllOrNothing
  <1>1. IInv => AllOrNothing
    BY AllOrNothingHolds
  <1> QED
    BY <1>1, InvHolds, PTL

\* Every fault is listed or counted, once, and one listed for a row is a fault of the
\* row the spreadsheet shows under that number (ErrorLog.add at each place a row, a
\* header or a reference is refused).
THEOREM ProblemsAreAlwaysReported == Spec => []EveryProblemIsReported
  <1>1. IInv => EveryProblemIsReported
    BY ProblemsAreReported
  <1> QED
    BY <1>1, InvHolds, PTL

\* A part that is anywhere in the part master is never reported missing from it
\* (validate_cross_references, which compares with a clean part master only).
THEOREM PhantomsAreNeverReported == Spec => []NoPhantomReferences
  <1>1. IInv => NoPhantomReferences
    BY PhantomsAreNone
  <1> QED
    BY <1>1, InvHolds, PTL

------------------------------------------------------------------------------
(***************************************************************************)
(* The haul plan.                                                          *)
(***************************************************************************)

\* What is busy is what is assigned, and no trip is assigned twice.
BusyInv ==
    /\ busy = {<<a[2], trips[a[1]].bucket>> : a \in assigned}
    /\ \A a, b \in assigned : a[1] = b[1] => a = b

\* The trips handled come before those that are not.
OrderInv == \A j \in Handled, k \in Remaining : Before(j, k)

HaulInv ==
    /\ TypeOK
    /\ BusyInv
    /\ OrderInv
    /\ OneTripPerBucket
    /\ LongHaulsComeFirst

LEMMA InitHaulInv == HaulInit => HaulInv
  <1> SUFFICES ASSUME HaulInit PROVE HaulInv
    OBVIOUS
  <1>1. TypeOK
    BY DEF HaulInit, TypeOK, NoFlow, Flow
  <1>2. BusyInv /\ OrderInv /\ OneTripPerBucket /\ LongHaulsComeFirst
    BY DEF HaulInit, BusyInv, OrderInv, Handled, OneTripPerBucket, LongHaulsComeFirst
  <1> QED
    BY <1>1, <1>2 DEF HaulInv

\* A trip that is taken off the list leaves the order as it should be.
LEMMA OrderKept ==
    ASSUME OrderInv, NEW j \in Job, IsNext(j), Handled' = Handled \cup {j},
           UNCHANGED trips
    PROVE  OrderInv'
  BY DEF OrderInv, Remaining, IsNext, Before

LEMMA UnassignedStep ==
    ASSUME HaulInv, NEW j \in Job, LeaveUnassigned(j)
    PROVE  HaulInv'
  <1> USE DEF HaulInv
  <1>1. UNCHANGED <<trips, fleet, flows, busy, assigned, state>>
        /\ unassigned' = unassigned \cup {<<j, WhyInfeasible(j)>>}
    BY DEF LeaveUnassigned
  <1>2. WhyInfeasible(j) \in Reason
    BY DEF WhyInfeasible, Reason
  <1>3. TypeOK'
    BY <1>1, <1>2 DEF TypeOK
  <1>4. BusyInv' /\ OneTripPerBucket'
    BY <1>1 DEF BusyInv, OneTripPerBucket
  <1>5. OrderInv'
    <2> DEFINE p == <<j, WhyInfeasible(j)>>
    <2>1. {u[1] : u \in unassigned \cup {p}} = {u[1] : u \in unassigned} \cup {p[1]}
      <3> HIDE DEF p
      <3> QED OBVIOUS
    <2>2. Handled' = Handled \cup {j}
      BY <1>1, <2>1 DEF Handled
    <2> QED
      BY <1>1, <2>2, OrderKept DEF LeaveUnassigned
  <1>6. LongHaulsComeFirst'
    <2> SUFFICES ASSUME NEW u \in unassigned', trips[u[1]].longHaul,
                        NEW v \in Truck, Carries(v, u[1])
                 PROVE  \E a \in assigned :
                            /\ a[2] = v
                            /\ trips[a[1]].bucket = trips[u[1]].bucket
                            /\ trips[a[1]].longHaul
      BY <1>1 DEF LongHaulsComeFirst, Carries
    <2>1. CASE u \in unassigned
      BY <2>1 DEF LongHaulsComeFirst
    <2>2. CASE u[1] = j
      <3>1. <<v, trips[j].bucket>> \in busy
        BY <2>2 DEF LeaveUnassigned, Feasible
      <3>2. PICK a \in assigned : a[2] = v /\ trips[a[1]].bucket = trips[j].bucket
        BY <3>1 DEF BusyInv
      <3>3. a[1] \in Handled /\ j \in Remaining
        BY DEF Handled, LeaveUnassigned, IsNext
      <3>4. Before(a[1], j)
        BY <3>3 DEF OrderInv
      <3>5. trips[j].bucket \in Int
        BY InputAssumption DEF TypeOK, Bucket
      <3> QED
        BY <2>2, <3>2, <3>4, <3>5 DEF Before
    <2> QED
      BY <1>1, <2>1, <2>2
  <1> QED
    BY <1>3, <1>4, <1>5, <1>6

LEMMA AssignStep ==
    ASSUME HaulInv, NEW j \in Job, NEW v \in Truck, Assign(j, v)
    PROVE  HaulInv'
  <1> USE DEF HaulInv
  <1>1. /\ UNCHANGED <<trips, fleet, unassigned, state>>
        /\ flows' = Recorded(v, j)
        /\ busy' = busy \cup {<<v, trips[j].bucket>>}
        /\ assigned' = assigned \cup {<<j, v>>}
    BY DEF Assign
  <1>2. /\ trips[j] \in [bucket : Bucket, km : Nat, load : Nat, longHaul : BOOLEAN]
        /\ <<v, trips[j].bucket>> \in Truck \X Bucket
    BY InputAssumption DEF TypeOK
  <1>3. v \in Feasible(j) /\ IsNext(j)
    BY DEF Assign, FurthestBehind
  <1>4. TypeOK'
    <2>1. flows' \in [Truck \X Bucket -> Flow]
      <3>1. flows[<<v, trips[j].bucket>>] \in Flow
        BY <1>2 DEF TypeOK
      <3>2. [longHaul |-> IF trips[j].longHaul
                          THEN flows[<<v, trips[j].bucket>>].longHaul + trips[j].km
                          ELSE flows[<<v, trips[j].bucket>>].longHaul,
             total |-> flows[<<v, trips[j].bucket>>].total + trips[j].km,
             trips |-> flows[<<v, trips[j].bucket>>].trips + 1] \in Flow
        BY <1>2, <3>1 DEF Flow
      <3> QED
        BY <1>1, <3>2 DEF Recorded, TypeOK
    <2> QED
      BY <1>1, <1>2, <2>1 DEF TypeOK
  <1>5. \A a \in assigned : a[1] # j
    BY <1>3 DEF IsNext, Remaining, Handled
  <1>6. BusyInv'
    <2> DEFINE p == <<j, v>>
               out(a) == <<a[2], trips[a[1]].bucket>>
    <2>0. {out(a) : a \in assigned \cup {p}} = {out(a) : a \in assigned} \cup {out(p)}
      <3> HIDE DEF p, out
      <3> QED OBVIOUS
    <2>1. busy' = {<<a[2], trips[a[1]].bucket>> : a \in assigned'}
      BY <1>1, <2>0 DEF BusyInv
    <2>2. \A a, b \in assigned' : a[1] = b[1] => a = b
      BY <1>1, <1>5 DEF BusyInv
    <2> QED
      BY <1>1, <2>1, <2>2 DEF BusyInv
  <1>7. OneTripPerBucket'
    <2>1. \A a \in assigned : ~(a[2] = v /\ trips[a[1]].bucket = trips[j].bucket)
      BY <1>3 DEF Feasible, BusyInv
    <2> QED
      BY <1>1, <2>1 DEF OneTripPerBucket
  <1>8. OrderInv'
    <2> DEFINE p == <<j, v>>
    <2>1. {a[1] : a \in assigned \cup {p}} = {a[1] : a \in assigned} \cup {p[1]}
      <3> HIDE DEF p
      <3> QED OBVIOUS
    <2>2. Handled' = Handled \cup {j}
      BY <1>1, <2>1 DEF Handled
    <2> QED
      BY <1>1, <1>3, <2>2, OrderKept
  <1>9. LongHaulsComeFirst'
    BY <1>1 DEF LongHaulsComeFirst, Carries
  <1> QED
    BY <1>4, <1>6, <1>7, <1>8, <1>9

LEMMA NextHaulInv == HaulInv /\ [HaulNext]_haulVars => HaulInv'
  <1> SUFFICES ASSUME HaulInv, [HaulNext]_haulVars PROVE HaulInv'
    OBVIOUS
  <1>1. ASSUME UNCHANGED <<trips, fleet, flows, busy, assigned, unassigned>>,
               state' \in {"running", "done", "key_error"}
        PROVE  HaulInv'
    BY <1>1 DEF HaulInv, TypeOK, BusyInv, OrderInv, Handled, Remaining, Before,
                OneTripPerBucket, LongHaulsComeFirst, Carries
  <1>2. CASE \E j \in Job : LeaveUnassigned(j)
    BY <1>2, UnassignedStep
  <1>3. CASE \E j \in Job : RaiseKeyError(j)
    BY <1>1, <1>3 DEF RaiseKeyError
  <1>4. CASE \E j \in Job, v \in Truck : Assign(j, v)
    BY <1>4, AssignStep
  <1>5. CASE Finish
    BY <1>1, <1>5 DEF Finish
  <1>6. CASE UNCHANGED haulVars
    BY <1>1, <1>6 DEF haulVars, HaulInv, TypeOK
  <1> QED
    BY <1>2, <1>3, <1>4, <1>5, <1>6 DEF HaulNext

\* The ledger, the busy trucks and both lists of trips keep their types.
THEOREM HaulTypeCorrect == HaulSpec => []TypeOK
  <1>1. HaulInv => TypeOK
    BY DEF HaulInv
  <1> QED
    BY InitHaulInv, NextHaulInv, <1>1, PTL DEF HaulSpec

\* No truck is ever sent on two trips of one bucket.
THEOREM NoTruckInTwoPlaces == HaulSpec => []OneTripPerBucket
  <1>1. HaulInv => OneTripPerBucket
    BY DEF HaulInv
  <1> QED
    BY InitHaulInv, NextHaulInv, <1>1, PTL DEF HaulSpec

\* A long haul goes without a truck only when long hauls have all of them.
THEOREM LongHaulsHaveFirstClaim == HaulSpec => []LongHaulsComeFirst
  <1>1. HaulInv => LongHaulsComeFirst
    BY DEF HaulInv
  <1> QED
    BY InitHaulInv, NextHaulInv, <1>1, PTL DEF HaulSpec

------------------------------------------------------------------------------
(***************************************************************************)
(* Water-filling: no way to hand out the same work is fairer.              *)
(***************************************************************************)
\* A finite set of trucks with levels has a lowest one.
LEMMA Lowest ==
    ASSUME NEW S, S # {}, NEW km, NatOn(km, S)
    PROVE  \E v \in S : \A w \in S : km[v] <= km[w]
<1> DEFINE L == {km[v] : v \in S}
<1>1. L \in SUBSET Nat /\ L # {}
  BY DEF NatOn
<1> HIDE DEF L
<1> PICK n \in L : \A m \in L : n <= m
  BY <1>1, LeastNat
<1> QED
  BY DEF L

\* The work it takes is a number, more for those ahead and nothing for the last.
LEMMA ToLiftGrows ==
    ASSUME NEW D, IsFiniteSet(D), NEW o \in [D -> Nat], NEW v \in D
    PROVE  /\ ToLift(o, v) \in Nat
           /\ \A w \in D : o[w] <= o[v] => ToLift(o, w) <= ToLift(o, v)
           /\ (\A w \in D : o[v] <= o[w]) => ToLift(o, v) = 0
<1> DEFINE f(u) == [w \in D |-> IF o[w] < o[u] THEN o[u] - o[w] ELSE 0]
<1>1. \A u \in D : ToLift(o, u) = SumFunctionOnSet(f(u), D)
  BY DEF ToLift, SumFunction
<1>2. \A u \in D : NatOn(f(u), D) /\ IntOn(f(u), D)
  BY DEF NatOn, IntOn
<1>3. ASSUME NEW w \in D, o[w] <= o[v]
      PROVE  \A x \in D : f(w)[x] <= f(v)[x]
  BY <1>3
<1>4. ASSUME \A w \in D : o[v] <= o[w]
      PROVE  \A x \in D : f(v)[x] = 0
  BY <1>4
<1> HIDE DEF f
<1>5. ToLift(o, v) \in Nat
  BY <1>1, <1>2, SumInt
<1>6. ASSUME NEW w \in D, o[w] <= o[v]
      PROVE  ToLift(o, w) <= ToLift(o, v)
  <2> PICK g, h : g = f(w) /\ h = f(v)
    OBVIOUS
  <2>1. IntOn(g, D) /\ IntOn(h, D) /\ \A x \in D : g[x] <= h[x]
    BY <1>2, <1>3, <1>6
  <2>2. SumFunctionOnSet(g, D) <= SumFunctionOnSet(h, D)
    BY <2>1, SumMonotone
  <2> QED
    BY <1>1, <2>2
<1>7. ASSUME \A w \in D : o[v] <= o[w]
      PROVE  ToLift(o, v) = 0
  <2> PICK g : g = f(v)
    OBVIOUS
  <2>1. \A x \in D : g[x] = 0
    BY <1>4, <1>7
  <2>2. SumFunctionOnSet(g, D) = 0
    BY <2>1, SumOfZeros
  <2> QED
    BY <1>1, <2>2
<1> QED
  BY <1>5, <1>6, <1>7

\* Somebody is levelled, and nobody who is not is below the common level.
LEMMA CommonLevel ==
    ASSUME NEW D, IsFiniteSet(D), D # {}, NEW o \in [D -> Nat], NEW work \in Nat,
           NEW low, low = Levelled(o, work)
    PROVE  /\ low \subseteq D /\ IsFiniteSet(low)
           /\ Cardinality(low) \in Nat /\ Cardinality(low) > 0
           /\ SumFunctionOnSet(o, low) \in Nat
           /\ \A v \in D \ low :
                 SumFunctionOnSet(o, low) + work <= Cardinality(low) * o[v]
<1>1. low = {v \in D : work >= ToLift(o, v)}
  BY DEF Levelled
<1>2. low \subseteq D /\ IsFiniteSet(low)
  BY <1>1, FS_Subset
<1>3. low # {}
  <2>1. NatOn(o, D)
    BY DEF NatOn
  <2> PICK v \in D : \A w \in D : o[v] <= o[w]
    BY <2>1, Lowest
  <2>2. ToLift(o, v) = 0
    BY ToLiftGrows
  <2> QED
    BY <1>1, <2>2
<1>4. Cardinality(low) \in Nat /\ Cardinality(low) > 0
  BY <1>2, <1>3, FS_CardinalityType, FS_EmptySet
<1>5. NatOn(o, low) /\ IntOn(o, low)
  BY <1>2 DEF NatOn, IntOn
<1>6. SumFunctionOnSet(o, low) \in Nat
  BY <1>2, <1>5, SumInt
<1>7. ASSUME NEW v \in D \ low
      PROVE  SumFunctionOnSet(o, low) + work <= Cardinality(low) * o[v]
  <2>1. D \ low # {} /\ NatOn(o, D \ low)
    BY <1>7 DEF NatOn
  <2> PICK u \in D \ low : \A w \in D \ low : o[u] <= o[w]
    BY <2>1, Lowest
  <2>2. work < ToLift(o, u) /\ ToLift(o, u) \in Nat
    BY <1>1, ToLiftGrows
  <2>3. \A w \in low : o[w] < o[u]
    <3> SUFFICES ASSUME NEW w \in low, o[u] <= o[w] PROVE FALSE
      BY <1>2
    <3>1. ToLift(o, u) <= ToLift(o, w) /\ ToLift(o, w) \in Nat /\ work >= ToLift(o, w)
      BY <1>1, ToLiftGrows
    <3> QED
      BY <2>2, <3>1
  <2> DEFINE f == [w \in D |-> IF o[w] < o[u] THEN o[u] - o[w] ELSE 0]
             minus == [w \in D |-> (-1) * o[w]]
             all == [w \in D |-> o[u]]
  <2>4. ToLift(o, u) = SumFunctionOnSet(f, D)
    BY DEF ToLift, SumFunction
  <2>5. /\ IntOn(f, D) /\ IntOn(f, low) /\ IntOn(minus, low) /\ IntOn(all, low)
        /\ \A w \in low : f[w] = all[w] + minus[w] /\ all[w] = o[u] /\ minus[w] = (-1) * o[w]
        /\ \A w \in D \ low : f[w] = 0
    BY <1>2, <2>3 DEF IntOn
  <2> HIDE DEF f, minus, all
  <2>6. SumFunctionOnSet(f, D) = SumFunctionOnSet(f, low)
    <3> PICK R : R = D \ low
      OBVIOUS
    <3>1. IsFiniteSet(R) /\ low \cup R = D /\ low \cap R = {} /\ \A w \in R : f[w] = 0
      BY <1>2, <2>5, FS_Subset
    <3>2. SumFunctionOnSet(f, D) = SumFunctionOnSet(f, low) + SumFunctionOnSet(f, R)
      BY <1>2, <2>5, <3>1, SumUnion
    <3>3. SumFunctionOnSet(f, R) = 0
      BY <3>1, SumOfZeros
    <3>4. SumFunctionOnSet(f, low) \in Int
      BY <1>2, <2>5, SumInt
    <3> QED
      BY <3>2, <3>3, <3>4
  <2>7. SumFunctionOnSet(f, low) = SumFunctionOnSet(all, low) + SumFunctionOnSet(minus, low)
    BY <1>2, <2>5, SumPlus
  <2>8. SumFunctionOnSet(all, low) = o[u] * Cardinality(low)
    BY <1>2, <2>5, SumOfConstant
  <2>9. SumFunctionOnSet(minus, low) = (-1) * SumFunctionOnSet(o, low)
    <3> PICK k \in Int : k = -1
      OBVIOUS
    <3>1. \A w \in low : minus[w] = k * o[w]
      BY <2>5
    <3>2. SumFunctionOnSet(minus, low) = k * SumFunctionOnSet(o, low)
      BY <1>2, <1>5, <3>1, SumScale
    <3> QED
      BY <3>2
  <2> PICK c \in Nat, s \in Nat, x \in Nat, y \in Nat, z \in Nat :
         /\ c = Cardinality(low) /\ s = SumFunctionOnSet(o, low) /\ x = o[u] /\ y = o[v]
         /\ z = ToLift(o, u)
    BY <1>4, <1>6, <2>2
  <2>10. z = x * c - s /\ work < z
    BY <2>2, <2>4, <2>6, <2>7, <2>8, <2>9
  <2>11. x <= y
    OBVIOUS
  <2>12. x * c <= c * y
    BY <2>11
  <2>13. s + work <= c * y
    BY <2>10, <2>12
  <2> QED
    BY <2>13
<1> QED
  BY <1>2, <1>4, <1>6, <1>7

\* Squares about a level.
LEMMA Square ==
    ASSUME NEW a \in Int, NEW y \in Int, NEW w \in Int, y = w \/ (y >= w /\ a >= y)
    PROVE  y * y + 2 * w * (a - y) <= a * a
<1>1. PICK d \in Int : d = a - y
  OBVIOUS
<1>2. a * a = y * y + 2 * (y * d) + d * d
  <2>1. a = y + d
    BY <1>1
  <2>2. (y + d) * (y + d) = y * y + 2 * (y * d) + d * d
    OBVIOUS
  <2> QED
    BY <2>1, <2>2
<1>3. d * d >= 0
  OBVIOUS
<1>4. w * d <= y * d
  <2>1. CASE y = w
    BY <2>1
  <2>2. CASE y >= w /\ a >= y
    <3>1. d >= 0
      BY <1>1, <2>2
    <3> QED
      BY <2>2, <3>1
  <2> QED
    BY <2>1, <2>2
<1>5. 2 * w * (a - y) = 2 * (w * d)
  <2>1. \A p, q \in Int : 2 * p * q = 2 * (p * q)
    OBVIOUS
  <2> QED
    BY <1>1, <2>1
<1> PICK A \in Int, Y \in Int, Z \in Int, E \in Int, F \in Int :
      A = a * a /\ Y = y * y /\ Z = y * d /\ E = d * d /\ F = w * d
  OBVIOUS
<1>6. Y + 2 * F <= A
  BY <1>2, <1>3, <1>4
<1> QED
  BY <1>5, <1>6

\* The hypotheses on the levels, named.
SquareOf(f, g, D) == \A v \in D : g[v] = f[v] * f[v]
Poured(o, work, low, n, y, D) ==
    /\ \A v \in low : y[v] = SumFunctionOnSet(o, low) + work
    /\ \A v \in D \ low : y[v] = n * o[v]
HandedOut(o, work, d, D) ==
    /\ \A v \in D : d[v] >= o[v]
    /\ SumFunctionOnSet(d, D) = SumFunctionOnSet(o, D) + work
Outcome(D, o, work, d, low, n, y, yy, dd) ==
    /\ IsFiniteSet(D) /\ D # {} /\ work \in Nat
    /\ {o, d, y, yy, dd} \subseteq [D -> Nat]
    /\ HandedOut(o, work, d, D)
    /\ low = Levelled(o, work)
    /\ n = Cardinality(low)
    /\ Poured(o, work, low, n, y, D)
    /\ SquareOf(y, yy, D) /\ SquareOf(d, dd, D)

\* What the levels come to, and their squares: no other way to hand out the same
\* work has smaller ones.
LEMMA WaterFilling ==
    ASSUME NEW D, NEW o, NEW work, NEW d, NEW low, NEW n, NEW y, NEW yy, NEW dd,
           Outcome(D, o, work, d, low, n, y, yy, dd)
    PROVE  /\ n \in Nat /\ n > 0
           /\ SumFunctionOnSet(y, D) = n * SumFunctionOnSet(d, D)
           /\ SumFunctionOnSet(yy, D) <= (n * n) * SumFunctionOnSet(dd, D)
<1>0. /\ IsFiniteSet(D) /\ D # {} /\ work \in Nat
      /\ o \in [D -> Nat] /\ d \in [D -> Nat] /\ y \in [D -> Nat]
      /\ yy \in [D -> Nat] /\ dd \in [D -> Nat]
      /\ low = Levelled(o, work)
      /\ n = Cardinality(low)
  BY DEF Outcome
<1>1. /\ low \subseteq D /\ IsFiniteSet(low) /\ n \in Nat /\ n > 0
      /\ SumFunctionOnSet(o, low) \in Nat
      /\ \A v \in D \ low : SumFunctionOnSet(o, low) + work <= n * o[v]
  <2>1. /\ low \subseteq D /\ IsFiniteSet(low)
        /\ Cardinality(low) \in Nat /\ Cardinality(low) > 0
        /\ SumFunctionOnSet(o, low) \in Nat
        /\ \A v \in D \ low :
              SumFunctionOnSet(o, low) + work <= Cardinality(low) * o[v]
    <3> PICK l : l = Levelled(o, work)
      OBVIOUS
    <3>1. IsFiniteSet(D) /\ D # {} /\ o \in [D -> Nat] /\ work \in Nat
      BY <1>0
    <3>2. /\ l \subseteq D /\ IsFiniteSet(l)
          /\ Cardinality(l) \in Nat /\ Cardinality(l) > 0
          /\ SumFunctionOnSet(o, l) \in Nat
          /\ \A v \in D \ l :
                SumFunctionOnSet(o, l) + work <= Cardinality(l) * o[v]
      BY <3>1, CommonLevel
    <3> QED
      BY <1>0, <3>2
  <2> QED
    BY <1>0, <2>1
<1> USE <1>0 DEF Outcome, HandedOut, Poured, SquareOf
<1> PICK R : R = D \ low
  OBVIOUS
<1> PICK k \in Nat, L \in Nat : k = SumFunctionOnSet(o, low) /\ L = k + work
  BY <1>1
<1>2. IsFiniteSet(R) /\ low \cup R = D /\ low \cap R = {}
  BY <1>1, FS_Subset
<1>3. /\ IntOn(o, low) /\ IntOn(o, R) /\ IntOn(o, D) /\ IntOn(y, D) /\ IntOn(y, R)
      /\ IntOn(d, D) /\ IntOn(yy, D) /\ IntOn(dd, D) /\ NatOn(o, R) /\ NatOn(y, D)
      /\ NatOn(dd, D) /\ NatOn(yy, D)
  BY <1>1, <1>2 DEF IntOn, NatOn
<1>4. SumFunctionOnSet(y, D) = n * SumFunctionOnSet(d, D)
  <2>1. SumFunctionOnSet(y, D) = SumFunctionOnSet(y, low) + SumFunctionOnSet(y, R)
    BY <1>1, <1>2, <1>3, SumUnion
  <2>2. SumFunctionOnSet(y, low) = L * n
    <3>1. \A v \in low : y[v] = L
      OBVIOUS
    <3> QED
      BY <1>1, <3>1, SumOfConstant
  <2>3. SumFunctionOnSet(y, R) = n * SumFunctionOnSet(o, R)
    <3>1. \A v \in R : y[v] = n * o[v]
      OBVIOUS
    <3> QED
      BY <1>1, <1>2, <1>3, <3>1, SumScale
  <2>4. SumFunctionOnSet(o, D) = k + SumFunctionOnSet(o, R)
    BY <1>1, <1>2, <1>3, SumUnion
  <2> PICK z \in Nat : z = SumFunctionOnSet(o, R)
    BY <1>2, <1>3, SumInt
  <2>5. SumFunctionOnSet(d, D) = (k + z) + work
    BY <2>4
  <2>6. L * n + n * z = n * ((k + z) + work)
    BY <1>1
  <2> QED
    BY <2>1, <2>2, <2>3, <2>5, <2>6
<1>5. SumFunctionOnSet(yy, D) <= (n * n) * SumFunctionOnSet(dd, D)
  <2> DEFINE gap == [v \in D |-> n * d[v] - y[v]]
             tilt == [v \in D |-> (2 * L) * gap[v]]
             tangent == [v \in D |-> yy[v] + tilt[v]]
             goal == [v \in D |-> (n * n) * dd[v]]
             nd == [v \in D |-> n * d[v]]
             minus == [v \in D |-> (-1) * y[v]]
  <2>1. SumFunctionOnSet(gap, D) = 0
    <3>1. /\ IntOn(nd, D) /\ IntOn(minus, D) /\ \A v \in D : gap[v] = nd[v] + minus[v]
          /\ (\A v \in D : nd[v] = n * d[v]) /\ \A v \in D : minus[v] = (-1) * y[v]
      BY <1>1 DEF IntOn
    <3> HIDE DEF gap, nd, minus
    <3>2. SumFunctionOnSet(gap, D) = SumFunctionOnSet(nd, D) + SumFunctionOnSet(minus, D)
      BY <3>1, SumPlus
    <3>3. SumFunctionOnSet(nd, D) = n * SumFunctionOnSet(d, D)
      BY <1>1, <1>3, <3>1, SumScale
    <3>4. SumFunctionOnSet(minus, D) = (-1) * SumFunctionOnSet(y, D)
      <4> PICK m \in Int : m = -1
        OBVIOUS
      <4>1. \A v \in D : minus[v] = m * y[v]
        BY <3>1
      <4>2. SumFunctionOnSet(minus, D) = m * SumFunctionOnSet(y, D)
        BY <1>3, <4>1, SumScale
      <4> QED
        BY <4>2
    <3> PICK x \in Nat : x = SumFunctionOnSet(y, D)
      BY <1>3, SumInt
    <3> QED
      BY <1>4, <3>2, <3>3, <3>4
  <2>2. IntOn(gap, D) /\ IntOn(tilt, D) /\ IntOn(tangent, D) /\ IntOn(goal, D)
    BY <1>1 DEF IntOn
  <2>3. \A v \in D : tangent[v] <= goal[v]
    <3> SUFFICES ASSUME NEW v \in D PROVE tangent[v] <= goal[v]
      OBVIOUS
    <3> PICK a \in Nat, b \in Nat : a = n * d[v] /\ b = y[v]
      BY <1>1
    <3>1. b = L \/ (b >= L /\ a >= b)
      <4>1. CASE v \in low
        BY <4>1
      <4>2. CASE v \notin low
        <5>1. b = n * o[v] /\ L <= n * o[v]
          BY <1>1, <4>2
        <5>2. n * o[v] <= n * d[v]
          BY <1>1
        <5> QED
          BY <5>1, <5>2
      <4> QED
        BY <4>1, <4>2
    <3>2. b * b + 2 * L * (a - b) <= a * a
      <4>1. a \in Int /\ b \in Int /\ L \in Int
        OBVIOUS
      <4> QED
        BY <3>1, <4>1, Square, Zenon
    <3>3. tangent[v] = b * b + (2 * L) * (a - b)
      OBVIOUS
    <3>4. goal[v] = a * a
      <4> PICK x \in Nat : x = d[v]
        OBVIOUS
      <4>1. (n * n) * (x * x) = (n * x) * (n * x)
        BY <1>1
      <4>2. goal[v] = (n * n) * (x * x)
        OBVIOUS
      <4> QED
        BY <4>1, <4>2
    <3> QED
      BY <3>2, <3>3, <3>4
  <2>4. /\ \A v \in D : tilt[v] = (2 * L) * gap[v]
        /\ \A v \in D : tangent[v] = yy[v] + tilt[v]
        /\ \A v \in D : goal[v] = (n * n) * dd[v]
    OBVIOUS
  <2> HIDE DEF gap, tilt, tangent, goal, nd, minus
  <2>5. SumFunctionOnSet(tangent, D) <= SumFunctionOnSet(goal, D)
    BY <2>2, <2>3, SumMonotone
  <2>6. SumFunctionOnSet(tilt, D) = (2 * L) * SumFunctionOnSet(gap, D)
    <3> PICK c \in Int : c = 2 * L
      OBVIOUS
    <3>1. \A v \in D : tilt[v] = c * gap[v]
      BY <2>4
    <3> QED
      BY <2>2, <3>1, SumScale
  <2>7. SumFunctionOnSet(tangent, D) = SumFunctionOnSet(yy, D) + SumFunctionOnSet(tilt, D)
    BY <1>3, <2>2, <2>4, SumPlus
  <2>8. SumFunctionOnSet(goal, D) = (n * n) * SumFunctionOnSet(dd, D)
    <3> PICK c \in Int : c = n * n
      BY <1>1
    <3>1. \A v \in D : goal[v] = c * dd[v]
      BY <2>4
    <3> QED
      BY <1>3, <3>1, SumScale
  <2>9. (2 * L) * 0 = 0
    OBVIOUS
  <2> PICK p \in Nat : p = SumFunctionOnSet(yy, D)
    BY <1>3, SumInt
  <2> QED
    BY <2>1, <2>5, <2>6, <2>7, <2>8, <2>9
<1> QED
  BY <1>1, <1>4, <1>5


\* The index of a distribution, in sums over its trucks.
LEMMA JainSums ==
    ASSUME NEW D, IsFiniteSet(D), NEW d \in [D -> Nat],
           NEW dd, dd = [v \in D |-> d[v] * d[v]]
    PROVE  /\ SumFunctionOnSet(d, D) \in Nat /\ SumFunctionOnSet(dd, D) \in Nat
           /\ SumFunctionOnSet(d, D) = 0 => JainIndex(d) = <<>>
           /\ SumFunctionOnSet(d, D) # 0 =>
                 JainIndex(d) = <<SumFunctionOnSet(d, D) * SumFunctionOnSet(d, D),
                                  Cardinality(D) * SumFunctionOnSet(dd, D)>>
<1>1. NatOn(d, D) /\ IntOn(d, D) /\ NatOn(dd, D) /\ IntOn(dd, D)
  BY DEF NatOn, IntOn
<1>2. SumFunctionOnSet(d, D) \in Nat /\ SumFunctionOnSet(dd, D) \in Nat
  BY <1>1, SumInt
<1>3. SumFunction(d) = SumFunctionOnSet(d, D) /\ SumFunction(dd) = SumFunctionOnSet(dd, D)
  BY DEF SumFunction
<1>4. JainIndex(d) = IF SumFunction(d) = 0 THEN <<>>
                     ELSE <<SumFunction(d) * SumFunction(d), Cardinality(D) * SumFunction(dd)>>
  BY DEF JainIndex
<1> QED
  BY <1>2, <1>3, <1>4

\* What drove has squares.
LEMMA SquaresCount ==
    ASSUME NEW D, IsFiniteSet(D), NEW d \in [D -> Nat],
           NEW dd \in [D -> Nat], SquareOf(d, dd, D)
    PROVE  SumFunctionOnSet(d, D) <= SumFunctionOnSet(dd, D)
<1>1. IntOn(d, D) /\ IntOn(dd, D)
  BY DEF IntOn
<1>2. \A x \in Nat : x <= x * x
  OBVIOUS
<1>3. \A v \in D : d[v] <= dd[v]
  BY <1>2 DEF SquareOf
<1> QED
  BY <1>1, <1>3, SumMonotone

\* Comparing fractions: T is what was driven, N the fleet, n the levelled trucks, P
\* and Q the squares.
LEMMA CrossProduct ==
    ASSUME NEW T \in Nat, NEW N \in Nat, NEW n \in Nat, NEW P \in Nat, NEW Q \in Nat,
           P <= (n * n) * Q
    PROVE  (T * T) * (N * P) <= ((n * T) * (n * T)) * (N * Q)
<1> PICK c \in Nat : c = (T * T) * N
  OBVIOUS
<1>1. \A k, m, x \in Nat : k <= m => x * k <= x * m
  OBVIOUS
<1> PICK m \in Nat : m = (n * n) * Q
  OBVIOUS
<1>2. c * P <= c * m
  BY <1>1
<1>3. (T * T) * (N * P) = c * P
  OBVIOUS
<1>4. ((n * T) * (n * T)) * (N * Q) = c * m
  OBVIOUS
<1> QED
  BY <1>2, <1>3, <1>4

\* A fraction at least as large clears the same bar.
LEMMA ClearsTheBar ==
    ASSUME NEW a \in Nat, NEW b \in Nat, NEW c \in Nat, NEW e \in Nat, b > 0,
           a * e <= c * b, 100 * a >= 95 * b
    PROVE  100 * c >= 95 * e
<1> SUFFICES ASSUME 100 * c < 95 * e PROVE FALSE
  OBVIOUS
<1>1. \A x, y \in Nat : x < y => b * x < b * y
  OBVIOUS
<1>2. b * (100 * c) < b * (95 * e)
  BY <1>1
<1>3. \A x, y, z \in Nat : x <= y => z * x <= z * y
  OBVIOUS
<1>4. e * (95 * b) <= e * (100 * a)
  BY <1>3
<1> PICK p \in Nat, q \in Nat, r \in Nat : p = a * e /\ q = c * b /\ r = b * e
  OBVIOUS
<1>5. 100 * q < 95 * r
  BY <1>2
<1>6. 95 * r <= 100 * p
  BY <1>4
<1> QED
  BY <1>5, <1>6

\* No way to hand out the work is fairer than the ceiling.
LEMMA CeilingIsBest ==
    ASSUME NEW D, IsFiniteSet(D), NEW o \in [D -> Nat], NEW work \in Nat,
           NEW d \in [D -> Nat], HandedOut(o, work, d, D),
           NEW index, index = JainIndex(d), NEW best, best = Ceiling(o, work)
    PROVE  /\ index = <<>> <=> best = <<>>
           /\ index # <<>> => index[1] * best[2] <= best[1] * index[2]
           /\ Verdict(index) = "fair" => Verdict(best) = "fair"
<1> PICK low : low = Levelled(o, work)
  OBVIOUS
<1> PICK n : n = Cardinality(low)
  OBVIOUS
<1> DEFINE water == SumFunction([v \in low |-> o[v]]) + work
<1> PICK y : y = [v \in D |-> IF v \in low THEN water ELSE n * o[v]]
  OBVIOUS
<1> PICK yy, dd : yy = [v \in D |-> y[v] * y[v]] /\ dd = [v \in D |-> d[v] * d[v]]
  OBVIOUS
<1>1. best = JainIndex(y)
  BY DEF Ceiling
<1> PICK T \in Nat, Q \in Nat : T = SumFunctionOnSet(d, D) /\ Q = SumFunctionOnSet(dd, D)
  BY JainSums
<1>2. /\ T = 0 => index = <<>>
      /\ T # 0 => index = <<T * T, Cardinality(D) * Q>>
  BY JainSums
<1>3. CASE D = {}
  <2>1. T = 0
    BY <1>3, SumEmpty
  <2>2. y \in [D -> Nat] /\ SumFunctionOnSet(y, D) = 0
    BY <1>3, SumEmpty
  <2>3. index = <<>> /\ best = <<>>
    BY <1>1, <1>2, <2>1, <2>2, JainSums
  <2> QED
    BY <2>3 DEF Verdict
<1>4. CASE D # {}
  <2>1. /\ low \subseteq D /\ IsFiniteSet(low) /\ n \in Nat /\ n > 0
        /\ SumFunctionOnSet(o, low) \in Nat
    BY <1>4, CommonLevel
  <2>2. water = SumFunctionOnSet(o, low) + work
    <3> DEFINE f == [v \in low |-> o[v]]
    <3>1. SumFunction(f) = SumFunctionOnSet(f, low) /\ Agree(f, o, low)
      BY DEF SumFunction, Agree
    <3> HIDE DEF f
    <3>2. SumFunctionOnSet(f, low) = SumFunctionOnSet(o, low)
      BY <2>1, <3>1, SumSame
    <3>3. SumFunction(f) = SumFunctionOnSet(o, low)
      BY <3>1, <3>2
    <3> QED
      BY <3>3 DEF f
  <2> HIDE DEF water
  <2>3. y \in [D -> Nat]
    BY <2>1, <2>2
  <2>4. Poured(o, work, low, n, y, D)
    BY <2>1, <2>2 DEF Poured
  <2> PICK Y \in Nat, P \in Nat : Y = SumFunctionOnSet(y, D) /\ P = SumFunctionOnSet(yy, D)
    BY <2>3, JainSums
  <2> PICK N \in Nat : N = Cardinality(D) /\ N > 0
    BY <1>4, FS_CardinalityType, FS_EmptySet
  <2>5. /\ Y = 0 => best = <<>>
        /\ Y # 0 => best = <<Y * Y, N * P>>
    <3>1. /\ SumFunctionOnSet(y, D) = 0 => JainIndex(y) = <<>>
          /\ SumFunctionOnSet(y, D) # 0 =>
                JainIndex(y) = <<SumFunctionOnSet(y, D) * SumFunctionOnSet(y, D),
                                 Cardinality(D) * SumFunctionOnSet(yy, D)>>
      BY <2>3, JainSums
    <3> QED
      BY <1>1, <3>1
  <2>6. /\ yy \in [D -> Nat] /\ SquareOf(y, yy, D)
        /\ dd \in [D -> Nat] /\ SquareOf(d, dd, D)
    BY <2>3 DEF SquareOf
  <2>7. Y = n * T /\ P <= (n * n) * Q
    <3>1. /\ SumFunctionOnSet(y, D) = n * SumFunctionOnSet(d, D)
          /\ SumFunctionOnSet(yy, D) <= (n * n) * SumFunctionOnSet(dd, D)
      <4>1. Outcome(D, o, work, d, low, n, y, yy, dd)
        BY <1>4, <2>3, <2>4, <2>6 DEF Outcome
      <4> QED
        BY <4>1, WaterFilling
    <3> QED
      BY <3>1
  <2>8. T = 0 <=> Y = 0
    BY <2>1, <2>7
  <2>9. T # 0 => Q > 0
    BY <2>6, SquaresCount
  <2>10. (T * T) * (N * P) <= (Y * Y) * (N * Q)
    BY <2>1, <2>7, CrossProduct
  <2>11. CASE T = 0
    BY <1>2, <2>5, <2>8, <2>11 DEF Verdict
  <2>12. CASE T # 0
    <3>1. index = <<T * T, N * Q>> /\ best = <<Y * Y, N * P>>
      BY <1>2, <2>5, <2>8, <2>12
    <3> PICK a \in Nat, b \in Nat, c \in Nat, e \in Nat :
           a = T * T /\ b = N * Q /\ c = Y * Y /\ e = N * P
      <4>1. \A x, z \in Nat : x * z \in Nat
        OBVIOUS
      <4>2. T * T \in Nat /\ N * Q \in Nat /\ Y * Y \in Nat /\ N * P \in Nat
        BY <4>1
      <4> QED
        BY <4>2, Zenon
    <3>2. index # <<>> /\ best # <<>> /\ index[1] = a /\ index[2] = b
          /\ best[1] = c /\ best[2] = e
      BY <3>1
    <3>3. a * e <= c * b
      BY <2>10
    <3>4. b > 0
      <4>1. \A x, z \in Nat : x > 0 /\ z > 0 => x * z > 0
        OBVIOUS
      <4>2. N * Q > 0
        BY <2>9, <2>12, <4>1
      <4> QED
        BY <4>2
    <3>5. Verdict(index) = "fair" => 100 * a >= 95 * b
      BY <3>2 DEF Verdict, AtLeast
    <3>6. ASSUME 100 * a >= 95 * b PROVE 100 * c >= 95 * e
      BY <3>3, <3>4, <3>6, ClearsTheBar
    <3>7. 100 * c >= 95 * e => Verdict(best) = "fair"
      BY <3>2 DEF Verdict, AtLeast
    <3> QED
      BY <3>2, <3>3, <3>5, <3>6, <3>7
  <2> QED
    BY <2>11, <2>12
<1> QED
  BY <1>3, <1>4

------------------------------------------------------------------------------
(***************************************************************************)
(* The ledger.                                                             *)
(***************************************************************************)
\* A truck's flows, by bucket.
FarFlow(F, v) == [b \in Bucket |-> F[<<v, b>>].longHaul]
TripFlow(F, v) == [b \in Bucket |-> F[<<v, b>>].trips]

LEMMA FlowSums ==
    ASSUME NEW F \in [Truck \X Bucket -> Flow], NEW v \in Truck
    PROVE  /\ IsFiniteSet(Bucket)
           /\ FarFlow(F, v) \in [Bucket -> Nat] /\ TripFlow(F, v) \in [Bucket -> Nat]
           /\ IntOn(FarFlow(F, v), Bucket) /\ IntOn(TripFlow(F, v), Bucket)
           /\ SumFunction(FarFlow(F, v)) = SumFunctionOnSet(FarFlow(F, v), Bucket)
           /\ SumFunction(TripFlow(F, v)) = SumFunctionOnSet(TripFlow(F, v), Bucket)
           /\ SumFunction(FarFlow(F, v)) \in Nat /\ SumFunction(TripFlow(F, v)) \in Nat
<1>1. IsFiniteSet(Bucket)
  BY IdAssumption, FS_Interval DEF Bucket
<1>2. FarFlow(F, v) \in [Bucket -> Nat] /\ TripFlow(F, v) \in [Bucket -> Nat]
  BY DEF FarFlow, TripFlow, Flow
<1> PICK f, g : f = FarFlow(F, v) /\ g = TripFlow(F, v)
  OBVIOUS
<1>3. IntOn(f, Bucket) /\ NatOn(f, Bucket) /\ IntOn(g, Bucket) /\ NatOn(g, Bucket)
  BY <1>2 DEF IntOn, NatOn
<1>4. SumFunction(f) = SumFunctionOnSet(f, Bucket) /\ SumFunction(g) = SumFunctionOnSet(g, Bucket)
  BY <1>2 DEF SumFunction
<1>5. SumFunctionOnSet(f, Bucket) \in Nat /\ SumFunctionOnSet(g, Bucket) \in Nat
  BY <1>1, <1>3, SumInt
<1> QED
  BY <1>1, <1>2, <1>3, <1>4, <1>5

\* One trip more for truck v in bucket c, and what that does to its sums.
Entered(F, G, v, c, km) ==
    /\ F \in [Truck \X Bucket -> Flow] /\ G \in [Truck \X Bucket -> Flow]
    /\ v \in Truck /\ c \in Bucket /\ km \in Nat
    /\ G[<<v, c>>].longHaul = F[<<v, c>>].longHaul + km
    /\ G[<<v, c>>].trips = F[<<v, c>>].trips + 1
    /\ \A x \in Truck \X Bucket : x # <<v, c>> => G[x] = F[x]
Grown(F, G, v, km) ==
    /\ SumFunction(FarFlow(G, v)) = SumFunction(FarFlow(F, v)) + km
    /\ SumFunction(TripFlow(G, v)) = SumFunction(TripFlow(F, v)) + 1
    /\ \A w \in Truck \ {v} : FarFlow(G, w) = FarFlow(F, w) /\ TripFlow(G, w) = TripFlow(F, w)

\* record, in sums: one trip more for one truck, and its length if it is a long haul.
LEMMA RecordedSums ==
    ASSUME NEW F, NEW G, NEW v, NEW c, NEW km, Entered(F, G, v, c, km)
    PROVE  Grown(F, G, v, km)
<1> USE DEF Entered
<1>1. SumFunction(FarFlow(G, v)) = SumFunction(FarFlow(F, v)) + km
  <2> PICK f, g : f = FarFlow(F, v) /\ g = FarFlow(G, v)
    OBVIOUS
  <2>1. /\ IsFiniteSet(Bucket) /\ f \in [Bucket -> Nat] /\ g \in [Bucket -> Nat]
        /\ IntOn(f, Bucket) /\ IntOn(g, Bucket)
        /\ SumFunction(f) = SumFunctionOnSet(f, Bucket)
        /\ SumFunction(g) = SumFunctionOnSet(g, Bucket)
        /\ SumFunction(f) \in Nat
    BY FlowSums
  <2>2. Agree(f, g, Bucket \ {c})
    BY DEF Agree, FarFlow
  <2>3. g[c] = f[c] + km /\ f[c] \in Nat
    BY <2>1 DEF FarFlow
  <2>4. SumFunctionOnSet(g, Bucket) = SumFunctionOnSet(f, Bucket) + (g[c] - f[c])
    BY <2>1, <2>2, SumChange
  <2> QED
    BY <2>1, <2>3, <2>4
<1>2. SumFunction(TripFlow(G, v)) = SumFunction(TripFlow(F, v)) + 1
  <2> PICK f, g : f = TripFlow(F, v) /\ g = TripFlow(G, v)
    OBVIOUS
  <2>1. /\ IsFiniteSet(Bucket) /\ f \in [Bucket -> Nat] /\ g \in [Bucket -> Nat]
        /\ IntOn(f, Bucket) /\ IntOn(g, Bucket)
        /\ SumFunction(f) = SumFunctionOnSet(f, Bucket)
        /\ SumFunction(g) = SumFunctionOnSet(g, Bucket)
        /\ SumFunction(f) \in Nat
    BY FlowSums
  <2>2. Agree(f, g, Bucket \ {c})
    BY DEF Agree, TripFlow
  <2>3. g[c] = f[c] + 1 /\ f[c] \in Nat
    BY <2>1 DEF TripFlow
  <2>4. SumFunctionOnSet(g, Bucket) = SumFunctionOnSet(f, Bucket) + (g[c] - f[c])
    BY <2>1, <2>2, SumChange
  <2> QED
    BY <2>1, <2>3, <2>4
<1>3. \A w \in Truck \ {v} : FarFlow(G, w) = FarFlow(F, w) /\ TripFlow(G, w) = TripFlow(F, w)
  BY DEF FarFlow, TripFlow
<1> QED
  BY <1>1, <1>2, <1>3 DEF Grown

\* What Assign records.
LEMMA AssignRecords ==
    ASSUME HaulInv, NEW j \in Job, NEW v \in Truck, Assign(j, v)
    PROVE  LET km == IF trips[j].longHaul THEN trips[j].km ELSE 0
           IN km \in Nat /\ Grown(flows, flows', v, km)
<1> PICK km : km = IF trips[j].longHaul THEN trips[j].km ELSE 0
  OBVIOUS
<1> PICK c : c = trips[j].bucket
  OBVIOUS
<1>1. trips[j] \in [bucket : Bucket, km : Nat, load : Nat, longHaul : BOOLEAN]
  BY InputAssumption DEF HaulInv, TypeOK
<1>2. km \in Nat /\ c \in Bucket
  BY <1>1
<1> PICK F, G : F = flows /\ G = flows'
  OBVIOUS
<1>3. HaulInv'
  BY AssignStep
<1>4. F \in [Truck \X Bucket -> Flow] /\ G \in [Truck \X Bucket -> Flow]
  BY <1>3 DEF HaulInv, TypeOK
<1>5. G = [F EXCEPT ![<<v, c>>] =
              [longHaul |-> IF trips[j].longHaul THEN @.longHaul + trips[j].km ELSE @.longHaul,
               total |-> @.total + trips[j].km,
               trips |-> @.trips + 1]]
  BY DEF Assign, Recorded
<1>6. <<v, c>> \in Truck \X Bucket /\ F[<<v, c>>] \in Flow
  BY <1>2, <1>4
<1>7. /\ G[<<v, c>>].longHaul = F[<<v, c>>].longHaul + km
      /\ G[<<v, c>>].trips = F[<<v, c>>].trips + 1
  BY <1>4, <1>5, <1>6 DEF Flow
<1>8. \A x \in Truck \X Bucket : x # <<v, c>> => G[x] = F[x]
  BY <1>4, <1>5
<1>9. Grown(F, G, v, km)
  <2>1. Entered(F, G, v, c, km)
    BY <1>2, <1>4, <1>7, <1>8 DEF Entered
  <2> QED
    BY <2>1, RecordedSums
<1> QED
  BY <1>2, <1>9

\* How far the long hauls of X are.
FarOf(f, X) == {k \in X : f[k].longHaul}
Way(f, X) == SumFunction([k \in FarOf(f, X) |-> f[k].km])

LEMMA WaySum ==
    ASSUME NEW f \in Trips, NEW X \in SUBSET Job, NEW g, g = [k \in Job |-> f[k].km]
    PROVE  /\ FarOf(f, X) \subseteq Job /\ IsFiniteSet(FarOf(f, X))
           /\ IntOn(g, FarOf(f, X))
           /\ Way(f, X) = SumFunctionOnSet(g, FarOf(f, X))
           /\ Way(f, X) \in Nat
<1>1. f \in [Job -> [bucket : Bucket, km : Nat, load : Nat, longHaul : BOOLEAN]]
  BY InputAssumption
<1>2. g \in [Job -> Nat]
  BY <1>1
<1> PICK far : far = FarOf(f, X)
  OBVIOUS
<1>3. far \subseteq Job /\ IsFiniteSet(far)
  BY IdAssumption, FS_Subset DEF FarOf
<1>4. IntOn(g, far) /\ NatOn(g, far)
  BY <1>2, <1>3 DEF IntOn, NatOn
<1> PICK h : h = [k \in far |-> f[k].km]
  OBVIOUS
<1>5. Agree(h, g, far) /\ SumFunction(h) = SumFunctionOnSet(h, far)
  BY <1>3 DEF Agree, SumFunction
<1>6. SumFunctionOnSet(h, far) = SumFunctionOnSet(g, far)
  BY <1>3, <1>5, SumSame
<1>7. SumFunctionOnSet(g, far) \in Nat
  BY <1>3, <1>4, SumInt
<1>8. Way(f, X) = SumFunction(h)
  BY DEF Way
<1> QED
  BY <1>3, <1>4, <1>5, <1>6, <1>7, <1>8

LEMMA NoWay ==
    ASSUME NEW f \in Trips
    PROVE  Way(f, {}) = 0
<1> PICK g : g = [k \in Job |-> f[k].km]
  OBVIOUS
<1>1. Way(f, {}) = SumFunctionOnSet(g, FarOf(f, {})) /\ FarOf(f, {}) = {}
  BY WaySum DEF FarOf
<1> QED
  BY <1>1, SumEmpty

\* What a truck was given, in sums: one trip more.
LEMMA OneMore ==
    ASSUME NEW f \in Trips, NEW X \in SUBSET Job, NEW j \in Job \ X
    PROVE  LET km == IF f[j].longHaul THEN f[j].km ELSE 0
           IN /\ Way(f, X \cup {j}) = Way(f, X) + km
              /\ Cardinality(X) \in Nat
              /\ Cardinality(X \cup {j}) = Cardinality(X) + 1
<1>1. f \in [Job -> [bucket : Bucket, km : Nat, load : Nat, longHaul : BOOLEAN]]
  BY InputAssumption
<1>2. /\ IsFiniteSet(X) /\ Cardinality(X) \in Nat
      /\ Cardinality(X \cup {j}) = Cardinality(X) + 1
  BY IdAssumption, FS_Subset, FS_CardinalityType, FS_AddElement
<1> PICK far : far = FarOf(f, X)
  OBVIOUS
<1> PICK g : g = [k \in Job |-> f[k].km]
  OBVIOUS
<1>3. /\ IsFiniteSet(far) /\ Way(f, X) = SumFunctionOnSet(g, far) /\ Way(f, X) \in Nat
  BY WaySum
<1>4. X \cup {j} \in SUBSET Job
  OBVIOUS
<1>5. /\ IntOn(g, FarOf(f, X \cup {j}))
      /\ Way(f, X \cup {j}) = SumFunctionOnSet(g, FarOf(f, X \cup {j}))
  BY <1>4, WaySum
<1>6. j \notin far
  BY DEF FarOf
<1>7. CASE f[j].longHaul
  <2>1. FarOf(f, X \cup {j}) = far \cup {j}
    BY <1>7 DEF FarOf
  <2>2. IntOn(g, far \cup {j})
    BY <1>5, <2>1
  <2>3. SumFunctionOnSet(g, far \cup {j}) = g[j] + SumFunctionOnSet(g, far)
    BY <1>3, <1>6, <2>2, SumAdd
  <2>4. g[j] = f[j].km /\ f[j].km \in Nat
    BY <1>1
  <2>5. Way(f, X \cup {j}) = g[j] + Way(f, X)
    BY <1>3, <1>5, <2>1, <2>3
  <2>6. Way(f, X \cup {j}) = Way(f, X) + f[j].km
    BY <1>3, <2>4, <2>5
  <2> QED
    BY <1>2, <1>7, <2>6
<1>8. CASE ~f[j].longHaul
  <2>1. FarOf(f, X \cup {j}) = far
    BY <1>8 DEF FarOf
  <2>2. Way(f, X \cup {j}) = Way(f, X) + 0
    BY <1>3, <1>5, <2>1
  <2> QED
    BY <1>2, <1>8, <2>2
<1>9. f[j].longHaul \in BOOLEAN
  BY <1>1
<1> QED
  BY <1>7, <1>8, <1>9

\* The trucks sent out are those the opening ledger lists, and the ledger is the plan.
LedgerInv ==
    /\ HaulInv
    /\ \A a \in assigned : fleet[a[2]].listed
    /\ LedgerIsPlan

\* LedgerIsPlan of one truck, of a ledger and a plan.
TruckIsPlan(F, A, f, v) ==
    LET X == {j \in Job : <<j, v>> \in A}
    IN /\ SumFunction(FarFlow(F, v)) = Way(f, X)
       /\ SumFunction(TripFlow(F, v)) = Cardinality(X)

PlanArgs(F, f, A, v, X, o) ==
    /\ F \in [Truck \X Bucket -> Flow] /\ f \in Trips /\ v \in Truck
    /\ X = {j \in Job : <<j, v>> \in A} /\ o \in Nat

LEMMA PlanOfTruck ==
    ASSUME NEW F, NEW f, NEW A, NEW v, NEW X, NEW o, PlanArgs(F, f, A, v, X, o)
    PROVE  TruckIsPlan(F, A, f, v) <=>
             /\ o + SumFunction(FarFlow(F, v)) = o + Way(f, X)
             /\ SumFunction(TripFlow(F, v)) = Cardinality(X)
<1> USE DEF PlanArgs
<1>1. SumFunction(FarFlow(F, v)) \in Nat /\ Way(f, X) \in Nat
  BY FlowSums, WaySum
<1>2. TruckIsPlan(F, A, f, v) <=>
        SumFunction(FarFlow(F, v)) = Way(f, X) /\ SumFunction(TripFlow(F, v)) = Cardinality(X)
  BY DEF TruckIsPlan
<1> QED
  BY <1>1, <1>2

LEMMA PlanByTruck ==
    ASSUME HaulInv
    PROVE  LedgerIsPlan <=> \A v \in Truck : TruckIsPlan(flows, assigned, trips, v)
<1>1. /\ flows \in [Truck \X Bucket -> Flow] /\ trips \in Trips
      /\ \A v \in Truck : fleet[v].opening \in Nat
  BY InputAssumption DEF HaulInv, TypeOK
<1>2. LedgerIsPlan <=> \A v \in Truck :
        LET X == {j \in Job : <<j, v>> \in assigned}
        IN /\ fleet[v].opening + SumFunction(FarFlow(flows, v)) = fleet[v].opening + Way(trips, X)
           /\ SumFunction(TripFlow(flows, v)) = Cardinality(X)
  BY DEF LedgerIsPlan, LongHaulKm, Driven, Far, Given, FarFlow, TripFlow, Way, FarOf
<1>3. ASSUME NEW v \in Truck
      PROVE  LET X == {j \in Job : <<j, v>> \in assigned}
             IN TruckIsPlan(flows, assigned, trips, v) <=>
                  /\ fleet[v].opening + SumFunction(FarFlow(flows, v))
                       = fleet[v].opening + Way(trips, X)
                  /\ SumFunction(TripFlow(flows, v)) = Cardinality(X)
  <2> PICK o \in Nat : o = fleet[v].opening
    BY <1>1
  <2> PICK X : X = {j \in Job : <<j, v>> \in assigned}
    OBVIOUS
  <2>1. PlanArgs(flows, trips, assigned, v, X, o)
    BY <1>1 DEF PlanArgs
  <2>2. TruckIsPlan(flows, assigned, trips, v) <=>
           /\ o + SumFunction(FarFlow(flows, v)) = o + Way(trips, X)
           /\ SumFunction(TripFlow(flows, v)) = Cardinality(X)
    BY <2>1, PlanOfTruck
  <2> QED
    BY <2>2
<1> QED
  BY <1>2, <1>3, Zenon

LEMMA PlanByTruckNext ==
    ASSUME HaulInv'
    PROVE  LedgerIsPlan' <=> \A v \in Truck : TruckIsPlan(flows', assigned', trips', v)
<1> PICK F, A, f : F = flows' /\ A = assigned' /\ f = trips'
  OBVIOUS
<1>1. /\ F \in [Truck \X Bucket -> Flow] /\ f \in Trips
      /\ \A v \in Truck : fleet'[v].opening \in Nat
  BY InputAssumption DEF HaulInv, TypeOK
<1>2. LedgerIsPlan' <=> \A v \in Truck :
        LET X == {j \in Job : <<j, v>> \in A}
        IN /\ fleet'[v].opening + SumFunction(FarFlow(F, v)) = fleet'[v].opening + Way(f, X)
           /\ SumFunction(TripFlow(F, v)) = Cardinality(X)
  BY DEF LedgerIsPlan, LongHaulKm, Driven, Far, Given, FarFlow, TripFlow, Way, FarOf
<1>3. ASSUME NEW v \in Truck
      PROVE  LET X == {j \in Job : <<j, v>> \in A}
             IN TruckIsPlan(F, A, f, v) <=>
                  /\ fleet'[v].opening + SumFunction(FarFlow(F, v))
                       = fleet'[v].opening + Way(f, X)
                  /\ SumFunction(TripFlow(F, v)) = Cardinality(X)
  <2> PICK o \in Nat : o = fleet'[v].opening
    BY <1>1
  <2> PICK X : X = {j \in Job : <<j, v>> \in A}
    OBVIOUS
  <2>1. PlanArgs(F, f, A, v, X, o)
    BY <1>1 DEF PlanArgs
  <2>2. TruckIsPlan(F, A, f, v) <=>
           /\ o + SumFunction(FarFlow(F, v)) = o + Way(f, X)
           /\ SumFunction(TripFlow(F, v)) = Cardinality(X)
    BY <2>1, PlanOfTruck
  <2> QED
    BY <2>2
<1> QED
  BY <1>2, <1>3, Zenon

LEMMA InitLedger == HaulInit => LedgerInv
<1> SUFFICES ASSUME HaulInit PROVE LedgerInv
  OBVIOUS
<1>1. HaulInv
  BY InitHaulInv
<1>2. \A a \in assigned : fleet[a[2]].listed
  BY DEF HaulInit
<1>3. ASSUME NEW v \in Truck PROVE TruckIsPlan(flows, assigned, trips, v)
  <2> PICK f, g : f = FarFlow(flows, v) /\ g = TripFlow(flows, v)
    OBVIOUS
  <2>1. flows \in [Truck \X Bucket -> Flow] /\ trips \in Trips
    BY <1>1 DEF HaulInv, TypeOK
  <2>2. /\ IsFiniteSet(Bucket)
        /\ SumFunction(f) = SumFunctionOnSet(f, Bucket)
        /\ SumFunction(g) = SumFunctionOnSet(g, Bucket)
    BY <2>1, FlowSums
  <2>3. \A b \in Bucket : f[b] = 0 /\ g[b] = 0
    BY DEF HaulInit, FarFlow, TripFlow, NoFlow
  <2>4. SumFunction(f) = 0 /\ SumFunction(g) = 0
    BY <2>2, <2>3, SumOfZeros
  <2>5. {j \in Job : <<j, v>> \in assigned} = {}
    BY DEF HaulInit
  <2>6. Way(trips, {}) = 0 /\ Cardinality({}) = 0
    BY <2>1, NoWay, FS_EmptySet
  <2> QED
    BY <2>4, <2>5, <2>6 DEF TruckIsPlan
<1> QED
  BY <1>1, <1>2, <1>3, PlanByTruck DEF LedgerInv

\* One trip more, for a truck and for the others.
OneTripMore(F, G, A, B, f, j, v) ==
    /\ f \in Trips /\ j \in Job /\ v \in Truck
    /\ B = A \cup {<<j, v>>}
    /\ \A x \in A : x[1] # j
    /\ Grown(F, G, v, IF f[j].longHaul THEN f[j].km ELSE 0)

LEMMA TruckStaysPlan ==
    ASSUME NEW F, NEW G, NEW A, NEW B, NEW f, NEW j, NEW v, OneTripMore(F, G, A, B, f, j, v),
           \A w \in Truck : TruckIsPlan(F, A, f, w)
    PROVE  \A w \in Truck : TruckIsPlan(G, B, f, w)
<1> SUFFICES ASSUME NEW w \in Truck PROVE TruckIsPlan(G, B, f, w)
  OBVIOUS
<1> USE DEF OneTripMore, Grown
<1> PICK km : km = IF f[j].longHaul THEN f[j].km ELSE 0
  OBVIOUS
<1> PICK X, Y : X = {k \in Job : <<k, w>> \in A} /\ Y = {k \in Job : <<k, w>> \in B}
  OBVIOUS
<1>1. SumFunction(FarFlow(F, w)) = Way(f, X) /\ SumFunction(TripFlow(F, w)) = Cardinality(X)
  BY DEF TruckIsPlan
<1>2. CASE w = v
  <2>1. Y = X \cup {j} /\ j \notin X /\ X \in SUBSET Job
    BY <1>2
  <2>2. Way(f, X \cup {j}) = Way(f, X) + km /\ Cardinality(X \cup {j}) = Cardinality(X) + 1
    BY <2>1, OneMore
  <2>3. SumFunction(FarFlow(G, w)) = Way(f, Y) /\ SumFunction(TripFlow(G, w)) = Cardinality(Y)
    BY <1>1, <1>2, <2>1, <2>2
  <2> QED
    BY <2>3 DEF TruckIsPlan
<1>3. CASE w # v
  <2>1. Y = X
    BY <1>3
  <2>2. FarFlow(G, w) = FarFlow(F, w) /\ TripFlow(G, w) = TripFlow(F, w)
    BY <1>3
  <2>3. SumFunction(FarFlow(G, w)) = Way(f, Y) /\ SumFunction(TripFlow(G, w)) = Cardinality(Y)
    BY <1>1, <2>1, <2>2
  <2> QED
    BY <2>3 DEF TruckIsPlan
<1> QED
  BY <1>2, <1>3

LEMMA AssignKeepsLedger ==
    ASSUME LedgerInv, NEW j \in Job, NEW v \in Truck, Assign(j, v)
    PROVE  LedgerInv'
<1>1. HaulInv /\ HaulInv' /\ \A w \in Truck : TruckIsPlan(flows, assigned, trips, w)
  BY AssignStep, PlanByTruck DEF LedgerInv
<1>2. \A a \in assigned' : fleet'[a[2]].listed
  BY DEF LedgerInv, Assign, FurthestBehind
<1>3. \A x \in assigned : x[1] # j
  BY DEF Assign, IsNext, Remaining, Handled
<1> PICK km : km = IF trips[j].longHaul THEN trips[j].km ELSE 0
  OBVIOUS
<1>4. Grown(flows, flows', v, km)
  BY <1>1, AssignRecords
<1> PICK F, G, A, B, f : F = flows /\ G = flows' /\ A = assigned /\ B = assigned' /\ f = trips
  OBVIOUS
<1>5. /\ F \in [Truck \X Bucket -> Flow] /\ f \in Trips /\ A \in SUBSET (Job \X Truck)
      /\ B = A \cup {<<j, v>>} /\ trips' = f
  BY <1>1 DEF HaulInv, TypeOK, Assign
<1>6. \A w \in Truck : TruckIsPlan(G, B, f, w)
  <2>1. OneTripMore(F, G, A, B, f, j, v)
    BY <1>3, <1>4, <1>5 DEF OneTripMore
  <2>2. \A w \in Truck : TruckIsPlan(F, A, f, w)
    BY <1>1
  <2> QED
    BY <2>1, <2>2, TruckStaysPlan
<1>7. LedgerIsPlan'
  BY <1>1, <1>5, <1>6, PlanByTruckNext
<1> QED
  BY <1>1, <1>2, <1>7 DEF LedgerInv

LEMMA NextLedger == LedgerInv /\ [HaulNext]_haulVars => LedgerInv'
<1> SUFFICES ASSUME LedgerInv, [HaulNext]_haulVars PROVE LedgerInv'
  OBVIOUS
<1>1. HaulInv'
  BY NextHaulInv DEF LedgerInv
<1>2. ASSUME UNCHANGED <<trips, fleet, flows, assigned>> PROVE LedgerInv'
  <2>1. LedgerIsPlan'
    BY <1>2 DEF LedgerInv, LedgerIsPlan, LongHaulKm, Driven, Far, Given
  <2>2. \A a \in assigned' : fleet'[a[2]].listed
    BY <1>2 DEF LedgerInv
  <2> QED
    BY <1>1, <2>1, <2>2 DEF LedgerInv
<1>3. CASE \E j \in Job : LeaveUnassigned(j)
  BY <1>2, <1>3 DEF LeaveUnassigned
<1>4. CASE \E j \in Job : RaiseKeyError(j)
  BY <1>2, <1>4 DEF RaiseKeyError
<1>5. CASE \E j \in Job, v \in Truck : Assign(j, v)
  BY <1>5, AssignKeepsLedger
<1>6. CASE Finish
  BY <1>2, <1>6 DEF Finish
<1>7. CASE UNCHANGED haulVars
  BY <1>2, <1>7 DEF haulVars
<1> QED
  BY <1>3, <1>4, <1>5, <1>6, <1>7 DEF HaulNext

\* What the listed trucks have driven is the work of the run, added to where they
\* started.
LEMMA WorkIsHandedOut ==
    ASSUME LedgerInv, NEW work, work = SumFunction([v \in Truck |-> Driven(v)])
    PROVE  /\ IsFiniteSet(Listed) /\ work \in Nat
           /\ Opening \in [Listed -> Nat] /\ Distribution \in [Listed -> Nat]
           /\ HandedOut(Opening, work, Distribution, Listed)
<1> PICK D, o, d : D = Listed /\ o = Opening /\ d = Distribution
  OBVIOUS
<1> PICK w : w = [v \in Truck |-> Driven(v)]
  OBVIOUS
<1>1. /\ trips \in Trips /\ \A v \in Truck : fleet[v].opening \in Nat
      /\ assigned \subseteq Job \X Truck
      /\ LedgerIsPlan /\ HaulInv
      /\ \A a \in assigned : fleet[a[2]].listed
  BY InputAssumption DEF LedgerInv, HaulInv, TypeOK
<1>2. IsFiniteSet(D) /\ D \subseteq Truck /\ IsFiniteSet(Truck) /\ IsFiniteSet(Truck \ D)
  BY IdAssumption, FS_Subset DEF Listed
<1>3. \A v \in Truck : w[v] \in Nat
  <2> SUFFICES ASSUME NEW v \in Truck PROVE w[v] \in Nat
    OBVIOUS
  <2> PICK X : X = Given(v)
    OBVIOUS
  <2>1. X \in SUBSET Job /\ Driven(v) = Way(trips, X)
    BY DEF Given, Driven, Far, Way, FarOf
  <2>2. Way(trips, X) \in Nat
    BY <1>1, <2>1, WaySum
  <2> QED
    BY <2>1, <2>2
<1>4. \A v \in Truck \ D : w[v] = 0
  <2> SUFFICES ASSUME NEW v \in Truck \ D PROVE w[v] = 0
    OBVIOUS
  <2>1. Given(v) = {}
    BY <1>1 DEF Listed, Given
  <2>2. Driven(v) = Way(trips, {})
    BY <2>1 DEF Driven, Far, Way, FarOf
  <2>3. Way(trips, {}) = 0
    BY <1>1, NoWay
  <2> QED
    BY <2>2, <2>3
<1>5. /\ o \in [D -> Nat] /\ \A v \in D : o[v] = fleet[v].opening
      /\ DOMAIN d = D /\ \A v \in D : d[v] = LongHaulKm(v)
  BY <1>1, <1>2 DEF Opening, Distribution, Listed
<1>6. \A v \in D : LongHaulKm(v) = fleet[v].opening + w[v]
  BY <1>1, <1>2 DEF LedgerIsPlan
<1>7. \A v \in D : d[v] = o[v] + w[v]
  BY <1>5, <1>6
<1>8. d \in [D -> Nat] /\ \A v \in D : d[v] >= o[v]
  <2>1. \A v \in D : d[v] \in Nat /\ d[v] >= o[v]
    <3> SUFFICES ASSUME NEW v \in D PROVE d[v] \in Nat /\ d[v] >= o[v]
      OBVIOUS
    <3>1. o[v] \in Nat /\ w[v] \in Nat
      BY <1>2, <1>3, <1>5
    <3> QED
      BY <1>7, <3>1
  <2>2. d = [v \in D |-> d[v]]
    BY DEF Distribution
  <2> QED
    BY <2>1, <2>2
<1>9. work = SumFunctionOnSet(w, Truck)
  BY DEF SumFunction
<1>10. work = SumFunctionOnSet(w, D) /\ SumFunctionOnSet(w, D) \in Nat
  <2>1. IntOn(w, D \cup (Truck \ D)) /\ NatOn(w, D) /\ IntOn(w, D)
    BY <1>2, <1>3 DEF IntOn, NatOn
  <2>2. /\ D \cap (Truck \ D) = {} /\ D \cup (Truck \ D) = Truck
    BY <1>2
  <2>3. SumFunctionOnSet(w, Truck) = SumFunctionOnSet(w, D) + SumFunctionOnSet(w, Truck \ D)
    BY <1>2, <2>1, <2>2, SumUnion
  <2>4. SumFunctionOnSet(w, Truck \ D) = 0
    BY <1>2, <1>4, SumOfZeros
  <2>5. SumFunctionOnSet(w, D) \in Nat
    BY <1>2, <2>1, SumInt
  <2> QED
    BY <1>9, <2>3, <2>4, <2>5
<1>11. SumFunctionOnSet(d, D) = SumFunctionOnSet(o, D) + SumFunctionOnSet(w, D)
  <2>1. IntOn(o, D) /\ IntOn(w, D)
    BY <1>2, <1>3, <1>5 DEF IntOn
  <2> QED
    BY <1>2, <1>7, <2>1, SumPlus
<1>12. HandedOut(o, work, d, D)
  BY <1>8, <1>10, <1>11 DEF HandedOut
<1> QED
  BY <1>2, <1>5, <1>8, <1>10, <1>12

\* The ledger is the plan, and its index never beats the ceiling, whatever the fleet,
\* the trips and the opening ledger: no other way to share out the same kilometres is
\* fairer than water-filling them.
THEOREM FairnessNeverOverstated == HaulSpec => []FairnessIsEarned
<1>1. LedgerInv => FairnessIsEarned
  <2> SUFFICES ASSUME LedgerInv PROVE FairnessIsEarned
    OBVIOUS
  <2> PICK work : work = SumFunction([v \in Truck |-> Driven(v)])
    OBVIOUS
  <2> PICK index, best : index = JainIndex(Distribution) /\ best = Ceiling(Opening, work)
    OBVIOUS
  <2> PICK D, o, d : D = Listed /\ o = Opening /\ d = Distribution
    OBVIOUS
  <2>1. /\ IsFiniteSet(D) /\ work \in Nat /\ o \in [D -> Nat] /\ d \in [D -> Nat]
        /\ HandedOut(o, work, d, D)
    BY WorkIsHandedOut
  <2>2. /\ index = <<>> <=> best = <<>>
        /\ index # <<>> => index[1] * best[2] <= best[1] * index[2]
        /\ Verdict(index) = "fair" => Verdict(best) = "fair"
    BY <2>1, CeilingIsBest
  <2> QED
    BY <2>2 DEF LedgerInv, FairnessIsEarned
<1> QED
  BY InitLedger, NextLedger, <1>1, PTL DEF HaulSpec

------------------------------------------------------------------------------
(***************************************************************************)
(* The gap.                                                                *)
(***************************************************************************)
Under(U, d) == \E e \in U : d <= e

\* What bounds the gaps: those of the opening positions, and a long haul.
FarTrips == {k \in Job : trips[k].longHaul}
Lengths == {trips[k].km : k \in FarTrips}
Bounds == {fleet[v].opening - fleet[w].opening : v, w \in Truck} \cup Lengths

\* GapIsBounded's precondition.
Alike == (\A v \in Truck, j \in Job : Carries(v, j)) /\ Cardinality(Lengths) = 1

\* The gaps between the trucks' kilometres are bounded, also once the trucks that are
\* not out yet take a long haul that remains: of trips R, with trucks B out.
CloseTo(U, K, f, R, B) ==
    /\ \A v, w \in Truck : Under(U, K[v] - K[w])
    /\ \A k \in R, v, w \in Truck :
          f[k].longHaul /\ <<v, f[k].bucket>> \notin B /\ <<w, f[k].bucket>> \in B =>
             Under(U, K[v] + f[k].km - K[w])

Kilometres == [v \in Truck |-> LongHaulKm(v)]
GapInv ==
    /\ LedgerInv
    /\ Alike => CloseTo(Bounds, Kilometres, trips, Remaining, busy)

\* Trip j, the next one of R, goes to truck v, the furthest behind of those not out.
Sent(U, K, G, f, j, v, L, R, B) ==
    /\ U \subseteq Int /\ K \in [Truck -> Nat] /\ f \in Trips /\ R \subseteq Job
    /\ j \in R /\ v \in Truck /\ L \in Nat /\ L \in U
    /\ \A k \in Job : f[k].longHaul => f[k].km = L
    /\ G[v] = K[v] + (IF f[j].longHaul THEN L ELSE 0)
    /\ \A w \in Truck : w # v => G[w] = K[w]
    /\ <<v, f[j].bucket>> \notin B
    /\ \A w \in Truck : <<w, f[j].bucket>> \notin B => K[v] <= K[w]
    /\ \A k \in R : \/ f[j].bucket < f[k].bucket
                    \/ f[j].bucket = f[k].bucket /\ (f[k].longHaul => f[j].longHaul)
    /\ \A w \in Truck, b \in Bucket, k \in R : <<w, b>> \in B => b <= f[k].bucket

LEMMA GapStep ==
    ASSUME NEW U, NEW K, NEW G, NEW f, NEW j, NEW v, NEW L, NEW R, NEW B,
           Sent(U, K, G, f, j, v, L, R, B), CloseTo(U, K, f, R, B)
    PROVE  CloseTo(U, G, f, R \ {j}, B \cup {<<v, f[j].bucket>>})
<1>1. /\ U \subseteq Int /\ K \in [Truck -> Nat] /\ R \subseteq Job
      /\ j \in R /\ v \in Truck /\ L \in Nat /\ L \in U
  BY DEF Sent
<1>2. f \in [Job -> [bucket : Bucket, km : Nat, load : Nat, longHaul : BOOLEAN]]
  BY InputAssumption DEF Sent
<1> PICK b \in Bucket : b = f[j].bucket
  BY <1>1, <1>2
<1>3. \A p, q \in Truck : Under(U, K[p] - K[q])
  BY DEF CloseTo
<1>4. ASSUME NEW p \in Truck, NEW q \in Truck PROVE Under(U, G[p] - G[q])
  <2>1. CASE ~f[j].longHaul \/ p = q
    <3>1. G[p] - G[q] = K[p] - K[q]
      <4>1. K[p] \in Nat /\ K[q] \in Nat /\ K[v] \in Nat
        BY <1>1
      <4> QED
        BY <2>1, <4>1 DEF Sent
    <3> QED
      BY <1>3, <3>1
  <2>2. CASE f[j].longHaul /\ p = v /\ q # v
    <3>1. K[v] \in Nat /\ K[q] \in Nat /\ G[p] = K[v] + L /\ G[q] = K[q]
      BY <1>1, <2>2 DEF Sent
    <3>2. CASE <<q, b>> \notin B
      <4>1. K[v] <= K[q]
        BY <3>2 DEF Sent
      <4>2. G[p] - G[q] <= L
        BY <1>1, <3>1, <4>1
      <4> QED
        BY <1>1, <4>2 DEF Under
    <3>3. CASE <<q, b>> \in B
      <4>1. f[j].km = L
        BY <1>1, <2>2 DEF Sent
      <4>2. Under(U, K[v] + f[j].km - K[q])
        <5>1. <<v, f[j].bucket>> \notin B /\ <<q, f[j].bucket>> \in B
          BY <3>3 DEF Sent
        <5> QED
          BY <1>1, <2>2, <5>1 DEF CloseTo
      <4>3. K[v] + f[j].km - K[q] = G[p] - G[q]
        BY <1>1, <3>1, <4>1
      <4> QED
        BY <4>2, <4>3
    <3> QED
      BY <3>2, <3>3
  <2>3. CASE f[j].longHaul /\ p # v /\ q = v
    <3>1. K[v] \in Nat /\ K[p] \in Nat /\ G[p] = K[p] /\ G[q] = K[v] + L
      BY <1>1, <2>3 DEF Sent
    <3> PICK e \in U : K[p] - K[v] <= e
      BY <1>1, <1>3 DEF Under
    <3>2. G[p] - G[q] <= e
      BY <1>1, <3>1
    <3> QED
      BY <3>2 DEF Under
  <2>4. CASE p # v /\ q # v
    BY <1>3, <2>4 DEF Sent
  <2> QED
    BY <2>1, <2>2, <2>3, <2>4
<1> PICK A : A = B \cup {<<v, b>>}
  OBVIOUS
<1>5. ASSUME NEW k \in R \ {j}, NEW p \in Truck, NEW q \in Truck, f[k].longHaul,
             <<p, f[k].bucket>> \notin A, <<q, f[k].bucket>> \in A
      PROVE  Under(U, G[p] + f[k].km - G[q])
  <2>1. f[k].km = L /\ f[k].bucket \in Bucket /\ k \in R
    BY <1>1, <1>2, <1>5 DEF Sent
  <2>2. f[k].bucket = b
    <3>1. CASE <<q, f[k].bucket>> \in B
      <4>1. f[k].bucket <= f[j].bucket
        BY <1>1, <2>1, <3>1 DEF Sent
      <4>2. f[j].bucket <= f[k].bucket
        BY <2>1 DEF Sent, Bucket
      <4> QED
        BY <2>1, <4>1, <4>2 DEF Bucket
    <3>2. CASE <<q, f[k].bucket>> = <<v, b>>
      BY <3>2
    <3> QED
      BY <1>5, <3>1, <3>2
  <2>3. f[j].longHaul
    <3>1. f[j].bucket < f[k].bucket \/ (f[k].longHaul => f[j].longHaul)
      BY <2>1 DEF Sent
    <3>2. ~(b < b)
      BY DEF Bucket
    <3> QED
      BY <1>5, <2>2, <3>1, <3>2
  <2>4. p # v /\ <<p, f[k].bucket>> \notin B
    BY <1>5, <2>2
  <2>5. G[p] = K[p] /\ G[v] = K[v] + L /\ K[p] \in Nat /\ K[v] \in Nat /\ K[q] \in Nat
    BY <1>1, <2>3, <2>4 DEF Sent
  <2>6. CASE q = v
    <3>1. G[p] + f[k].km - G[q] = K[p] - K[v]
      BY <1>1, <2>1, <2>5, <2>6
    <3> QED
      BY <1>1, <1>3, <3>1
  <2>7. CASE q # v
    <3>1. <<q, f[k].bucket>> \in B
      BY <1>5, <2>7
    <3>2. Under(U, K[p] + f[k].km - K[q])
      BY <1>5, <2>1, <2>4, <3>1 DEF CloseTo
    <3>3. G[q] = K[q]
      BY <2>7 DEF Sent
    <3> QED
      BY <2>5, <3>2, <3>3
  <2> QED
    BY <2>6, <2>7
<1> QED
  BY <1>4, <1>5 DEF CloseTo

\* The facts about the plan that Sent needs.
LEMMA SameLength ==
    ASSUME LedgerInv, Alike
    PROVE  \E L \in Nat : L \in Bounds /\ \A k \in Job : trips[k].longHaul => trips[k].km = L
<1>1. \A k \in Job : trips[k].km \in Nat
  BY InputAssumption DEF LedgerInv, HaulInv, TypeOK
<1>2. IsFiniteSet(Lengths)
  <2>1. IsFiniteSet(FarTrips)
    BY IdAssumption, FS_Subset DEF FarTrips
  <2> DEFINE f == [k \in FarTrips |-> trips[k].km]
  <2>2. f \in Surjection(FarTrips, Lengths)
    BY DEF Lengths, Surjection
  <2> QED
    BY <2>1, <2>2, FS_Surjection
<1>3. PICK L : Lengths = {L}
  BY <1>2, FS_Singleton DEF Alike
<1>4. L \in Nat /\ L \in Bounds
  BY <1>1, <1>3 DEF Lengths, FarTrips, Bounds
<1>5. \A k \in Job : trips[k].longHaul => trips[k].km \in Lengths
  BY DEF Lengths, FarTrips
<1> QED
  BY <1>3, <1>4, <1>5

\* The kilometres after a trip.
LEMMA AssignDrives ==
    ASSUME LedgerInv, NEW j \in Job, NEW v \in Truck, Assign(j, v)
    PROVE  /\ Kilometres \in [Truck -> Nat] /\ Kilometres' \in [Truck -> Nat]
           /\ Kilometres'[v] =
                Kilometres[v] + (IF trips[j].longHaul THEN trips[j].km ELSE 0)
           /\ \A w \in Truck : w # v => Kilometres'[w] = Kilometres[w]
<1>1. HaulInv /\ HaulInv' /\ fleet' = fleet
  BY AssignStep DEF LedgerInv, Assign
<1>2. /\ flows \in [Truck \X Bucket -> Flow] /\ flows' \in [Truck \X Bucket -> Flow]
      /\ \A w \in Truck : fleet[w].opening \in Nat
      /\ trips[j].longHaul \in BOOLEAN /\ trips[j].km \in Nat
  BY <1>1, InputAssumption DEF HaulInv, TypeOK
<1> PICK F, G, o, K, M :
       /\ F = flows /\ G = flows' /\ o = [w \in Truck |-> fleet[w].opening]
       /\ K = Kilometres /\ M = Kilometres'
  OBVIOUS
<1> PICK km : km = IF trips[j].longHaul THEN trips[j].km ELSE 0
  OBVIOUS
<1>3. o \in [Truck -> Nat] /\ km \in Nat
  BY <1>2
<1>4. Grown(F, G, v, km)
  BY <1>1, AssignRecords
<1>5. K = [w \in Truck |-> o[w] + SumFunction(FarFlow(F, w))]
  BY DEF Kilometres, LongHaulKm, FarFlow
<1>6. M = [w \in Truck |-> o[w] + SumFunction(FarFlow(G, w))]
  BY <1>1 DEF Kilometres, LongHaulKm, FarFlow
<1>7. \A w \in Truck : SumFunction(FarFlow(F, w)) \in Nat /\ SumFunction(FarFlow(G, w)) \in Nat
  BY <1>2, FlowSums
<1>8. K \in [Truck -> Nat] /\ M \in [Truck -> Nat]
  BY <1>3, <1>5, <1>6, <1>7
<1>9. M[v] = K[v] + km
  <2>1. SumFunction(FarFlow(G, v)) = SumFunction(FarFlow(F, v)) + km
    BY <1>4 DEF Grown
  <2> QED
    BY <1>3, <1>5, <1>6, <1>7, <2>1
<1>10. \A w \in Truck : w # v => M[w] = K[w]
  BY <1>4, <1>5, <1>6 DEF Grown
<1> QED
  BY <1>8, <1>9, <1>10

LEMMA AssignKeepsGap ==
    ASSUME GapInv, NEW j \in Job, NEW v \in Truck, Assign(j, v)
    PROVE  GapInv'
<1>1. LedgerInv /\ LedgerInv' /\ HaulInv
  BY AssignKeepsLedger DEF GapInv, LedgerInv
<1>2. /\ trips' = trips /\ fleet' = fleet /\ unassigned' = unassigned
      /\ busy' = busy \cup {<<v, trips[j].bucket>>}
      /\ assigned' = assigned \cup {<<j, v>>}
      /\ IsNext(j) /\ FurthestBehind(v, Feasible(j))
  BY DEF Assign
<1>3. SUFFICES ASSUME Alike' PROVE CloseTo(Bounds, Kilometres, trips, Remaining, busy)'
  BY <1>1 DEF GapInv
<1>4. Alike /\ Bounds' = Bounds
  BY <1>2, <1>3 DEF Alike, Carries, Lengths, FarTrips, Bounds
<1> PICK L \in Nat : L \in Bounds /\ \A k \in Job : trips[k].longHaul => trips[k].km = L
  BY <1>1, <1>4, SameLength
<1>5. Remaining' = Remaining \ {j}
  <2> DEFINE p == <<j, v>>
  <2>1. {a[1] : a \in assigned \cup {p}} = {a[1] : a \in assigned} \cup {p[1]}
    <3> HIDE DEF p
    <3> QED OBVIOUS
  <2>2. Handled' = Handled \cup {j}
    BY <1>2, <2>1 DEF Handled
  <2> QED
    BY <2>2 DEF Remaining
<1> PICK U, K, G, f, R, B :
       /\ U = Bounds /\ K = Kilometres /\ G = Kilometres' /\ f = trips
       /\ R = Remaining /\ B = busy
  OBVIOUS
<1>6. CloseTo(U, K, f, R, B)
  BY <1>4 DEF GapInv
<1>7. Sent(U, K, G, f, j, v, L, R, B)
  <2>1. U \subseteq Int
    <3>1. \A w \in Truck : fleet[w].opening \in Nat
      BY <1>1, InputAssumption DEF HaulInv, TypeOK
    <3>2. \A k \in Job : trips[k].km \in Nat
      BY <1>1, InputAssumption DEF HaulInv, TypeOK
    <3> QED
      BY <3>1, <3>2 DEF Bounds, Lengths, FarTrips
  <2>2. K \in [Truck -> Nat] /\ f \in Trips /\ R \subseteq Job /\ j \in R
    BY <1>1, <1>2, AssignDrives DEF HaulInv, TypeOK, Remaining, IsNext
  <2>3. \A k \in Job : f[k].longHaul => f[k].km = L
    OBVIOUS
  <2>4. /\ G[v] = K[v] + (IF f[j].longHaul THEN L ELSE 0)
        /\ \A w \in Truck : w # v => G[w] = K[w]
    BY <1>1, <2>3, AssignDrives
  <2>5. <<v, f[j].bucket>> \notin B
    BY <1>2 DEF FurthestBehind, Feasible
  <2>6. \A w \in Truck : <<w, f[j].bucket>> \notin B => K[v] <= K[w]
    <3> SUFFICES ASSUME NEW w \in Truck, <<w, f[j].bucket>> \notin B PROVE K[v] <= K[w]
      OBVIOUS
    <3>1. w \in Feasible(j)
      BY <1>4 DEF Feasible, Alike
    <3>2. LongHaulKm(v) < LongHaulKm(w) \/ LongHaulKm(v) = LongHaulKm(w)
      BY <1>2, <3>1 DEF FurthestBehind
    <3>3. K[v] = LongHaulKm(v) /\ K[w] = LongHaulKm(w) /\ K[v] \in Nat /\ K[w] \in Nat
      BY <2>2 DEF Kilometres
    <3> QED
      BY <3>2, <3>3
  <2>7. \A k \in R : \/ f[j].bucket < f[k].bucket
                     \/ f[j].bucket = f[k].bucket /\ (f[k].longHaul => f[j].longHaul)
    BY <1>2 DEF IsNext, Before
  <2>8. \A w \in Truck, b \in Bucket, k \in R : <<w, b>> \in B => b <= f[k].bucket
    <3> SUFFICES ASSUME NEW w \in Truck, NEW b \in Bucket, NEW k \in R, <<w, b>> \in B
                 PROVE  b <= f[k].bucket
      OBVIOUS
    <3>1. PICK a \in assigned : <<w, b>> = <<a[2], trips[a[1]].bucket>>
      BY <1>1 DEF HaulInv, BusyInv
    <3>2. a[1] \in Handled
      BY DEF Handled
    <3>3. Before(a[1], k)
      BY <1>1, <3>2 DEF HaulInv, OrderInv
    <3>4. b = trips[a[1]].bucket /\ f[k].bucket \in Nat /\ b \in Nat
      BY <1>1, <2>2, <3>1, InputAssumption DEF HaulInv, TypeOK, Bucket
    <3> QED
      BY <3>3, <3>4 DEF Before
  <2> QED
    BY <2>1, <2>2, <2>3, <2>4, <2>5, <2>6, <2>7, <2>8 DEF Sent
<1>8. CloseTo(U, G, f, R \ {j}, B \cup {<<v, f[j].bucket>>})
  BY <1>6, <1>7, GapStep
<1> QED
  BY <1>2, <1>4, <1>5, <1>8

LEMMA InitGap == HaulInit => GapInv
<1> SUFFICES ASSUME HaulInit PROVE GapInv
  OBVIOUS
<1>1. LedgerInv /\ busy = {}
  BY InitLedger DEF HaulInit
<1>2. \A v \in Truck : fleet[v].opening \in Nat /\ LongHaulKm(v) = fleet[v].opening
  <2> SUFFICES ASSUME NEW v \in Truck PROVE fleet[v].opening \in Nat /\ LongHaulKm(v) = fleet[v].opening
    OBVIOUS
  <2>1. fleet[v].opening \in Nat
    BY <1>1, InputAssumption DEF LedgerInv, HaulInv, TypeOK
  <2> PICK X : X = Given(v)
    OBVIOUS
  <2>2. X = {}
    BY DEF Given, HaulInit
  <2>3. Driven(v) = Way(trips, {}) /\ trips \in Trips
    BY <1>1, <2>2 DEF Driven, Far, Way, FarOf, HaulInit
  <2>4. Way(trips, {}) = 0
    BY <2>3, NoWay
  <2>5. LongHaulKm(v) = fleet[v].opening + Driven(v)
    BY <1>1 DEF LedgerInv, LedgerIsPlan
  <2>6. Driven(v) = 0
    BY <2>3, <2>4
  <2> QED
    BY <2>1, <2>5, <2>6
<1>3. \A v, w \in Truck : Under(Bounds, Kilometres[v] - Kilometres[w])
  <2> SUFFICES ASSUME NEW v \in Truck, NEW w \in Truck
               PROVE  Under(Bounds, Kilometres[v] - Kilometres[w])
    OBVIOUS
  <2>1. Kilometres[v] - Kilometres[w] = fleet[v].opening - fleet[w].opening
    BY <1>2 DEF Kilometres
  <2>2. fleet[v].opening - fleet[w].opening \in Bounds
    BY DEF Bounds
  <2>3. fleet[v].opening - fleet[w].opening \in Int
    BY <1>2
  <2> QED
    BY <2>1, <2>2, <2>3 DEF Under
<1>4. CloseTo(Bounds, Kilometres, trips, Remaining, busy)
  BY <1>1, <1>3 DEF CloseTo
<1> QED
  BY <1>1, <1>4 DEF GapInv

LEMMA NextGap == GapInv /\ [HaulNext]_haulVars => GapInv'
<1> SUFFICES ASSUME GapInv, [HaulNext]_haulVars PROVE GapInv'
  OBVIOUS
<1>1. LedgerInv'
  BY NextLedger DEF GapInv
<1>2. ASSUME UNCHANGED <<trips, fleet, flows, busy>>, Remaining' \subseteq Remaining
      PROVE  GapInv'
  <2>1. Kilometres' = Kilometres /\ Bounds' = Bounds /\ (Alike' => Alike)
    BY <1>2 DEF Kilometres, LongHaulKm, Bounds, Lengths, FarTrips, Alike, Carries
  <2> PICK U, K, f, R, B, Q :
         /\ U = Bounds /\ K = Kilometres /\ f = trips
         /\ R = Remaining /\ B = busy /\ Q = Remaining'
    OBVIOUS
  <2>2. CloseTo(U, K, f, R, B) => CloseTo(U, K, f, Q, B)
    BY <1>2 DEF CloseTo
  <2> QED
    BY <1>1, <1>2, <2>1, <2>2 DEF GapInv
<1>3. CASE \E j \in Job : LeaveUnassigned(j)
  <2>1. UNCHANGED <<trips, fleet, flows, busy, assigned>> /\ unassigned \subseteq unassigned'
    BY <1>3 DEF LeaveUnassigned
  <2>2. Remaining' \subseteq Remaining
    BY <2>1 DEF Remaining, Handled
  <2> QED
    BY <1>2, <2>1, <2>2
<1>4. CASE \E j \in Job : RaiseKeyError(j)
  BY <1>2, <1>4 DEF RaiseKeyError, Remaining, Handled
<1>5. CASE \E j \in Job, v \in Truck : Assign(j, v)
  BY <1>5, AssignKeepsGap
<1>6. CASE Finish
  BY <1>2, <1>6 DEF Finish, Remaining, Handled
<1>7. CASE UNCHANGED haulVars
  BY <1>2, <1>7 DEF haulVars, Remaining, Handled
<1> QED
  BY <1>3, <1>4, <1>5, <1>6, <1>7 DEF HaulNext

\* With trucks that can take every trip and long hauls of one length, no run widens the
\* gap between any two trucks beyond what it was, or one long haul: a truck that is
\* already out in the bucket was sent when it was the furthest behind.
THEOREM TheGapStaysBounded == HaulSpec => []GapIsBounded
<1>1. GapInv => GapIsBounded
  <2> SUFFICES ASSUME GapInv PROVE GapIsBounded
    OBVIOUS
  <2>1. Alike => \A v, w \in Truck : \E e \in Bounds : LongHaulKm(v) - LongHaulKm(w) <= e
    BY DEF GapInv, CloseTo, Under, Kilometres
  <2> QED
    BY <2>1 DEF GapIsBounded, Bounds, Lengths, FarTrips, Alike
<1> QED
  BY InitGap, NextGap, <1>1, PTL DEF HaulSpec

------------------------------------------------------------------------------
(***************************************************************************)
(* The mapping.                                                            *)
(***************************************************************************)

\* The lesser of two numbers is one of them, and not above either.
LEMMA LesserOfTwo ==
    ASSUME NEW a \in Int, NEW b \in Int
    PROVE  Min({a, b}) \in {a, b} /\ Min({a, b}) <= a /\ Min({a, b}) <= b
  <1>1. Min({a, b}) = IF a <= b THEN a ELSE b
    BY MinOfTwo
  <1> QED
    BY <1>1

\* The first of those that weigh most.
HasFirst(S, weight) ==
    \E o \in S : \A p \in S : weight[p] < weight[o] \/ (weight[p] = weight[o] /\ o <= p)

LEMMA FirstOfBest ==
    ASSUME NEW n \in Nat, NEW S \in SUBSET (0..n), S # {}, NEW weight, \A o \in S : weight[o] \in Int
    PROVE  HasFirst(S, weight)
  <1> DEFINE Upto(m) == {o \in S : o <= m}
             Reached == {m \in 0..n : Upto(m) # {} => HasFirst(Upto(m), weight)}
  <1>1. 0 \in Reached
    <2>1. 0 \in 0..n /\ \A o \in Upto(0) : o = 0
      OBVIOUS
    <2> QED
      BY <2>1 DEF HasFirst
  <1>2. ASSUME NEW b \in 1..n, b - 1 \in Reached PROVE b \in Reached
    <2>1. b \in 0..n /\ b - 1 \in 0..n
      OBVIOUS
    <2>2. CASE b \notin S
      <3>0. \A o \in S : o <= b <=> o <= b - 1
        BY <2>2
      <3>1. Upto(b) = Upto(b - 1)
        BY <3>0
      <3> QED
        BY <1>2, <2>1, <3>1
    <2>3. CASE b \in S /\ Upto(b - 1) = {}
      <3>1. \A o \in Upto(b) : o = b
        BY <2>3
      <3>2. b \in Upto(b)
        BY <2>3
      <3> QED
        BY <2>1, <3>1, <3>2 DEF HasFirst
    <2>4. CASE b \in S /\ Upto(b - 1) # {}
      <3>1. PICK o \in Upto(b - 1) : \A p \in Upto(b - 1) :
                   weight[p] < weight[o] \/ (weight[p] = weight[o] /\ o <= p)
        BY <1>2, <2>4 DEF HasFirst
      <3>2. \A p \in Upto(b) : p = b \/ p \in Upto(b - 1)
        OBVIOUS
      <3>3. /\ o \in Upto(b) /\ b \in Upto(b) /\ o < b
            /\ weight[o] \in Int /\ weight[b] \in Int /\ \A p \in Upto(b) : weight[p] \in Int
        BY <2>4
      <3>4. CASE weight[b] > weight[o]
        <4>1. \A p \in Upto(b) : weight[p] < weight[b] \/ (weight[p] = weight[b] /\ b <= p)
          BY <3>1, <3>2, <3>3, <3>4
        <4> QED
          BY <2>1, <3>3, <4>1 DEF HasFirst
      <3>5. CASE ~(weight[b] > weight[o])
        <4>1. weight[b] < weight[o] \/ (weight[b] = weight[o] /\ o <= b)
          BY <3>3, <3>5
        <4>2. \A p \in Upto(b) : weight[p] < weight[o] \/ (weight[p] = weight[o] /\ o <= p)
          BY <3>1, <3>2, <4>1
        <4> QED
          BY <2>1, <3>3, <4>2 DEF HasFirst
      <3> QED
        BY <3>4, <3>5
    <2> QED
      BY <2>2, <2>3, <2>4
  <1>3. Inductive(Reached, n)
    BY <1>1, <1>2 DEF Inductive
  <1>4. n \in Reached
    <2> HIDE DEF Reached
    <2> QED
      BY <1>3, Along
  <1>5. Upto(n) = S
    <2>1. \A o \in S : o <= n
      OBVIOUS
    <2> QED
      BY <2>1
  <1> QED
    BY <1>4, <1>5

\* A share of a whole is at most the whole, and the whole only of all.
LEMMA Share ==
    ASSUME NEW c \in Nat \ {0}, NEW w \in Nat \ {0}, NEW f \in 0..w
    PROVE  (c * f) \div w \in 0..c /\ ((c * f) \div w = c <=> f = w)
  <1> PICK q : q = (c * f) \div w
    OBVIOUS
  <1>1. c * f \in Nat /\ c * w \in Nat /\ c * f <= c * w /\ (c * f = c * w <=> f = w)
    OBVIOUS
  <1>2. q \in Int /\ q * w <= c * f /\ c * f < q * w + w
    BY <1>1
  <1>3. q >= 0
    <2> SUFFICES ASSUME q <= -1 PROVE FALSE
      BY <1>2
    <2>1. q * w + w <= 0
      BY <1>2
    <2> QED
      BY <1>1, <1>2, <2>1
  <1>4. q <= c
    <2> SUFFICES ASSUME q >= c + 1 PROVE FALSE
      BY <1>2
    <2>1. q * w >= c * w + w
      BY <1>2
    <2> QED
      BY <1>1, <1>2, <2>1
  <1>5. q = c => f = w
    BY <1>1, <1>2
  <1>6. f = w => q = c
    <2> SUFFICES ASSUME f = w, q < c PROVE FALSE
      BY <1>2, <1>4
    <2>1. q + 1 <= c
      BY <1>2
    <2>2. (q + 1) * w <= c * w
      BY <1>2, <2>1
    <2> QED
      BY <1>1, <1>2, <2>2
  <1> QED
    BY <1>2, <1>3, <1>4, <1>5, <1>6

------------------------------------------------------------------------------
\* Normalising keeps a cell a cell, and leaves nothing of nothing.
LEMMA NormaliseCell ==
    ASSUME NEW cell \in Cell
    PROVE  Normalise(cell) \in Cell /\ (Normalise(cell) # <<>> => cell # <<>>)
  <1>1. Len(cell) \in Nat /\ \A i \in 1..(Len(cell) - 1) : cell[i] \in Word
    BY LenProperties DEF Cell
  <1>2. SubSeq(cell, 1, Len(cell) - 1) \in Seq(Word)
    BY <1>1, SubSeqProperties
  <1>3. Front(cell) \in Cell
    BY <1>2 DEF Front, Cell
  <1> QED
    BY <1>3 DEF Normalise

\* Filling merged ranges keeps the sheet's shape, and its cells cells.
LEMMA GridType ==
    ASSUME NEW s \in Spreadsheets
    PROVE  FillMerged(s) \in Seq(Seq(Cell)) /\ Len(FillMerged(s)) = Len(s.rows)
  <1>1. s.rows \in Seq(Seq(Cell))
    BY SheetAssumption
  <1>2. \A m \in s.merged : m.row \in DOMAIN s.rows => m.left \in DOMAIN s.rows[m.row]
    BY SheetAssumption
  <1> PICK g : g = FillMerged(s)
    OBVIOUS
  <1> PICK n : n = Len(s.rows)
    OBVIOUS
  <1>3. n \in Nat /\ DOMAIN s.rows = 1..n
    BY <1>1, LenProperties
  <1>4. g = [r \in 1..n |-> g[r]] /\ DOMAIN g = 1..n
    BY <1>3 DEF FillMerged
  <1>5. ASSUME NEW r \in 1..n PROVE g[r] \in Seq(Cell)
    <2> PICK row : row = s.rows[r]
      OBVIOUS
    <2> PICK w : w = Len(row)
      OBVIOUS
    <2>1. row \in Seq(Cell)
      BY <1>1, <1>3, LenProperties
    <2>2. w \in Nat /\ DOMAIN row = 1..w /\ \A c \in 1..w : row[c] \in Cell
      BY <2>1, LenProperties
    <2>3. ASSUME NEW c \in 1..w PROVE g[r][c] \in Cell
      <3> DEFINE over == {m \in s.merged : m.row = r /\ c \in m.left..m.right}
      <3>1. g[r][c] = IF row[c] = <<>> /\ over # {} THEN row[(CHOOSE m \in over : TRUE).left]
                      ELSE row[c]
        BY <1>3, <2>2 DEF FillMerged
      <3>2. CASE over # {}
        <4>1. (CHOOSE m \in over : TRUE) \in over
          BY <3>2
        <4>2. (CHOOSE m \in over : TRUE).left \in DOMAIN row
          BY <1>2, <1>3, <4>1
        <4> QED
          BY <2>2, <3>1, <4>2
      <3>3. CASE over = {}
        BY <2>2, <3>1, <3>3
      <3> QED
        BY <3>2, <3>3
    <2>4. g[r] = [c \in 1..w |-> g[r][c]]
      <3>1. g[r] = [c \in DOMAIN row |->
                      LET over == {m \in s.merged : m.row = r /\ c \in m.left..m.right}
                      IN IF row[c] = <<>> /\ over # {} THEN row[(CHOOSE m \in over : TRUE).left]
                         ELSE row[c]]
        BY <1>3 DEF FillMerged
      <3> QED
        BY <2>2, <3>1, Zenon
    <2> QED
      BY <2>2, <2>3, <2>4
  <1> QED
    BY <1>3, <1>4, <1>5

LEMMA FirstNumbers ==
    ASSUME NEW n \in Nat
    PROVE  IsFiniteSet(1..n) /\ Cardinality(1..n) = n
  <1>1. PICK a \in Int : a = 1
    OBVIOUS
  <1>2. n \in Int
    OBVIOUS
  <1>3. IsFiniteSet(a..n) /\ Cardinality(a..n) = IF a > n THEN 0 ELSE n - a + 1
    BY <1>2, FS_Interval
  <1> QED
    BY <1>1, <1>3

\* What is counted of a row, and when the counts are extreme.
LEMMA RowFacts ==
    ASSUME NEW row \in Seq(Cell)
    PROVE  /\ FilledCells(row) \subseteq 1..Len(row) /\ IsFiniteSet(FilledCells(row))
           /\ Width(row) \in 0..Len(row)
           /\ Width(row) = 0 <=> FilledCells(row) = {}
           /\ Width(row) = Len(row) <=> \A c \in DOMAIN row : row[c] # <<>>
           /\ Numerics(row) \in 0..Width(row)
           /\ Numerics(row) = 0 <=> \A c \in FilledCells(row) : ~LooksNumeric(row[c])
           /\ Distinct(row) \in 0..Width(row)
           /\ Distinct(row) = Width(row) <=>
                \A c, d \in FilledCells(row) : Normalise(row[c]) = Normalise(row[d]) => c = d
  <1> PICK n : n = Len(row)
    OBVIOUS
  <1>1. n \in Nat /\ DOMAIN row = 1..n
    BY LenProperties
  <1>2. IsFiniteSet(1..n) /\ Cardinality(1..n) = n
    BY <1>1, FirstNumbers
  <1> DEFINE F == FilledCells(row)
  <1>3. F \subseteq 1..n
    BY <1>1 DEF FilledCells
  <1>4. IsFiniteSet(F) /\ Cardinality(F) <= n /\ (Cardinality(F) = n <=> F = 1..n)
    BY <1>2, <1>3, FS_Subset
  <1>5. Cardinality(F) \in Nat /\ (Cardinality(F) = 0 <=> F = {})
    BY <1>4, FS_CardinalityType, FS_EmptySet
  <1>6. F = 1..n <=> \A c \in DOMAIN row : row[c] # <<>>
    BY <1>1 DEF FilledCells
  <1> DEFINE N == {c \in F : LooksNumeric(row[c])}
  <1>7. IsFiniteSet(N) /\ Cardinality(N) <= Cardinality(F)
    BY <1>4, FS_Subset
  <1>8. Cardinality(N) \in Nat /\ (Cardinality(N) = 0 <=> N = {})
    BY <1>7, FS_CardinalityType, FS_EmptySet
  <1>9. Numerics(row) = Cardinality(N)
    BY DEF Numerics
  <1> DEFINE D == {Normalise(row[c]) : c \in F}
             name == [c \in F |-> Normalise(row[c])]
  <1>10. name \in Surjection(F, D)
    BY DEF Surjection
  <1>11. name \in Injection(F, D) <=>
           \A c, d \in F : Normalise(row[c]) = Normalise(row[d]) => c = d
    BY DEF Injection, IsInjective
  <1>12. Distinct(row) = Cardinality(D)
    BY DEF Distinct
  <1> HIDE DEF D, name
  <1>13. /\ IsFiniteSet(D) /\ Cardinality(D) <= Cardinality(F)
         /\ (Cardinality(D) = Cardinality(F) <=> name \in Injection(F, D))
    BY <1>4, <1>10, FS_Surjection
  <1>14. Cardinality(D) \in Nat
    BY <1>13, FS_CardinalityType
  <1>15. Width(row) = Cardinality(F)
    BY DEF Width
  <1> HIDE DEF F, N
  <1>16. /\ Width(row) \in 0..n /\ (Width(row) = 0 <=> F = {})
         /\ (Width(row) = n <=> \A c \in DOMAIN row : row[c] # <<>>)
    BY <1>1, <1>4, <1>5, <1>6, <1>15
  <1>17. Numerics(row) \in 0..Width(row) /\ (Numerics(row) = 0 <=> N = {})
    BY <1>5, <1>7, <1>8, <1>9, <1>15
  <1>18. Distinct(row) \in 0..Width(row) /\ (Distinct(row) = Width(row) <=>
           \A c, d \in F : Normalise(row[c]) = Normalise(row[d]) => c = d)
    BY <1>5, <1>11, <1>12, <1>13, <1>14, <1>15
  <1>19. N = {} <=> \A c \in F : ~LooksNumeric(row[c])
    BY DEF N
  <1> QED
    BY <1>3, <1>4, <1>16, <1>17, <1>18, <1>19 DEF F

\* A header that is hard to mistake: filled from end to end with text, no heading
\* like another, above numbers and rows of its width.
Clear(grid, i) ==
    LET row == grid[i + 1]
    IN /\ row # <<>>
       /\ \A c \in DOMAIN row : row[c] # <<>> /\ ~LooksNumeric(row[c])
       /\ \A c, d \in DOMAIN row : Normalise(row[c]) = Normalise(row[d]) => c = d
       /\ Followed(grid, i) = 600

LEMMA FollowedIs ==
    ASSUME NEW grid, NEW i
    PROVE  Followed(grid, i) \in -480..600
  <1>1. /\ -480 \in -480..600
        /\ \A a \in {420, 0}, b \in {180, 0} : a + b \in -480..600
    OBVIOUS
  <1>2. \/ Followed(grid, i) = -480
        \/ \E a \in {420, 0}, b \in {180, 0} : Followed(grid, i) = a + b
    BY DEF Followed
  <1> QED
    BY <1>1, <1>2

\* No row scores more than 1800, and those that do are clear.
LEMMA ScoreIs ==
    ASSUME NEW grid \in Seq(Seq(Cell)), NEW i \in 0..(Len(grid) - 1)
    PROVE  /\ Score(grid, i) \in Int /\ Score(grid, i) <= 1800
           /\ Score(grid, i) = 1800 <=> Clear(grid, i)
  <1> PICK row : row = grid[i + 1]
    OBVIOUS
  <1>1. row \in Seq(Cell)
    <2>1. i + 1 \in 1..Len(grid) /\ Len(grid) \in Nat
      BY LenProperties
    <2> QED
      BY <2>1, LenProperties
  <1>2. PICK n : n = Len(row)
    OBVIOUS
  <1>3. n \in Nat /\ DOMAIN row = 1..n /\ (n = 0 <=> row = <<>>)
    BY <1>1, <1>2, LenProperties, EmptySeq
  <1>4. PICK f : f = Width(row)
    OBVIOUS
  <1>5. PICK m : m = Numerics(row)
    OBVIOUS
  <1>6. PICK d : d = Distinct(row)
    OBVIOUS
  <1>7. PICK u : u = Followed(grid, i)
    OBVIOUS
  <1>8. /\ f \in 0..n /\ (f = 0 <=> FilledCells(row) = {})
        /\ (f = n <=> \A c \in DOMAIN row : row[c] # <<>>)
        /\ m \in 0..f /\ (m = 0 <=> \A c \in FilledCells(row) : ~LooksNumeric(row[c]))
        /\ d \in 0..f
        /\ d = f <=>
             \A b, c \in FilledCells(row) : Normalise(row[b]) = Normalise(row[c]) => b = c
    BY <1>1, <1>2, <1>4, <1>5, <1>6, RowFacts
  <1>9. u \in -480..600
    BY <1>7, FollowedIs
  <1>10. Score(grid, i) = IF f = 0 THEN 0
           ELSE (360 * f) \div n + (480 * (f - m)) \div f + (360 * d) \div f + u
                - (IF f <= 2 /\ n > 3 THEN 600 ELSE 0)
    BY <1>2, <1>4, <1>5, <1>6, <1>7 DEF Score
  <1>11. Clear(grid, i) <=>
           /\ row # <<>>
           /\ \A c \in DOMAIN row : row[c] # <<>> /\ ~LooksNumeric(row[c])
           /\ \A b, c \in DOMAIN row : Normalise(row[b]) = Normalise(row[c]) => b = c
           /\ u = 600
    BY <1>7 DEF Clear
  <1>12. (\A c \in DOMAIN row : row[c] # <<>>) => FilledCells(row) = DOMAIN row
    BY DEF FilledCells
  <1>13. Clear(grid, i) <=> n # 0 /\ f = n /\ m = 0 /\ d = f /\ u = 600
    <2>1. Clear(grid, i) => n # 0 /\ f = n /\ m = 0 /\ d = f /\ u = 600
      <3> SUFFICES ASSUME Clear(grid, i)
                   PROVE  n # 0 /\ f = n /\ m = 0 /\ d = f /\ u = 600
        OBVIOUS
      <3>1. FilledCells(row) = DOMAIN row /\ n # 0 /\ f = n /\ u = 600
        BY <1>3, <1>8, <1>11, <1>12
      <3>2. \A c \in FilledCells(row) : ~LooksNumeric(row[c])
        BY <1>11, <3>1
      <3>3. \A b, c \in FilledCells(row) : Normalise(row[b]) = Normalise(row[c]) => b = c
        BY <1>11, <3>1
      <3> QED
        BY <1>8, <3>1, <3>2, <3>3
    <2>2. n # 0 /\ f = n /\ m = 0 /\ d = f /\ u = 600 => Clear(grid, i)
      BY <1>3, <1>8, <1>11, <1>12
    <2> QED
      BY <2>1, <2>2
  <1>14. CASE f = 0
    <2>1. Score(grid, i) = 0 /\ ~Clear(grid, i)
      BY <1>10, <1>13, <1>14
    <2> QED
      BY <2>1
  <1>15. CASE f # 0
    <2>1. PICK x : x = (360 * f) \div n
      OBVIOUS
    <2>2. PICK y : y = (480 * (f - m)) \div f
      OBVIOUS
    <2>3. PICK z : z = (360 * d) \div f
      OBVIOUS
    <2>4. f \in Nat \ {0} /\ n \in Nat \ {0} /\ f - m \in 0..f
      BY <1>3, <1>8, <1>15
    <2>5. x \in 0..360 /\ (x = 360 <=> f = n)
      <3>1. PICK c \in Nat \ {0} : c = 360
        OBVIOUS
      <3>2. (c * f) \div n \in 0..c /\ ((c * f) \div n = c <=> f = n)
        BY <1>8, <2>4, Share
      <3> QED
        BY <2>1, <3>1, <3>2
    <2>6. y \in 0..480 /\ (y = 480 <=> m = 0)
      <3>1. PICK c \in Nat \ {0} : c = 480
        OBVIOUS
      <3>2. PICK t \in 0..f : t = f - m
        BY <2>4
      <3>3. (c * t) \div f \in 0..c /\ ((c * t) \div f = c <=> t = f)
        BY <2>4, Share
      <3>4. y \in 0..480 /\ (y = 480 <=> t = f)
        BY <2>2, <3>1, <3>2, <3>3
      <3> QED
        BY <1>8, <2>4, <3>2, <3>4
    <2>7. z \in 0..360 /\ (z = 360 <=> d = f)
      <3>1. PICK c \in Nat \ {0} : c = 360
        OBVIOUS
      <3>2. (c * d) \div f \in 0..c /\ ((c * d) \div f = c <=> d = f)
        BY <1>8, <2>4, Share
      <3> QED
        BY <2>3, <3>1, <3>2
    <2>e. PICK e : e = IF f <= 2 /\ n > 3 THEN 600 ELSE 0
      OBVIOUS
    <2>8. Score(grid, i) = x + y + z + u - e
      BY <1>10, <1>15, <2>1, <2>2, <2>3, <2>e
    <2>i. e \in {0, 600} /\ (f = n => e = 0)
      BY <2>4, <2>e
    <2>9. Score(grid, i) \in Int /\ Score(grid, i) <= 1800
      BY <1>9, <2>5, <2>6, <2>7, <2>8, <2>i
    <2>10. Score(grid, i) = 1800 <=> x = 360 /\ y = 480 /\ z = 360 /\ u = 600
      <3>1. Score(grid, i) = 1800 => x = 360 /\ y = 480 /\ z = 360 /\ u = 600
        <4>1. /\ x \in Int /\ y \in Int /\ z \in Int /\ u \in Int /\ e \in Int
              /\ x <= 360 /\ y <= 480 /\ z <= 360 /\ u <= 600 /\ e >= 0
          BY <1>9, <2>5, <2>6, <2>7, <2>i
        <4>2. x + y + z + u - e = 1800 => x = 360 /\ y = 480 /\ z = 360 /\ u = 600
          BY <4>1
        <4> QED
          BY <2>8, <4>2
      <3> QED
        BY <2>5, <2>8, <2>i, <3>1
    <2> QED
      BY <1>13, <2>4, <2>5, <2>6, <2>7, <2>9, <2>10
  <1> QED
    BY <1>14, <1>15

\* The rows that are looked at, and the best of them: a clear one if there is one,
\* and the first.
Scanned(grid) == 0..(Min({Len(grid), MaxScan}) - 1)

LEMMA BestRowIs ==
    ASSUME NEW grid \in Seq(Seq(Cell)), grid # <<>>
    PROVE  /\ BestRow(grid) \in Scanned(grid)
           /\ \A h \in Scanned(grid) :
                Clear(grid, h) /\ (\A i \in 0..(h - 1) : ~Clear(grid, i)) => BestRow(grid) = h
  <1>1. PICK n : n = Min({Len(grid), MaxScan}) - 1
    OBVIOUS
  <1>2. Len(grid) \in Nat \ {0} /\ MaxScan \in Nat \ {0}
    BY LenProperties, EmptySeq, BoundAssumption
  <1>3. n \in Nat /\ n <= Len(grid) - 1
    <2>1. Len(grid) \in Int /\ MaxScan \in Int
      BY <1>2
    <2>2. /\ Min({Len(grid), MaxScan}) \in {Len(grid), MaxScan}
          /\ Min({Len(grid), MaxScan}) <= Len(grid)
      BY <2>1, LesserOfTwo
    <2> QED
      BY <1>1, <1>2, <2>2
  <1>4. PICK score : score = [i \in 0..n |-> Score(grid, i)]
    OBVIOUS
  <1>5. ASSUME NEW i \in 0..n
        PROVE  score[i] \in Int /\ score[i] <= 1800 /\ (score[i] = 1800 <=> Clear(grid, i))
    <2>1. i \in 0..(Len(grid) - 1)
      BY <1>2, <1>3
    <2> QED
      BY <1>4, <2>1, ScoreIs
  <1>6. PICK S : S = 0..n
    OBVIOUS
  <1>7. S \in SUBSET (0..n) /\ S # {} /\ \A o \in S : score[o] \in Int
    <2>1. 0 \in S
      BY <1>3, <1>6
    <2> QED
      <3>1. S \in SUBSET (0..n)
        BY <1>6
      <3>2. \A o \in S : score[o] \in Int
        BY <1>5, <1>6
      <3> QED
        BY <2>1, <3>1, <3>2
  <1>8. HasFirst(S, score)
    BY <1>3, <1>7, FirstOfBest
  <1> DEFINE best == CHOOSE i \in S : \A j \in S :
                        score[j] < score[i] \/ (score[j] = score[i] /\ i <= j)
  <1>9. best \in S /\ \A j \in S : score[j] < score[best] \/ (score[j] = score[best] /\ best <= j)
    BY <1>8 DEF HasFirst
  <1>10. BestRow(grid) = best
    BY <1>1, <1>4, <1>6 DEF BestRow
  <1> HIDE DEF best
  <1>11. ASSUME NEW h \in 0..n, Clear(grid, h), \A i \in 0..(h - 1) : ~Clear(grid, i)
         PROVE  best = h
    <2>1. score[h] = 1800 /\ score[best] \in Int /\ score[best] <= 1800 /\ best \in 0..n
      BY <1>5, <1>6, <1>9, <1>11
    <2>2. score[h] < score[best] \/ (score[h] = score[best] /\ best <= h)
      BY <1>6, <1>9
    <2>3. score[best] = 1800 /\ best <= h
      BY <2>1, <2>2
    <2>4. Clear(grid, best)
      BY <1>5, <2>1, <2>3
    <2>5. best < h => best \in 0..(h - 1)
      BY <1>3, <2>1
    <2> QED
      BY <1>3, <1>11, <2>1, <2>3, <2>4, <2>5
  <1> QED
    BY <1>1, <1>6, <1>9, <1>10, <1>11 DEF Scanned

\* Only blank cells are trimmed, and only from the end.
LEMMA TrimmedIs ==
    ASSUME NEW row \in Seq(Cell)
    PROVE  /\ Trimmed(row) \in Seq(Cell) /\ Len(Trimmed(row)) <= Len(row)
           /\ \A c \in DOMAIN Trimmed(row) : c \in DOMAIN row /\ Trimmed(row)[c] = row[c]
           /\ \A c \in DOMAIN row : row[c] # <<>> => c \in DOMAIN Trimmed(row)
  <1>1. PICK n : n = Len(row)
    OBVIOUS
  <1>2. n \in Nat /\ DOMAIN row = 1..n /\ \A c \in 1..n : row[c] \in Cell
    BY <1>1, LenProperties
  <1>3. PICK S : S = {0} \cup FilledCells(row)
    OBVIOUS
  <1>4. S \subseteq 0..n /\ 0 \in S
    BY <1>1, <1>2, <1>3, RowFacts
  <1>5. PICK w : w = [c \in 0..n |-> c]
    OBVIOUS
  <1>6. \E x \in S : \A y \in S : x >= y
    <2>1. S # {} /\ \A o \in S : w[o] \in Int
      BY <1>4, <1>5
    <2>2. HasFirst(S, w)
      BY <1>2, <1>4, <2>1, FirstOfBest
    <2>3. PICK x \in S : \A y \in S : w[y] < w[x] \/ (w[y] = w[x] /\ x <= y)
      BY <2>2 DEF HasFirst
    <2>4. \A y \in S : w[y] = y /\ y \in Int
      BY <1>2, <1>4, <1>5
    <2> QED
      BY <2>3, <2>4
  <1>7. PICK m : m = Max(S)
    OBVIOUS
  <1>8. m \in S /\ \A y \in S : m >= y
    BY <1>6, <1>7 DEF Max
  <1>9. m \in 0..n
    BY <1>4, <1>8
  <1>10. Trimmed(row) = SubSeq(row, 1, m)
    BY <1>3, <1>7 DEF Trimmed
  <1>11. /\ SubSeq(row, 1, m) \in Seq(Cell)
         /\ Len(SubSeq(row, 1, m)) = m
         /\ \A i \in 1..m : SubSeq(row, 1, m)[i] = row[i]
    <2>1. PICK one \in Int : one = 1
      OBVIOUS
    <2>2. m \in Int /\ \A i \in one..m : row[i] \in Cell
      BY <1>2, <1>9, <2>1
    <2>3. /\ SubSeq(row, one, m) \in Seq(Cell)
          /\ Len(SubSeq(row, one, m)) = IF one <= m THEN m - one + 1 ELSE 0
          /\ \A i \in 1..(m - one + 1) : SubSeq(row, one, m)[i] = row[one + i - 1]
      BY <2>2, SubSeqProperties
    <2> QED
      BY <1>9, <2>1, <2>3
  <1>12. DOMAIN Trimmed(row) = 1..m
    BY <1>10, <1>11, LenProperties
  <1>13. \A c \in DOMAIN row : row[c] # <<>> => c \in 1..m
    <2>1. \A c \in DOMAIN row : row[c] # <<>> => c \in S
      BY <1>3 DEF FilledCells
    <2> QED
      BY <1>2, <1>8, <1>9, <2>1
  <1> QED
    BY <1>1, <1>2, <1>9, <1>10, <1>11, <1>12, <1>13

LEMMA CellAtIs ==
    ASSUME NEW row \in Seq(Cell), NEW c
    PROVE  CellAt(row, c) \in Cell
  <1>1. <<>> \in Cell
    BY DEF Cell
  <1>2. \A d \in DOMAIN row : row[d] \in Cell
    BY LenProperties
  <1> QED
    BY <1>1, <1>2 DEF CellAt

LEMMA MergeTwoType ==
    ASSUME NEW top \in Seq(Cell), NEW bottom \in Seq(Cell)
    PROVE  MergeTwo(top, bottom) \in Seq(Cell)
  <1>1. PICK n : n = Max({Len(top), Len(bottom)})
    OBVIOUS
  <1>2. n \in Nat
    <2>1. Len(top) \in Nat /\ Len(bottom) \in Nat
      BY LenProperties
    <2>2. Max({Len(top), Len(bottom)}) \in {Len(top), Len(bottom)}
      BY <2>1, MaxOfTwo
    <2> QED
      BY <1>1, <2>1, <2>2
  <1>3. PICK t : t = MergeTwo(top, bottom)
    OBVIOUS
  <1>4. t = [c \in 1..n |-> t[c]] /\ DOMAIN t = 1..n
    BY <1>1, <1>3 DEF MergeTwo
  <1>5. ASSUME NEW c \in 1..n PROVE t[c] \in Cell
    <2>1. PICK upper : upper = CellAt(top, c)
      OBVIOUS
    <2>2. PICK lower : lower = CellAt(bottom, c)
      OBVIOUS
    <2>3. upper \in Cell /\ lower \in Cell
      BY <2>1, <2>2, CellAtIs
    <2>4. upper \o lower \in Cell
      BY <2>3, ConcatProperties DEF Cell
    <2>5. t[c] \in {upper \o lower, lower, upper}
      BY <1>1, <1>3, <2>1, <2>2 DEF MergeTwo
    <2> QED
      BY <2>3, <2>4, <2>5
  <1> QED
    BY <1>2, <1>3, <1>4, <1>5

\* What inspect answers: of an empty sheet nothing, of another a row and its cells.
LEMMA InspectIs ==
    ASSUME NEW grid \in Seq(Seq(Cell))
    PROVE  /\ Inspect(grid).columns \in Seq(Cell)
           /\ Inspect(grid).row \in 0..(MaxScan - 1)
           /\ Inspect(grid).grouped \in BOOLEAN
           /\ grid = <<>> => Inspect(grid).columns = <<>>
                             /\ Inspect(grid).row = 0 /\ Inspect(grid).first = 0
           /\ grid # <<>> => /\ Inspect(grid).row = BestRow(grid)
                             /\ Inspect(grid).first = BestRow(grid) + 1
                             /\ BestRow(grid) + 1 \in 1..Len(grid)
                             /\ ~Inspect(grid).grouped =>
                                  Inspect(grid).columns = Trimmed(grid[BestRow(grid) + 1])
  <1>m. MaxScan \in Nat \ {0}
    BY BoundAssumption
  <1>1. CASE grid = <<>>
    <2>1. Inspect(grid) = [row |-> 0, first |-> 0, grouped |-> FALSE, columns |-> <<>>]
      BY <1>1 DEF Inspect
    <2>2. <<>> \in Seq(Cell)
      OBVIOUS
    <2> QED
      <3>1. /\ Inspect(grid).row = 0 /\ Inspect(grid).first = 0
            /\ Inspect(grid).columns = <<>> /\ Inspect(grid).grouped \in BOOLEAN
        BY <2>1
      <3>2. 0 \in 0..(MaxScan - 1)
        BY <1>m
      <3> QED
        BY <1>1, <2>2, <3>1, <3>2, Zenon
  <1>2. CASE grid # <<>>
    <2>1. PICK best : best = BestRow(grid)
      OBVIOUS
    <2>2. best \in Scanned(grid)
      BY <1>2, <2>1, BestRowIs
    <2>3. Len(grid) \in Nat
      BY LenProperties
    <2>4. best \in 0..(MaxScan - 1) /\ best \in 0..(Len(grid) - 1)
      <3>1. Len(grid) \in Int /\ MaxScan \in Int
        BY <1>m, <2>3
      <3>2. /\ Min({Len(grid), MaxScan}) \in {Len(grid), MaxScan}
            /\ Min({Len(grid), MaxScan}) <= Len(grid) /\ Min({Len(grid), MaxScan}) <= MaxScan
        BY <3>1, LesserOfTwo
      <3> QED
        BY <1>m, <2>2, <2>3, <3>2 DEF Scanned
    <2>5. PICK grouped : grouped = IsGrouped(grid, best)
      OBVIOUS
    <2>6. PICK columns : columns = Trimmed(IF grouped THEN MergeTwo(grid[best], grid[best + 1])
                                           ELSE grid[best + 1])
      OBVIOUS
    <2>7. Inspect(grid) = [row |-> best, first |-> best + 1, grouped |-> grouped,
                           columns |-> columns]
      BY <1>2, <2>1, <2>5, <2>6 DEF Inspect
    <2>8. grouped \in BOOLEAN /\ (grouped => best > 0)
      BY <2>5 DEF IsGrouped
    <2>9. \A r \in 1..Len(grid) : grid[r] \in Seq(Cell)
      BY LenProperties
    <2>10. best + 1 \in 1..Len(grid) /\ (best > 0 => best \in 1..Len(grid))
      BY <2>3, <2>4
    <2>11. grid[best + 1] \in Seq(Cell) /\ (grouped => grid[best] \in Seq(Cell))
      BY <2>8, <2>9, <2>10
    <2>12. columns \in Seq(Cell)
      BY <2>6, <2>11, MergeTwoType, TrimmedIs
    <2> QED
      BY <1>2, <2>1, <2>4, <2>6, <2>7, <2>8, <2>10, <2>12
  <1> QED
    BY <1>1, <1>2

------------------------------------------------------------------------------
\* Flattening keeps every element of every sequence, and adds none.
Flattens(t, ss, V) ==
    /\ t \in Seq(V)
    /\ \A i \in DOMAIN t : \E j \in DOMAIN ss : \E k \in DOMAIN ss[j] : t[i] = ss[j][k]
    /\ \A j \in DOMAIN ss : \A k \in DOMAIN ss[j] : \E i \in DOMAIN t : t[i] = ss[j][k]

\* So does joining two sequences.
Joins(u, s, t, V) ==
    /\ u \in Seq(V)
    /\ \A i \in DOMAIN u : (\E k \in DOMAIN s : u[i] = s[k]) \/ (\E k \in DOMAIN t : u[i] = t[k])
    /\ \A k \in DOMAIN s : \E i \in DOMAIN u : u[i] = s[k]
    /\ \A k \in DOMAIN t : \E i \in DOMAIN u : u[i] = t[k]

LEMMA JoinElements ==
    ASSUME NEW V, NEW s \in Seq(V), NEW t \in Seq(V)
    PROVE  Joins(s \o t, s, t, V)
  <1>1. /\ s \o t \in Seq(V) /\ Len(s \o t) = Len(s) + Len(t)
        /\ \A i \in 1..(Len(s) + Len(t)) :
             (s \o t)[i] = IF i <= Len(s) THEN s[i] ELSE t[i - Len(s)]
    BY ConcatProperties
  <1>2. PICK u : u = s \o t
    OBVIOUS
  <1>3. PICK m \in Nat : m = Len(s) /\ DOMAIN s = 1..m
    BY LenProperties
  <1>4. PICK n \in Nat : n = Len(t) /\ DOMAIN t = 1..n
    BY LenProperties
  <1>5. DOMAIN u = 1..(m + n)
    BY <1>1, <1>2, <1>3, <1>4, LenProperties
  <1>6. \A i \in 1..(m + n) : u[i] = IF i <= m THEN s[i] ELSE t[i - m]
    BY <1>1, <1>2, <1>3, <1>4
  <1>7. ASSUME NEW i \in 1..(m + n)
        PROVE  (\E k \in 1..m : u[i] = s[k]) \/ (\E k \in 1..n : u[i] = t[k])
    <2>1. CASE i <= m
      BY <1>6, <2>1
    <2>2. CASE i > m
      <3>1. i - m \in 1..n /\ u[i] = t[i - m]
        BY <1>6, <2>2
      <3> QED
        BY <3>1
    <2> QED
      BY <2>1, <2>2
  <1>8. ASSUME NEW k \in 1..m PROVE \E i \in 1..(m + n) : u[i] = s[k]
    <2>1. k \in 1..(m + n) /\ u[k] = s[k]
      BY <1>6
    <2> QED
      BY <2>1
  <1>9. ASSUME NEW k \in 1..n PROVE \E i \in 1..(m + n) : u[i] = t[k]
    <2>1. m + k \in 1..(m + n) /\ ~(m + k <= m) /\ (m + k) - m = k
      OBVIOUS
    <2>2. u[m + k] = t[k]
      BY <1>6, <2>1
    <2> QED
      BY <2>1, <2>2
  <1>10. DOMAIN s = 1..m /\ DOMAIN t = 1..n /\ u \in Seq(V)
    BY <1>1, <1>2, <1>3, <1>4
  <1>11. Joins(u, s, t, V)
    BY <1>5, <1>7, <1>8, <1>9, <1>10, Zenon DEF Joins
  <1> QED
    BY <1>2, <1>11

LEMMA FlattenIs ==
    ASSUME NEW V, NEW ss \in Seq(Seq(V))
    PROVE  Flattens(FlattenSeq(ss), ss, V)
  <1>1. PICK n \in Nat : n = Len(ss) /\ DOMAIN ss = 1..n
    BY LenProperties
  <1>2. \A i \in 1..n : ss[i] \in Seq(V)
    BY <1>1, LenProperties
  <1>3. CASE n = 0
    <2>1. FlattenSeq(ss) = ss /\ ss = <<>>
      BY <1>1, <1>3, EmptySeq DEF FlattenSeq
    <2>2. <<>> \in Seq(V) /\ DOMAIN <<>> = {}
      OBVIOUS
    <2> QED
      BY <2>1, <2>2 DEF Flattens
  <1>4. CASE n # 0
    <2> DEFINE Solution(F) == F = [i \in 1..n |-> IF i = 1 THEN ss[i] ELSE F[i - 1] \o ss[i]]
    <2>1. \E F : Solution(F)
      <3>1. PICK step : step = [p \in (1..n) \X Seq(V) |->
                                  IF p[1] = 1 THEN ss[1] ELSE p[2] \o ss[p[1]]]
        OBVIOUS
      <3>2. \A b \in 1..n : \A x \in Seq(V) :
              step[<<b, x>>] = IF b = 1 THEN ss[1] ELSE x \o ss[b]
        BY <3>1
      <3>3. ASSUME NEW b \in 1..n, NEW x \in Seq(V) PROVE step[<<b, x>>] \in Seq(V)
        <4>1. x \o ss[b] \in Seq(V)
          BY <1>2, ConcatProperties
        <4> QED
          BY <1>2, <3>2, <4>1
      <3>4. Stepping(step, n, Seq(V))
        BY <3>3 DEF Stepping
      <3>5. <<>> \in Seq(V)
        OBVIOUS
      <3>6. PICK g \in [0..n -> Seq(V)] : Walks(g, step, <<>>, n)
        BY <3>4, <3>5, Walk
      <3>7. ASSUME NEW b \in 1..n PROVE g[b] = IF b = 1 THEN ss[b] ELSE g[b - 1] \o ss[b]
        <4>1. g[b - 1] \in Seq(V) /\ g[b] = step[<<b, g[b - 1]>>]
          BY <3>6 DEF Walks
        <4> QED
          BY <3>2, <4>1
      <3>8. PICK F : F = [i \in 1..n |-> g[i]]
        OBVIOUS
      <3>9. ASSUME NEW i \in 1..n PROVE F[i] = IF i = 1 THEN ss[i] ELSE F[i - 1] \o ss[i]
        <4>1. i # 1 => i - 1 \in 1..n /\ F[i - 1] = g[i - 1]
          BY <3>8
        <4> QED
          BY <3>7, <3>8, <4>1
      <3>10. Solution(F)
        BY <3>8, <3>9
      <3> QED
        BY <3>10
    <2>2. PICK F : F = CHOOSE G : Solution(G)
      OBVIOUS
    <2>3. Solution(F)
      BY <2>1, <2>2
    <2>4. \A i \in 1..n : F[i] = IF i = 1 THEN ss[i] ELSE F[i - 1] \o ss[i]
      BY <2>3
    <2>5. FlattenSeq(ss) = F[n]
      BY <1>1, <1>4, <2>2 DEF FlattenSeq
    <2> HIDE DEF Solution
    <2> DEFINE Prefix(b) == [i \in 1..b |-> ss[i]]
               Reached == {b \in 0..n : b = 0 \/ Flattens(F[b], Prefix(b), V)}
    <2>6. 0 \in Reached
      OBVIOUS
    <2>7. ASSUME NEW b \in 1..n, b - 1 \in Reached PROVE b \in Reached
      <3>1. DOMAIN Prefix(b) = 1..b /\ \A i \in 1..b : Prefix(b)[i] = ss[i]
        OBVIOUS
      <3>2. CASE b = 1
        <4>1. F[1] = ss[1] /\ ss[1] \in Seq(V)
          BY <1>2, <2>4, <3>2
        <4>2. DOMAIN Prefix(b) = {1}
          BY <3>1, <3>2
        <4>3. Flattens(F[1], Prefix(b), V)
          BY <3>1, <4>1, <4>2, Zenon DEF Flattens
        <4> QED
          BY <3>2, <4>3
      <3>3. CASE b # 1
        <4>1. b - 1 \in 1..n /\ b \in 0..n
          BY <3>3
        <4>2. PICK earlier : earlier = F[b - 1]
          OBVIOUS
        <4>3. Flattens(earlier, Prefix(b - 1), V)
          BY <2>7, <3>3, <4>1, <4>2
        <4>4. F[b] = earlier \o ss[b] /\ earlier \in Seq(V) /\ ss[b] \in Seq(V)
          BY <1>2, <2>4, <3>3, <4>2, <4>3 DEF Flattens
        <4>5. PICK all : all = F[b]
          OBVIOUS
        <4>6. /\ all \in Seq(V)
              /\ \A i \in DOMAIN all : \/ \E k \in DOMAIN earlier : all[i] = earlier[k]
                                       \/ \E k \in DOMAIN ss[b] : all[i] = ss[b][k]
              /\ \A k \in DOMAIN earlier : \E i \in DOMAIN all : all[i] = earlier[k]
              /\ \A k \in DOMAIN ss[b] : \E i \in DOMAIN all : all[i] = ss[b][k]
          <5>1. PICK new : new = ss[b]
            OBVIOUS
          <5>2. new \in Seq(V) /\ earlier \in Seq(V) /\ all = earlier \o new
            BY <4>4, <4>5, <5>1
          <5>3. Joins(earlier \o new, earlier, new, V)
            BY <5>2, JoinElements
          <5> QED
            BY <5>1, <5>2, <5>3, Zenon DEF Joins
        <4>7. /\ DOMAIN Prefix(b - 1) = 1..(b - 1)
              /\ \A i \in 1..(b - 1) : i \in 1..b /\ Prefix(b - 1)[i] = ss[i]
          OBVIOUS
        <4>8. ASSUME NEW i \in DOMAIN all
              PROVE  \E j \in 1..b : \E k \in DOMAIN ss[j] : all[i] = ss[j][k]
          <5>1. CASE \E k \in DOMAIN earlier : all[i] = earlier[k]
            <6>1. PICK k \in DOMAIN earlier : all[i] = earlier[k]
              BY <5>1
            <6>2. PICK j \in DOMAIN Prefix(b - 1) :
                        \E l \in DOMAIN Prefix(b - 1)[j] : earlier[k] = Prefix(b - 1)[j][l]
              BY <4>3 DEF Flattens
            <6>3. j \in 1..(b - 1)
              BY <4>7, <6>2, Zenon
            <6>4. j \in 1..b /\ Prefix(b - 1)[j] = ss[j]
              BY <4>7, <6>3, Zenon
            <6> QED
              BY <6>1, <6>2, <6>4, Zenon
          <5>2. CASE \E k \in DOMAIN ss[b] : all[i] = ss[b][k]
            <6>1. b \in 1..b
              OBVIOUS
            <6> QED
              BY <5>2, <6>1
          <5> QED
            BY <4>6, <5>1, <5>2
        <4>9. ASSUME NEW j \in 1..b, NEW k \in DOMAIN ss[j]
              PROVE  \E i \in DOMAIN all : all[i] = ss[j][k]
          <5>1. CASE j = b
            BY <4>6, <5>1
          <5>2. CASE j # b
            <6>1. j \in 1..(b - 1)
              BY <5>2
            <6>2. j \in DOMAIN Prefix(b - 1) /\ Prefix(b - 1)[j] = ss[j]
              BY <4>7, <6>1, Zenon
            <6>3. PICK l \in DOMAIN earlier : earlier[l] = ss[j][k]
              BY <4>3, <6>2, Zenon DEF Flattens
            <6> QED
              BY <4>6, <6>3
          <5> QED
            BY <5>1, <5>2
        <4>10. Flattens(all, Prefix(b), V)
          BY <3>1, <4>6, <4>8, <4>9, Zenon DEF Flattens
        <4> QED
          BY <4>1, <4>5, <4>10
      <3> QED
        BY <3>2, <3>3
    <2>8. Inductive(Reached, n)
      BY <2>6, <2>7 DEF Inductive
    <2>9. n \in Reached
      <3> HIDE DEF Reached
      <3> QED
        BY <2>8, Along
    <2>10. Prefix(n) = ss
      BY <1>1, LenProperties
    <2> QED
      BY <1>4, <2>5, <2>9, <2>10
  <1> QED
    BY <1>3, <1>4

------------------------------------------------------------------------------
Offer == [key : Cell, heading : Cell, weight : Int]

LEMMA ExpansionsType ==
    ASSUME NEW tail \in Cell, tail # <<>>
    PROVE  Expansions(tail) \in Seq(Cell)
  <1>1. PICK n \in Nat : n = Len(tail) /\ n # 0 /\ \A i \in 1..n : tail[i] \in Word
    BY LenProperties, EmptySeq DEF Cell
  <1>2. Front(tail) \in Cell
    <2>1. \A i \in 1..(Len(tail) - 1) : tail[i] \in Word
      BY <1>1
    <2>2. SubSeq(tail, 1, Len(tail) - 1) \in Seq(Word)
      BY <1>1, <2>1, SubSeqProperties
    <2> QED
      BY <2>2 DEF Front, Cell
  <1>3. \A word \in DOMAIN SuffixWord : SuffixWord[word] \in Word
    BY WordAssumption DEF Range
  <1>4. ASSUME Last(tail) \in DOMAIN SuffixWord
        PROVE  Append(Front(tail), SuffixWord[Last(tail)]) \in Cell
    <2>1. SuffixWord[Last(tail)] \in Word
      BY <1>3, <1>4
    <2> QED
      BY <1>2, <2>1, AppendProperties DEF Cell
  <1>5. PICK x : x = IF Len(tail) > 1 /\ Last(tail) \in Noise THEN <<Front(tail)>> ELSE <<>>
    OBVIOUS
  <1>6. PICK y : y = IF Last(tail) \in DOMAIN SuffixWord
                     THEN <<Append(Front(tail), SuffixWord[Last(tail)])>> ELSE <<>>
    OBVIOUS
  <1>7. x \in Seq(Cell) /\ y \in Seq(Cell)
    BY <1>2, <1>4, <1>5, <1>6
  <1>8. Expansions(tail) = x \o y
    BY <1>5, <1>6 DEF Expansions
  <1> QED
    BY <1>7, <1>8, ConcatProperties

\* A tail is offered itself, and all its offers are of the heading.
LEMMA TailOffersAre ==
    ASSUME NEW heading \in Cell, NEW tail \in Cell, tail # <<>>
    PROVE  /\ TailOffers(heading, tail) \in Seq({o \in Offer : o.heading = heading})
           /\ \E i \in DOMAIN TailOffers(heading, tail) : TailOffers(heading, tail)[i].key = tail
  <1>1. PICK n \in Nat : n = Len(tail)
    BY LenProperties DEF Cell
  <1>2. PICK more : more = Expansions(tail)
    OBVIOUS
  <1>3. more \in Seq(Cell)
    BY <1>2, ExpansionsType
  <1>4. PICK m \in Nat : m = Len(more) /\ DOMAIN more = 1..m /\ \A e \in 1..m : more[e] \in Cell
    BY <1>3, LenProperties
  <1>5. PICK V : V = {o \in Offer : o.heading = heading}
    OBVIOUS
  <1>6. PICK first : first = [key |-> tail, heading |-> heading, weight |-> n]
    OBVIOUS
  <1>7. first \in V /\ first.key = tail
    BY <1>5, <1>6 DEF Offer
  <1>8. PICK rest : rest = [e \in 1..m |-> [key |-> more[e], heading |-> heading, weight |-> n - 1]]
    OBVIOUS
  <1>9. rest \in Seq(V)
    <2>1. \A e \in 1..m : rest[e] \in V
      BY <1>4, <1>5, <1>8 DEF Offer
    <2>2. rest = [e \in 1..m |-> rest[e]]
      BY <1>8
    <2> QED
      BY <2>1, <2>2
  <1>10. TailOffers(heading, tail) = <<first>> \o rest
    BY <1>1, <1>2, <1>4, <1>6, <1>8 DEF TailOffers
  <1>11. <<first>> \in Seq(V) /\ DOMAIN <<first>> = {1} /\ <<first>>[1] = first
    BY <1>7
  <1>12. PICK one : one = <<first>>
    OBVIOUS
  <1>13. Joins(one \o rest, one, rest, V)
    BY <1>9, <1>11, <1>12, JoinElements
  <1>14. PICK all : all = one \o rest
    OBVIOUS
  <1>15. all \in Seq(V) /\ \E i \in DOMAIN all : all[i].key = tail
    <2>1. 1 \in DOMAIN one /\ one[1] = first
      BY <1>11, <1>12
    <2>2. \E i \in DOMAIN all : all[i] = one[1]
      BY <1>13, <1>14, <2>1 DEF Joins
    <2> QED
      BY <1>7, <1>13, <1>14, <2>1, <2>2 DEF Joins
  <1> QED
    BY <1>5, <1>10, <1>12, <1>14, <1>15

\* A heading offers its whole name, a blank one nothing.
LEMMA OffersOfAre ==
    ASSUME NEW heading \in Cell
    PROVE  /\ OffersOf(heading) \in Seq({o \in Offer : o.heading = heading})
           /\ OffersOf(heading) # <<>> => heading # <<>>
           /\ Normalise(heading) # <<>> =>
                \E i \in DOMAIN OffersOf(heading) : OffersOf(heading)[i].key = Normalise(heading)
  <1>1. PICK words : words = Normalise(heading)
    OBVIOUS
  <1>2. words \in Cell /\ (words # <<>> => heading # <<>>)
    BY <1>1, NormaliseCell
  <1>3. PICK n \in Nat : /\ n = Len(words) /\ DOMAIN words = 1..n /\ (n = 0 <=> words = <<>>)
                         /\ \A i \in 1..n : words[i] \in Word
    BY <1>2, LenProperties, EmptySeq DEF Cell
  <1>4. PICK V : V = {o \in Offer : o.heading = heading}
    OBVIOUS
  <1>5. PICK ss : ss = [k \in 1..n |-> TailOffers(heading, SubSeq(words, k, n))]
    OBVIOUS
  <1>6. OffersOf(heading) = FlattenSeq(ss)
    BY <1>1, <1>3, <1>5 DEF OffersOf
  <1>7. ASSUME NEW k \in 1..n
        PROVE  /\ ss[k] \in Seq(V)
               /\ \E i \in DOMAIN ss[k] : ss[k][i].key = SubSeq(words, k, n)
    <2>1. k \in Int /\ n \in Int /\ \A i \in k..n : words[i] \in Word
      BY <1>3
    <2>2. SubSeq(words, k, n) \in Seq(Word) /\ Len(SubSeq(words, k, n)) = n - k + 1
      BY <2>1, SubSeqProperties
    <2>3. PICK tail : tail = SubSeq(words, k, n)
      OBVIOUS
    <2>4. tail \in Cell /\ tail # <<>>
      <3>1. Len(tail) # 0
        BY <2>2, <2>3
      <3>2. Len(<<>>) = 0
        OBVIOUS
      <3>3. tail # <<>>
        BY <3>1, <3>2
      <3> QED
        BY <2>2, <2>3, <3>3 DEF Cell
    <2>5. /\ TailOffers(heading, tail) \in Seq({o \in Offer : o.heading = heading})
          /\ \E i \in DOMAIN TailOffers(heading, tail) : TailOffers(heading, tail)[i].key = tail
      BY <2>4, TailOffersAre
    <2>6. ss[k] = TailOffers(heading, tail)
      BY <1>5, <2>3
    <2> QED
      BY <1>4, <2>3, <2>5, <2>6
  <1>8. ss \in Seq(Seq(V)) /\ DOMAIN ss = 1..n
    <2>1. ss = [k \in 1..n |-> ss[k]]
      BY <1>5
    <2> QED
      BY <1>7, <2>1
  <1>9. PICK t : t = FlattenSeq(ss)
    OBVIOUS
  <1>10. Flattens(t, ss, V)
    BY <1>8, <1>9, FlattenIs
  <1>11. t # <<>> => heading # <<>>
    <2> SUFFICES ASSUME heading = <<>> PROVE t = <<>>
      OBVIOUS
    <2>1. n = 0
      BY <1>2, <1>3
    <2>2. DOMAIN t = {}
      <3>1. \A j : j \notin DOMAIN ss
        BY <1>8, <2>1
      <3> QED
        BY <1>10, <3>1, Zenon DEF Flattens
    <2>3. t \in Seq(V)
      BY <1>10 DEF Flattens
    <2> QED
      BY <2>2, <2>3, LenProperties, EmptySeq
  <1>12. ASSUME words # <<>> PROVE \E i \in DOMAIN t : t[i].key = words
    <2>1. 1 \in 1..n
      BY <1>3, <1>12
    <2>2. SubSeq(words, 1, n) = words
      BY <1>2, <1>3, SubSeqFull DEF Cell
    <2>3. PICK i \in DOMAIN ss[1] : ss[1][i].key = words
      BY <1>7, <2>1, <2>2
    <2>4. PICK j \in DOMAIN t : t[j] = ss[1][i]
      BY <1>8, <1>10, <2>1 DEF Flattens
    <2> QED
      BY <2>3, <2>4
  <1> QED
    BY <1>1, <1>4, <1>6, <1>9, <1>10, <1>11, <1>12 DEF Flattens

\* The offers of a row of headings are those of each.
Gathers(offers, headings) ==
    /\ offers \in Seq(Offer)
    /\ \A i \in DOMAIN offers : \E c \in DOMAIN headings : \E k \in DOMAIN OffersOf(headings[c]) :
         offers[i] = OffersOf(headings[c])[k]
    /\ \A c \in DOMAIN headings : \A k \in DOMAIN OffersOf(headings[c]) :
         \E i \in DOMAIN offers : offers[i] = OffersOf(headings[c])[k]

LEMMA OffersAre ==
    ASSUME NEW headings \in Seq(Cell)
    PROVE  Gathers(Offers(headings), headings)
  <1>1. PICK n \in Nat : n = Len(headings) /\ DOMAIN headings = 1..n
                         /\ \A c \in 1..n : headings[c] \in Cell
    BY LenProperties
  <1>2. PICK ss : ss = [c \in 1..n |-> OffersOf(headings[c])]
    OBVIOUS
  <1>3. ASSUME NEW c \in 1..n PROVE ss[c] \in Seq(Offer)
    <2>1. PICK heading \in Cell : heading = headings[c]
      BY <1>1
    <2>2. OffersOf(heading) \in Seq({o \in Offer : o.heading = heading})
      BY OffersOfAre
    <2>3. {o \in Offer : o.heading = heading} \subseteq Offer
      OBVIOUS
    <2>4. OffersOf(heading) \in Seq(Offer)
      BY <2>2, <2>3, SeqMonotonic
    <2> QED
      BY <1>2, <2>1, <2>4
  <1>4. ss \in Seq(Seq(Offer)) /\ DOMAIN ss = 1..n
    <2>1. ss = [c \in 1..n |-> ss[c]]
      BY <1>2
    <2> QED
      BY <1>3, <2>1
  <1>5. PICK t : t = FlattenSeq(ss)
    OBVIOUS
  <1>6. Flattens(t, ss, Offer)
    BY <1>4, <1>5, FlattenIs
  <1>7. Offers(headings) = t
    BY <1>1, <1>2, <1>5 DEF Offers
  <1>8. \A c \in 1..n : ss[c] = OffersOf(headings[c])
    BY <1>2
  <1>9. /\ t \in Seq(Offer)
        /\ \A i \in DOMAIN t : \E c \in 1..n : \E k \in DOMAIN ss[c] : t[i] = ss[c][k]
        /\ \A c \in 1..n : \A k \in DOMAIN ss[c] : \E i \in DOMAIN t : t[i] = ss[c][k]
    BY <1>4, <1>6, Zenon DEF Flattens
  <1>10. /\ t \in Seq(Offer)
         /\ \A i \in DOMAIN t : \E c \in 1..n : \E k \in DOMAIN OffersOf(headings[c]) :
              t[i] = OffersOf(headings[c])[k]
         /\ \A c \in 1..n : \A k \in DOMAIN OffersOf(headings[c]) :
              \E i \in DOMAIN t : t[i] = OffersOf(headings[c])[k]
    <2>1. ASSUME NEW i \in DOMAIN t
          PROVE  \E c \in 1..n : \E k \in DOMAIN OffersOf(headings[c]) :
                   t[i] = OffersOf(headings[c])[k]
      <3>1. PICK c \in 1..n : \E k \in DOMAIN ss[c] : t[i] = ss[c][k]
        BY <1>9
      <3>2. ss[c] = OffersOf(headings[c])
        BY <1>8
      <3> QED
        BY <3>1, <3>2
    <2>2. ASSUME NEW c \in 1..n, NEW k \in DOMAIN OffersOf(headings[c])
          PROVE  \E i \in DOMAIN t : t[i] = OffersOf(headings[c])[k]
      <3>1. ss[c] = OffersOf(headings[c])
        BY <1>8
      <3> QED
        BY <1>9, <3>1
    <2> QED
      BY <1>9, <2>1, <2>2
  <1>11. DOMAIN headings = 1..n
    BY <1>1
  <1>12. Gathers(t, headings)
    BY <1>10, <1>11, Zenon DEF Gathers
  <1> QED
    BY <1>7, <1>12

------------------------------------------------------------------------------
\* A hit for an option is an offer of it, and whatever is offered is hit.
AreHits(hits, offers, options) ==
    /\ DOMAIN hits \subseteq DOMAIN options
    /\ \A o \in DOMAIN hits : \E i \in DOMAIN offers :
         hits[o] = offers[i] /\ offers[i].key = options[o]
    /\ \A o \in DOMAIN options : \A i \in DOMAIN offers :
         offers[i].key = options[o] => o \in DOMAIN hits

LEMMA HitsAre ==
    ASSUME NEW offers \in Seq(Offer), NEW options
    PROVE  AreHits(Hits(offers, options), offers, options)
  <1>1. PICK hits : hits = Hits(offers, options)
    OBVIOUS
  <1> DEFINE held(key) == {i \in DOMAIN offers : offers[i].key = key}
  <1>2. hits = [o \in {p \in DOMAIN options : held(options[p]) # {}} |->
                  offers[Min(held(options[o]))]]
    BY <1>1 DEF Hits
  <1>3. DOMAIN hits = {p \in DOMAIN options : held(options[p]) # {}}
    BY <1>2
  <1>4. ASSUME NEW o \in DOMAIN hits
        PROVE  \E i \in DOMAIN offers : hits[o] = offers[i] /\ offers[i].key = options[o]
    <2>1. PICK S : S = held(options[o])
      OBVIOUS
    <2>2. S # {} /\ S \in SUBSET Nat
      <3>1. DOMAIN offers \subseteq Nat
        BY LenProperties
      <3> QED
        BY <1>3, <2>1, <3>1
    <2>3. \E x \in S : \A y \in S : x <= y
      BY <2>2, LeastNat
    <2>4. PICK i : i = Min(S)
      OBVIOUS
    <2>5. i \in S
      BY <2>3, <2>4 DEF Min
    <2>6. hits[o] = offers[i]
      BY <1>2, <1>3, <2>1, <2>4
    <2> QED
      BY <2>1, <2>5, <2>6
  <1>5. ASSUME NEW o \in DOMAIN options, NEW i \in DOMAIN offers, offers[i].key = options[o]
        PROVE  o \in DOMAIN hits
    <2>1. i \in held(options[o])
      BY <1>5
    <2> QED
      BY <1>3, <2>1
  <1>6. DOMAIN hits \subseteq DOMAIN options
    BY <1>3
  <1> HIDE DEF held
  <1>7. AreHits(hits, offers, options)
    BY <1>4, <1>5, <1>6, Zenon DEF AreHits
  <1> QED
    BY <1>1, <1>7

\* A heading offers a name of the field.
Offered(heading, f) ==
    \E k \in DOMAIN OffersOf(heading) : OffersOf(heading)[k].key \in Range(Options[f])

\* What may be claimed of these headings: each for one field, which it names.
Proper(claims, headings) ==
    /\ claims \in Mappings
    /\ \A f \in DOMAIN claims : claims[f] \in Range(headings) \ {<<>>} /\ Offered(claims[f], f)
    /\ \A f, g \in DOMAIN claims : claims[f] = claims[g] => f = g

\* A hit is a heading of the sheet that names the field.
LEMMA HitsName ==
    ASSUME NEW headings \in Seq(Cell), NEW f, NEW hits,
           AreHits(hits, Offers(headings), Options[f]), NEW o \in DOMAIN hits
    PROVE  /\ hits[o].heading \in Range(headings) \ {<<>>} /\ hits[o].heading \in Cell
           /\ Offered(hits[o].heading, f) /\ hits[o].weight \in Int
  <1>1. PICK offers : offers = Offers(headings)
    OBVIOUS
  <1>2. Gathers(offers, headings)
    BY <1>1, OffersAre
  <1>3. PICK i \in DOMAIN offers : hits[o] = offers[i] /\ offers[i].key = Options[f][o]
    BY <1>1 DEF AreHits
  <1>4. o \in DOMAIN Options[f]
    BY DEF AreHits
  <1>5. PICK c \in DOMAIN headings : \E k \in DOMAIN OffersOf(headings[c]) :
                                       offers[i] = OffersOf(headings[c])[k]
    BY <1>2 DEF Gathers
  <1>6. PICK heading \in Cell : heading = headings[c]
    BY LenProperties
  <1>7. PICK k \in DOMAIN OffersOf(heading) : offers[i] = OffersOf(heading)[k]
    BY <1>5, <1>6
  <1>8. /\ OffersOf(heading) \in Seq({x \in Offer : x.heading = heading})
        /\ OffersOf(heading) # <<>> => heading # <<>>
    BY OffersOfAre
  <1>9. OffersOf(heading) # <<>>
    <2>1. DOMAIN <<>> = {}
      OBVIOUS
    <2> QED
      BY <1>7, <2>1
  <1>10. OffersOf(heading)[k] \in {x \in Offer : x.heading = heading}
    BY <1>7, <1>8, LenProperties
  <1>11. offers[i].heading = heading /\ offers[i].weight \in Int
    BY <1>7, <1>10 DEF Offer
  <1>12. OffersOf(heading)[k].key \in Range(Options[f])
    BY <1>3, <1>4, <1>7 DEF Range
  <1>13. Offered(heading, f)
    BY <1>7, <1>12 DEF Offered
  <1>14. heading \in Range(headings)
    BY <1>6 DEF Range
  <1> QED
    BY <1>3, <1>8, <1>9, <1>11, <1>13, <1>14

\* A field goes without only if it has no hit or each of its hits is taken.
LEMMA ClaimIs ==
    ASSUME NEW headings \in Seq(Cell), NEW f \in Range(Field), NEW earlier,
           Proper(earlier, headings)
    PROVE  /\ Proper(Claim(Offers(headings), earlier, f), headings)
           /\ DOMAIN earlier \subseteq DOMAIN Claim(Offers(headings), earlier, f)
           /\ \/ f \in DOMAIN Claim(Offers(headings), earlier, f)
              \/ \A o \in DOMAIN Hits(Offers(headings), Options[f]) :
                   Hits(Offers(headings), Options[f])[o].heading \in Range(earlier)
  <1>1. PICK offers : offers = Offers(headings)
    OBVIOUS
  <1> DEFINE hits == Hits(offers, Options[f])
  <1> DEFINE free == Free(hits, Range(earlier))
  <1>2. hits = Hits(offers, Options[f])
    OBVIOUS
  <1>5. free = Free(hits, Range(earlier))
    OBVIOUS
  <1> HIDE DEF hits, free
  <1>3. AreHits(hits, offers, Options[f])
    BY <1>1, <1>2, OffersAre, HitsAre DEF Gathers
  <1>4. \A o \in DOMAIN hits : /\ hits[o].heading \in Range(headings) \ {<<>>}
                               /\ hits[o].heading \in Cell
                               /\ Offered(hits[o].heading, f) /\ hits[o].weight \in Int
    BY <1>1, <1>3, HitsName
  <1>6. free = {o \in DOMAIN hits : hits[o].heading \notin Range(earlier)}
    BY <1>5 DEF Free
  <1>7. PICK claims : claims = Claim(offers, earlier, f)
    OBVIOUS
  <1>8. CASE free = {}
    <2>1. claims = earlier
      BY <1>2, <1>5, <1>7, <1>8 DEF Claim
    <2>2. \A o \in DOMAIN hits : hits[o].heading \in Range(earlier)
      BY <1>6, <1>8
    <2> QED
      BY <1>1, <1>2, <1>7, <2>1, <2>2
  <1>9. CASE free # {}
    <2> DEFINE best == CHOOSE o \in free : \A p \in free :
                         \/ hits[p].weight < hits[o].weight
                         \/ hits[p].weight = hits[o].weight /\ o <= p
    <2>1. best \in free
      <3>1. PICK w : w = [o \in free |-> hits[o].weight]
        OBVIOUS
      <3>2. PICK n \in Nat : DOMAIN Options[f] = 1..n
        BY FieldAssumption, LenProperties
      <3>3. free \in SUBSET (0..n) /\ \A o \in free : w[o] \in Int
        BY <1>3, <1>4, <1>6, <3>1, <3>2 DEF AreHits
      <3>4. HasFirst(free, w)
        BY <1>9, <3>3, FirstOfBest
      <3>5. \A o \in free : w[o] = hits[o].weight
        BY <3>1
      <3>6. \E o \in free : \A p \in free :
              \/ hits[p].weight < hits[o].weight
              \/ hits[p].weight = hits[o].weight /\ o <= p
        BY <3>4, <3>5 DEF HasFirst
      <3> QED
        BY <3>6
    <2>2. PICK heading : heading = hits[best].heading
      OBVIOUS
    <2>3. claims = [g \in DOMAIN earlier \cup {f} |-> IF g = f THEN heading ELSE earlier[g]]
        <3>1. claims = IF free = {} THEN earlier
                     ELSE [g \in DOMAIN earlier \cup {f} |->
                             IF g = f THEN hits[best].heading ELSE earlier[g]]
        BY <1>7, Zenon DEF Claim, hits, free
      <3> HIDE DEF best
      <3> QED
        BY <1>9, <2>2, <3>1
    <2>4. /\ heading \notin Range(earlier) /\ heading \in Range(headings) \ {<<>>}
          /\ heading \in Cell /\ Offered(heading, f)
      <3> HIDE DEF best
      <3> QED
        BY <1>4, <1>6, <2>1, <2>2
    <2> HIDE DEF best
    <2>5. earlier \in Mappings /\ DOMAIN earlier \subseteq Range(Field)
          /\ \A g \in DOMAIN earlier : earlier[g] \in Cell
      BY DEF Proper, Mappings
    <2>6. /\ DOMAIN claims = DOMAIN earlier \cup {f} /\ claims[f] = heading
          /\ \A g \in DOMAIN claims : g # f => g \in DOMAIN earlier /\ claims[g] = earlier[g]
      BY <2>3
    <2>7. claims \in Mappings
      <3>1. claims \in [DOMAIN earlier \cup {f} -> Cell]
        BY <2>3, <2>4, <2>5
      <3>2. DOMAIN earlier \cup {f} \in SUBSET Range(Field)
        BY <2>5
      <3> QED
        BY <3>1, <3>2 DEF Mappings
    <2>8. ASSUME NEW g \in DOMAIN claims
          PROVE  claims[g] \in Range(headings) \ {<<>>} /\ Offered(claims[g], g)
      <3>1. CASE g = f
        BY <2>4, <2>6, <3>1
      <3>2. CASE g # f
        BY <2>6, <3>2 DEF Proper
      <3> QED
        BY <3>1, <3>2
    <2>9. ASSUME NEW g \in DOMAIN claims, NEW h \in DOMAIN claims, claims[g] = claims[h]
          PROVE  g = h
      <3>1. \A e \in DOMAIN claims : e # f => claims[e] # heading
        BY <2>4, <2>6 DEF Range
      <3>2. CASE g = f \/ h = f
        BY <2>6, <2>9, <3>1, <3>2
      <3>3. CASE g # f /\ h # f
        BY <2>6, <2>9, <3>3 DEF Proper
      <3> QED
        BY <3>2, <3>3
    <2>10. Proper(claims, headings)
      BY <2>7, <2>8, <2>9 DEF Proper
    <2> QED
      BY <1>1, <1>7, <2>6, <2>10
  <1> QED
    BY <1>8, <1>9

\* The suggestion, field by field.
Suggests(g, headings) ==
    /\ \A b \in 0..Len(Field) : Proper(g[b], headings)
    /\ \A b \in 1..Len(Field) : g[b] = Claim(Offers(headings), g[b - 1], Field[b])

LEMMA SuggestIs ==
    ASSUME NEW headings \in Seq(Cell)
    PROVE  \E g : Suggests(g, headings) /\ Suggest(headings) = g[Len(Field)]
  <1>1. PICK n \in Nat : n = Len(Field) /\ \A b \in 1..n : Field[b] \in Range(Field)
    BY FieldAssumption, LenProperties DEF Range
  <1>2. PICK offers : offers = Offers(headings)
    OBVIOUS
  <1>3. PICK none : none = [f \in {} |-> <<>>]
    OBVIOUS
  <1>4. PICK V : V = {m \in Mappings : Proper(m, headings)}
    OBVIOUS
  <1>5. \A m : m \in V <=> Proper(m, headings)
    BY <1>4 DEF Proper
  <1>6. none \in V
    <2>1. DOMAIN none = {} /\ none \in [{} -> Cell]
      BY <1>3
    <2>2. none \in Mappings
      BY <2>1 DEF Mappings
    <2> QED
      BY <1>5, <2>1, <2>2 DEF Proper
  <1>7. PICK step : step = [p \in (1..n) \X V |-> Claim(offers, p[2], Field[p[1]])]
    OBVIOUS
  <1>8. \A b \in 1..n : \A m \in V : step[<<b, m>>] = Claim(offers, m, Field[b])
    BY <1>7
  <1>9. ASSUME NEW b \in 1..n, NEW m \in V PROVE step[<<b, m>>] \in V
    <2>1. PICK f \in Range(Field) : f = Field[b]
      BY <1>1
    <2>2. Proper(m, headings)
      BY <1>5
    <2>3. Proper(Claim(Offers(headings), m, f), headings)
      BY <2>2, ClaimIs
    <2> QED
      BY <1>2, <1>5, <1>8, <2>1, <2>3
  <1>10. Stepping(step, n, V)
    BY <1>9 DEF Stepping
  <1>11. PICK g \in [0..n -> V] : Walks(g, step, none, n)
    BY <1>6, <1>10, Walk
  <1>12. g[0] = none /\ \A b \in 1..n : g[b] = Claim(offers, g[b - 1], Field[b])
    <2>1. \A b \in 1..n : g[b - 1] \in V
      OBVIOUS
    <2> QED
      BY <1>8, <1>11, <2>1 DEF Walks
  <1> DEFINE Solution(u) ==
        u = [b \in 0..n |-> IF b = 0 THEN none ELSE Claim(offers, u[b - 1], Field[b])]
  <1>13. Solution(g)
    <2>1. \A b \in 0..n : b # 0 => b \in 1..n
      OBVIOUS
    <2>2. \A b \in 0..n : g[b] = IF b = 0 THEN none ELSE Claim(offers, g[b - 1], Field[b])
      BY <1>12, <2>1
    <2>3. g = [b \in 0..n |-> g[b]]
      OBVIOUS
    <2> QED
      BY <2>2, <2>3
  <1>14. PICK u : u = CHOOSE v : Solution(v)
    OBVIOUS
  <1>15. Solution(u)
    BY <1>13, <1>14
  <1>16. Suggest(headings) = u[n]
    BY <1>1, <1>2, <1>3, <1>14 DEF Suggest
  <1>17. ASSUME NEW b \in 1..n PROVE b \in 0..n /\ b - 1 \in 0..n /\ b # 0
    OBVIOUS
  <1>18. u[0] = none /\ \A b \in 1..n : u[b] = Claim(offers, u[b - 1], Field[b])
    <2>1. \A b \in 0..n : u[b] = IF b = 0 THEN none ELSE Claim(offers, u[b - 1], Field[b])
      BY <1>15
    <2>2. 0 \in 0..n
      OBVIOUS
    <2> QED
      BY <1>17, <2>1, <2>2
  <1> DEFINE Reached == {b \in 0..n : u[b] \in V}
  <1>19. 0 \in Reached
    BY <1>6, <1>18
  <1>20. ASSUME NEW b \in 1..n, b - 1 \in Reached PROVE b \in Reached
    <2>1. u[b] = step[<<b, u[b - 1]>>]
      BY <1>8, <1>18, <1>20
    <2> QED
      BY <1>9, <1>17, <1>20, <2>1
  <1>21. Inductive(Reached, n)
    BY <1>19, <1>20 DEF Inductive
  <1>22. \A b \in 0..n : u[b] \in V
    <2>1. 0..n \subseteq Reached
      <3> HIDE DEF Reached
      <3> QED
        BY <1>21, Along
    <2> QED
      BY <2>1
  <1> HIDE DEF Solution, Reached
  <1>23. Suggests(u, headings)
    BY <1>1, <1>2, <1>5, <1>18, <1>22 DEF Suggests
  <1> QED
    BY <1>1, <1>16, <1>23

\* No heading offers names of two fields.
Unambiguous(headings) ==
    \A h \in Range(headings), f, g \in Range(Field) : Offered(h, f) /\ Offered(h, g) => f = g

\* A heading that is a name of a field is a hit of it.
LEMMA WholeNameIsHit ==
    ASSUME NEW headings \in Seq(Cell), NEW c \in DOMAIN headings, NEW f \in Range(Field),
           Normalise(headings[c]) \in Range(Options[f]), NEW offers, offers = Offers(headings)
    PROVE  \E o : o \in DOMAIN Hits(offers, Options[f])
  <1>1. PICK heading \in Cell : heading = headings[c]
    BY LenProperties
  <1>2. PICK options \in Seq(Cell \ {<<>>}) : options = Options[f]
    BY FieldAssumption
  <1>3. PICK o \in DOMAIN options : options[o] = Normalise(heading)
    BY <1>1, <1>2 DEF Range
  <1>4. Normalise(heading) # <<>>
    BY <1>2, <1>3, LenProperties
  <1>5. PICK k \in DOMAIN OffersOf(heading) : OffersOf(heading)[k].key = Normalise(heading)
    BY <1>4, OffersOfAre
  <1>6. Gathers(offers, headings)
    BY OffersAre
  <1>7. PICK i \in DOMAIN offers : offers[i] = OffersOf(heading)[k]
    BY <1>1, <1>5, <1>6 DEF Gathers
  <1>8. offers \in Seq(Offer)
    BY <1>6 DEF Gathers
  <1>9. PICK hits : hits = Hits(offers, options)
    OBVIOUS
  <1>10. AreHits(hits, offers, options)
    BY <1>8, <1>9, HitsAre
  <1>11. offers[i].key = options[o]
    BY <1>3, <1>5, <1>7
  <1>12. o \in DOMAIN hits
    BY <1>3, <1>10, <1>11 DEF AreHits
  <1> QED
    BY <1>2, <1>9, <1>12

\* A column with a whole name of a field does not go by: what a field loses to
\* another names both.
LEMMA NothingGoesBy ==
    ASSUME NEW headings \in Seq(Cell), Unambiguous(headings), NEW c \in DOMAIN headings,
           NEW f \in Range(Field), Normalise(headings[c]) \in Range(Options[f])
    PROVE  f \in DOMAIN Suggest(headings)
  <1>1. PICK n \in Nat : n = Len(Field) /\ DOMAIN Field = 1..n
    BY FieldAssumption, LenProperties
  <1>2. PICK b \in 1..n : Field[b] = f
    BY <1>1 DEF Range
  <1>3. PICK offers : offers = Offers(headings)
    OBVIOUS
  <1>4. PICK g : Suggests(g, headings) /\ Suggest(headings) = g[n]
    BY <1>1, SuggestIs
  <1>5. \A a \in 1..n : /\ Proper(g[a - 1], headings) /\ Field[a] \in Range(Field)
                        /\ g[a] = Claim(offers, g[a - 1], Field[a])
    <2>1. \A a \in 1..n : a - 1 \in 0..n
      OBVIOUS
    <2> QED
      BY <1>1, <1>3, <1>4, <2>1 DEF Suggests, Range
  <1>6. ASSUME NEW a \in 1..n PROVE DOMAIN g[a - 1] \subseteq DOMAIN g[a]
    <2>1. PICK earlier : earlier = g[a - 1]
      OBVIOUS
    <2>2. PICK e \in Range(Field) : e = Field[a]
      BY <1>5
    <2>3. Proper(earlier, headings)
      BY <1>5, <2>1
    <2>4. DOMAIN earlier \subseteq DOMAIN Claim(Offers(headings), earlier, e)
      BY <2>3, ClaimIs
    <2> QED
      BY <1>3, <1>5, <2>1, <2>2, <2>4
  <1>7. f \in DOMAIN g[b]
    <2>1. PICK earlier : earlier = g[b - 1]
      OBVIOUS
    <2>2. Proper(earlier, headings) /\ g[b] = Claim(offers, earlier, f)
      BY <1>2, <1>5, <2>1
    <2>3. PICK hits : hits = Hits(offers, Options[f])
      OBVIOUS
    <2>4. /\ DOMAIN earlier \subseteq DOMAIN g[b]
          /\ f \in DOMAIN g[b] \/ \A o \in DOMAIN hits : hits[o].heading \in Range(earlier)
      BY <1>3, <2>2, <2>3, ClaimIs
    <2> SUFFICES ASSUME \A o \in DOMAIN hits : hits[o].heading \in Range(earlier)
                 PROVE  f \in DOMAIN earlier
      BY <2>4
    <2>5. PICK o : o \in DOMAIN hits
      BY <1>3, <2>3, WholeNameIsHit
    <2>6. AreHits(hits, Offers(headings), Options[f])
      BY <1>3, <2>3, OffersAre, HitsAre DEF Gathers
    <2>7. PICK h : h = hits[o].heading
      OBVIOUS
    <2>8. h \in Range(headings) /\ Offered(h, f)
      BY <2>5, <2>6, <2>7, HitsName
    <2>9. PICK other \in DOMAIN earlier : earlier[other] = h
      BY <2>5, <2>7 DEF Range
    <2>10. Offered(h, other) /\ other \in Range(Field)
      BY <2>2, <2>9 DEF Proper, Mappings
    <2>11. other = f
      BY <2>8, <2>10 DEF Unambiguous
    <2> QED
      BY <2>9, <2>11
  <1> DEFINE Reached == {a \in 0..n : a >= b => f \in DOMAIN g[a]}
  <1>8. Inductive(Reached, n)
    <2>1. 0 \in Reached
      OBVIOUS
    <2>2. ASSUME NEW a \in 1..n, a - 1 \in Reached PROVE a \in Reached
      <3>1. CASE a = b
        BY <1>7, <3>1
      <3>2. CASE a < b
        BY <3>2
      <3>3. CASE a > b
        BY <1>6, <2>2, <3>3
      <3> QED
        BY <3>1, <3>2, <3>3
    <2> QED
      BY <2>1, <2>2 DEF Inductive
  <1>9. n \in Reached
    <2> HIDE DEF Reached
    <2>1. 0..n \subseteq Reached
      BY <1>8, Along
    <2> QED
      BY <2>1
  <1> QED
    BY <1>4, <1>9

------------------------------------------------------------------------------
\* What inspect answers of a sheet.
Answer(s) ==
    LET guess == Inspect(FillMerged(s))
    IN [known |-> TRUE, number |-> guess.row + 1, grouped |-> guess.grouped,
        columns |-> guess.columns, suggested |-> Suggest(guess.columns)]

\* The header of a sheet is clear if no row above it is, and it is among those that
\* are looked at.
ClearHeader(s) ==
    LET grid == FillMerged(s)
    IN /\ s.header \in 1..Min({Len(grid), MaxScan})
       /\ Clear(grid, s.header - 1)
       /\ \A i \in 0..(s.header - 2) : ~Clear(grid, i)

Answers ==
    [known : {TRUE}, number : 1..MaxScan, grouped : BOOLEAN, columns : Seq(Cell),
     suggested : Mappings]

LEMMA AnswerIs ==
    ASSUME NEW s \in Spreadsheets
    PROVE  /\ Answer(s) \in Answers
           /\ Proper(Answer(s).suggested, Answer(s).columns)
           /\ ClearHeader(s) => Answer(s).number = s.header
           /\ Unambiguous(Answer(s).columns) =>
                \A c \in DOMAIN Answer(s).columns, f \in Range(Field) :
                  Normalise(Answer(s).columns[c]) \in Range(Options[f]) =>
                    f \in DOMAIN Answer(s).suggested
  <1>1. PICK grid \in Seq(Seq(Cell)) : grid = FillMerged(s)
    BY GridType
  <1>2. PICK guess : guess = Inspect(grid)
    OBVIOUS
  <1>3. PICK headings \in Seq(Cell) : headings = guess.columns
    BY <1>2, InspectIs
  <1>4. PICK suggested : suggested = Suggest(headings)
    OBVIOUS
  <1>5. Answer(s) = [known |-> TRUE, number |-> guess.row + 1, grouped |-> guess.grouped,
                     columns |-> headings, suggested |-> suggested]
    BY <1>1, <1>2, <1>3, <1>4 DEF Answer
  <1>6. /\ Answer(s).number = guess.row + 1 /\ Answer(s).columns = headings
        /\ Answer(s).suggested = suggested
    BY <1>5
  <1>7. guess.row \in 0..(MaxScan - 1) /\ guess.grouped \in BOOLEAN
    BY <1>2, InspectIs
  <1>8. Proper(suggested, headings)
    <2>1. Len(Field) \in 0..Len(Field)
      BY FieldAssumption, LenProperties
    <2>2. PICK g : Suggests(g, headings) /\ suggested = g[Len(Field)]
      BY <1>4, SuggestIs
    <2> QED
      BY <2>1, <2>2 DEF Suggests
  <1>9. Answer(s) \in Answers
    <2>1. guess.row + 1 \in 1..MaxScan
      BY <1>7, BoundAssumption
    <2>2. suggested \in Mappings
      BY <1>8 DEF Proper
    <2> QED
      BY <1>5, <1>7, <2>1, <2>2 DEF Answers
  <1>10. ASSUME ClearHeader(s) PROVE guess.row + 1 = s.header
    <2>1. /\ s.header \in 1..Min({Len(grid), MaxScan}) /\ Clear(grid, s.header - 1)
          /\ \A i \in 0..(s.header - 2) : ~Clear(grid, i)
      BY <1>1, <1>10 DEF ClearHeader
    <2>2. PICK m : m = Min({Len(grid), MaxScan})
      OBVIOUS
    <2>3. m \in Int /\ m <= Len(grid) /\ Len(grid) \in Nat
      <3>1. Len(grid) \in Int /\ MaxScan \in Int /\ Len(grid) \in Nat
        BY BoundAssumption, LenProperties
      <3> QED
        BY <2>2, <3>1, LesserOfTwo
    <2>4. grid # <<>>
      BY <2>1, <2>2, <2>3
    <2>5. PICK h : h = s.header - 1
      OBVIOUS
    <2>6. h \in 0..(m - 1) /\ s.header = h + 1 /\ s.header - 2 = h - 1
      BY <2>1, <2>2, <2>3, <2>5
    <2>7. h \in Scanned(grid)
      BY <2>2, <2>6 DEF Scanned
    <2>8. Clear(grid, h) /\ \A i \in 0..(h - 1) : ~Clear(grid, i)
      BY <2>1, <2>5, <2>6
    <2>9. BestRow(grid) = h
      BY <2>4, <2>7, <2>8, BestRowIs
    <2>10. guess.row = BestRow(grid)
      BY <1>2, <2>4, InspectIs
    <2> QED
      BY <2>6, <2>9, <2>10
  <1>11. ASSUME Unambiguous(headings), NEW c \in DOMAIN headings, NEW f \in Range(Field),
                Normalise(headings[c]) \in Range(Options[f])
         PROVE  f \in DOMAIN suggested
    BY <1>4, <1>11, NothingGoesBy
  <1> QED
    BY <1>6, <1>8, <1>9, <1>10, <1>11

\* The header that is read with: its headings and how many rows to pass over.
Headers == [columns : Seq(Cell), first : Nat]

LEMMA ResolveType ==
    ASSUME NEW grid \in Seq(Seq(Cell)), NEW number \in 0..Len(grid)
    PROVE  Resolve(grid, number) \in Headers
  <1>1. number \in Nat /\ \A r \in 1..Len(grid) : grid[r] \in Seq(Cell)
    BY LenProperties
  <1>2. CASE number = 0
    <2>1. /\ Inspect(grid).columns \in Seq(Cell) /\ Inspect(grid).row \in 0..(MaxScan - 1)
          /\ grid = <<>> => Inspect(grid).first = 0
          /\ grid # <<>> => /\ Inspect(grid).first = BestRow(grid) + 1
                            /\ BestRow(grid) + 1 \in 1..Len(grid)
      BY InspectIs
    <2>2. Inspect(grid).first \in Nat
      BY <2>1
    <2> QED
      BY <1>2, <2>1, <2>2 DEF Resolve, Headers
  <1>3. CASE number # 0
    <2>1. grid[number] \in Seq(Cell)
      BY <1>1, <1>3
    <2> QED
      BY <1>1, <1>3, <2>1 DEF Resolve, Headers
  <1> QED
    BY <1>2, <1>3

\* What is read: of each row that is not blank, a cell for each field.
Reads(n) == [number : 1..n, cells : Mappings]

LEMMA RecordsAre ==
    ASSUME NEW grid \in Seq(Seq(Cell)), NEW header \in Headers, NEW columns \in Mappings
    PROVE  /\ Records(grid, header, columns) \subseteq Reads(Len(grid))
           /\ {r.number : r \in Records(grid, header, columns)}
                = {n \in (header.first + 1)..Len(grid) : FilledCells(grid[n]) # {}}
           /\ \A r \in Records(grid, header, columns) :
                /\ DOMAIN r.cells = DOMAIN columns
                /\ \A f \in DOMAIN columns :
                     r.cells[f] = CellAt(grid[r.number], Place(header.columns, columns[f]))
  <1> DEFINE read(n) == [f \in DOMAIN columns |->
                           CellAt(grid[n], Place(header.columns, columns[f]))]
             rows == {n \in (header.first + 1)..Len(grid) : FilledCells(grid[n]) # {}}
  <1>1. Records(grid, header, columns) = {[number |-> n, cells |-> read(n)] : n \in rows}
    BY DEF Records
  <1>2. header.first \in Nat /\ Len(grid) \in Nat
    BY LenProperties DEF Headers
  <1>3. ASSUME NEW n \in rows
        PROVE  n \in 1..Len(grid) /\ read(n) \in Mappings
    <2>1. n \in 1..Len(grid)
      BY <1>2
    <2>2. grid[n] \in Seq(Cell)
      BY <2>1, LenProperties
    <2>3. \A f \in DOMAIN columns :
            CellAt(grid[n], Place(header.columns, columns[f])) \in Cell
      BY <2>2, CellAtIs
    <2>4. read(n) \in [DOMAIN columns -> Cell]
      BY <2>3
    <2>5. DOMAIN columns \in SUBSET Range(Field)
      BY DEF Mappings
    <2> QED
      BY <2>1, <2>4, <2>5 DEF Mappings
  <1>4. \A n \in rows : /\ DOMAIN read(n) = DOMAIN columns
                        /\ \A f \in DOMAIN columns :
                             read(n)[f] = CellAt(grid[n], Place(header.columns, columns[f]))
    OBVIOUS
  <1> HIDE DEF read, rows
  <1>5. \A r \in Records(grid, header, columns) :
          \E n \in rows : r = [number |-> n, cells |-> read(n)]
    BY <1>1
  <1>6. Records(grid, header, columns) \subseteq Reads(Len(grid))
    BY <1>3, <1>5 DEF Reads
  <1>7. {r.number : r \in Records(grid, header, columns)} = rows
    <2>1. ASSUME NEW r \in Records(grid, header, columns) PROVE r.number \in rows
      BY <1>5
    <2>2. ASSUME NEW n \in rows
          PROVE  \E r \in Records(grid, header, columns) : r.number = n
      <3>1. PICK r : r = [number |-> n, cells |-> read(n)]
        OBVIOUS
      <3>2. r \in Records(grid, header, columns)
        BY <1>1, <3>1
      <3>3. r.number = n
        BY <3>1
      <3> QED
        BY <3>2, <3>3
    <2> QED
      BY <2>1, <2>2
  <1>8. ASSUME NEW r \in Records(grid, header, columns)
        PROVE  /\ DOMAIN r.cells = DOMAIN columns
               /\ \A f \in DOMAIN columns :
                    r.cells[f] = CellAt(grid[r.number], Place(header.columns, columns[f]))
    <2>1. PICK n \in rows : r = [number |-> n, cells |-> read(n)]
      BY <1>5
    <2>2. r.number = n /\ r.cells = read(n)
      BY <2>1
    <2> QED
      BY <1>4, <2>2
  <1> QED
    BY <1>6, <1>7, <1>8 DEF rows

\* What a preview answers.
Previews(n) ==
    [known : {TRUE}, unknown : SUBSET Range(Field), missing : SUBSET Required,
     unmapped : SUBSET Cell, warnings : SUBSET Whole, records : SUBSET Reads(n)]

LEMMA ApplyType ==
    ASSUME NEW grid \in Seq(Seq(Cell)), NEW header \in Headers, NEW columns \in Mappings
    PROVE  Apply(grid, header, columns) \in Previews(Len(grid))
  <1> DEFINE unknown == {f \in DOMAIN columns : columns[f] \notin Range(header.columns)}
             missing == {f \in Required : f \notin DOMAIN columns \/ f \in unknown}
             records == IF unknown \cup missing # {} THEN {} ELSE Records(grid, header, columns)
             unmapped == Range(header.columns) \ (Range(columns) \cup {<<>>})
  <1>1. Apply(grid, header, columns) =
          [known |-> TRUE, unknown |-> unknown, missing |-> missing, unmapped |-> unmapped,
           records |-> records, warnings |-> Lossy(records)]
    BY DEF Apply
  <1>2. unknown \in SUBSET Range(Field)
    BY DEF Mappings
  <1>3. missing \in SUBSET Required
    OBVIOUS
  <1>4. unmapped \in SUBSET Cell
    <2>1. header.columns \in Seq(Cell)
      BY DEF Headers
    <2> QED
      BY <2>1, LenProperties DEF Range
  <1>5. records \in SUBSET Reads(Len(grid))
    BY RecordsAre
  <1>6. Lossy(records) \in SUBSET Whole
    BY DEF Lossy
  <1> HIDE DEF unknown, missing, records, unmapped
  <1> QED
    BY <1>1, <1>2, <1>3, <1>4, <1>5, <1>6 DEF Previews

\* Of two numbers written with digits alone that differ in the cells and not as
\* numbers one has leading zeros, and its field is warned about.
LEMMA LossIsWarned ==
    ASSUME NEW grid \in Seq(Seq(Cell)), NEW header \in Headers, NEW columns \in Mappings,
           NEW answer, answer = Apply(grid, header, columns),
           NEW r \in answer.records, NEW q \in answer.records,
           NEW f \in Whole \cap DOMAIN columns,
           IsDigits(r.cells[f]), IsDigits(q.cells[f]), r.cells[f] # q.cells[f],
           Number[r.cells[f][1]] = Number[q.cells[f][1]]
    PROVE  f \in answer.warnings
  <1>1. PICK records : records = answer.records
    OBVIOUS
  <1>2. /\ answer.warnings = Lossy(records)
        /\ records = {} \/ records = Records(grid, header, columns)
    BY <1>1 DEF Apply
  <1>3. records = Records(grid, header, columns)
    BY <1>1, <1>2
  <1>4. /\ DOMAIN r.cells = DOMAIN columns /\ DOMAIN q.cells = DOMAIN columns
        /\ r.cells \in Mappings /\ q.cells \in Mappings
    BY <1>1, <1>3, RecordsAre DEF Reads
  <1>5. PICK one \in Cell : one = r.cells[f]
    BY <1>4 DEF Mappings
  <1>6. PICK other \in Cell : other = q.cells[f]
    BY <1>4 DEF Mappings
  <1>7. /\ Len(one) = 1 /\ one[1] \in Digits
        /\ Len(other) = 1 /\ other[1] \in Digits
        /\ Number[one[1]] = Number[other[1]] /\ one # other
    BY <1>5, <1>6 DEF IsDigits
  <1>8. one[1] # other[1]
    <2>1. one \in Seq(Word) /\ other \in Seq(Word)
      BY DEF Cell
    <2> QED
      BY <1>7, <2>1, SeqEqual
  <1>9. {one[1], other[1]} \cap ZeroLed # {}
    BY <1>7, <1>8, NumberAssumption
  <1>10. f \in Lossy(records)
    BY <1>1, <1>4, <1>5, <1>6, <1>9 DEF Lossy
  <1> QED
    BY <1>2, <1>10

\* The columns of an answer are those of the header that is read with, but for
\* blanks at its end, and the rows read are those beneath it.
LEMMA HeaderIsAnswered ==
    ASSUME NEW s \in Spreadsheets, NEW grid, grid = FillMerged(s),
           NEW number \in 0..Len(grid),
           number = 0 \/ (number = Answer(s).number /\ ~Answer(s).grouped)
    PROVE  /\ \A c \in DOMAIN Answer(s).columns :
                c \in DOMAIN Resolve(grid, number).columns
                /\ Resolve(grid, number).columns[c] = Answer(s).columns[c]
           /\ \A c \in DOMAIN Resolve(grid, number).columns :
                Resolve(grid, number).columns[c] # <<>> => c \in DOMAIN Answer(s).columns
           /\ (Resolve(grid, number).first + 1)..Len(grid) = (Answer(s).number + 1)..Len(grid)
  <1>1. grid \in Seq(Seq(Cell)) /\ Len(grid) \in Nat
    BY GridType, LenProperties
  <1>2. PICK guess : guess = Inspect(grid)
    OBVIOUS
  <1>3. /\ Answer(s).columns = guess.columns /\ Answer(s).grouped = guess.grouped
        /\ Answer(s).number = guess.row + 1
    BY <1>2 DEF Answer
  <1>4. /\ guess.row \in 0..(MaxScan - 1)
        /\ grid = <<>> => guess.columns = <<>> /\ guess.row = 0 /\ guess.first = 0
        /\ grid # <<>> => /\ guess.row = BestRow(grid) /\ guess.first = BestRow(grid) + 1
                          /\ BestRow(grid) + 1 \in 1..Len(grid)
                          /\ ~guess.grouped =>
                               guess.columns = Trimmed(grid[BestRow(grid) + 1])
    BY <1>1, <1>2, InspectIs
  <1>5. PICK header : header = Resolve(grid, number)
    OBVIOUS
  <1>6. CASE number = 0
    <2>1. header.columns = guess.columns /\ header.first = guess.first
      BY <1>2, <1>5, <1>6 DEF Resolve
    <2>2. (header.first + 1)..Len(grid) = (guess.row + 2)..Len(grid)
      <3>1. CASE grid = <<>>
        <4>1. Len(grid) = 0 /\ header.first = 0 /\ guess.row = 0
          BY <1>1, <1>4, <2>1, <3>1, EmptySeq, LenProperties
        <4> QED
          BY <4>1
      <3>2. CASE grid # <<>>
        <4>1. header.first = guess.row + 1 /\ guess.row \in Int
          BY <1>4, <2>1, <3>2
        <4> QED
          BY <4>1
      <3> QED
        BY <3>1, <3>2
    <2>3. Answer(s).number + 1 = guess.row + 2
      BY <1>3, <1>4
    <2> QED
      BY <1>3, <1>5, <2>1, <2>2, <2>3
  <1>7. CASE number # 0
    <2>1. number = guess.row + 1 /\ ~guess.grouped
      BY <1>3, <1>7
    <2>2. grid # <<>>
      <3>1. Len(grid) # 0
        BY <1>1, <1>7
      <3>2. Len(<<>>) = 0
        OBVIOUS
      <3> QED
        BY <3>1, <3>2
    <2>3. PICK row : row = grid[number]
      OBVIOUS
    <2>4. header.columns = row /\ header.first = number
      BY <1>5, <1>7, <2>3 DEF Resolve
    <2>5. guess.columns = Trimmed(row)
      BY <1>4, <2>1, <2>2, <2>3
    <2>6. row \in Seq(Cell)
      <3>1. number \in 1..Len(grid)
        BY <1>1, <1>7
      <3> QED
        BY <1>1, <2>3, <3>1, LenProperties
    <2>7. /\ \A c \in DOMAIN guess.columns : c \in DOMAIN row /\ guess.columns[c] = row[c]
          /\ \A c \in DOMAIN row : row[c] # <<>> => c \in DOMAIN guess.columns
      BY <2>5, <2>6, TrimmedIs
    <2>8. header.first + 1 = Answer(s).number + 1
      BY <1>3, <2>1, <2>4
    <2> QED
      BY <1>3, <1>5, <2>4, <2>7, <2>8
  <1> QED
    BY <1>6, <1>7

\* The place of a heading is a column of that heading.
LEMMA PlaceIs ==
    ASSUME NEW columns \in Seq(Cell), NEW heading \in Range(columns)
    PROVE  Place(columns, heading) \in DOMAIN columns
           /\ columns[Place(columns, heading)] = heading
  <1>1. PICK S : S = {c \in DOMAIN columns : columns[c] = heading}
    OBVIOUS
  <1>2. S # {} /\ S \in SUBSET Nat
    <2>1. DOMAIN columns \subseteq Nat
      BY LenProperties
    <2> QED
      BY <1>1, <2>1 DEF Range
  <1>3. \E x \in S : \A y \in S : x <= y
    BY <1>2, LeastNat
  <1>4. PICK m : m = Min(S)
    OBVIOUS
  <1>5. m \in S
    BY <1>3, <1>4 DEF Min
  <1> QED
    BY <1>1, <1>4, <1>5 DEF Place

\* A preview that shows what was inspected.
Shows(answer, columns, guess, grid) ==
    /\ answer.unknown = {}
    /\ answer.missing = Required \ DOMAIN columns
    /\ answer.missing = {} =>
         /\ {r.number : r \in answer.records}
              = {n \in (guess.number + 1)..Len(grid) : FilledCells(grid[n]) # {}}
         /\ \A r \in answer.records, f \in DOMAIN columns :
              \E c \in DOMAIN guess.columns :
                guess.columns[c] = columns[f] /\ r.cells[f] = CellAt(grid[r.number], c)

\* With the suggestion as it came, what is previewed is what was inspected.
LEMMA SuggestionIsRead ==
    ASSUME NEW s \in Spreadsheets, NEW grid, grid = FillMerged(s),
           NEW number \in 0..Len(grid),
           number = 0 \/ (number = Answer(s).number /\ ~Answer(s).grouped),
           NEW columns, columns = Answer(s).suggested,
           NEW answer, answer = Apply(grid, Resolve(grid, number), columns)
    PROVE  Shows(answer, columns, Answer(s), grid)
  <1>1. grid \in Seq(Seq(Cell))
    BY GridType
  <1>2. PICK header \in Headers : header = Resolve(grid, number)
    BY <1>1, ResolveType
  <1>3. PICK headings \in Seq(Cell) : headings = Answer(s).columns
    BY AnswerIs DEF Answers
  <1>4. Proper(columns, headings)
    BY <1>3, AnswerIs
  <1>5. columns \in Mappings /\ \A f \in DOMAIN columns : columns[f] \in Range(headings) \ {<<>>}
    BY <1>4 DEF Proper
  <1>6. /\ \A c \in DOMAIN headings : c \in DOMAIN header.columns
                                      /\ header.columns[c] = headings[c]
        /\ \A c \in DOMAIN header.columns : header.columns[c] # <<>> => c \in DOMAIN headings
        /\ (header.first + 1)..Len(grid) = (Answer(s).number + 1)..Len(grid)
    BY <1>2, <1>3, HeaderIsAnswered
  <1>7. \A f \in DOMAIN columns : columns[f] \in Range(header.columns)
    BY <1>5, <1>6 DEF Range
  <1>8. /\ answer.unknown = {f \in DOMAIN columns : columns[f] \notin Range(header.columns)}
        /\ answer.missing = {f \in Required : f \notin DOMAIN columns \/ f \in answer.unknown}
        /\ answer.records = IF answer.unknown \cup answer.missing # {} THEN {}
                            ELSE Records(grid, header, columns)
    BY <1>2 DEF Apply
  <1>9. answer.unknown = {}
    BY <1>7, <1>8
  <1>10. answer.missing = Required \ DOMAIN columns
    BY <1>8, <1>9
  <1>11. ASSUME answer.missing = {}
         PROVE  answer.records = Records(grid, header, columns)
    BY <1>8, <1>9, <1>11
  <1>12. {r.number : r \in Records(grid, header, columns)}
           = {n \in (Answer(s).number + 1)..Len(grid) : FilledCells(grid[n]) # {}}
    <2>1. {r.number : r \in Records(grid, header, columns)}
            = {n \in (header.first + 1)..Len(grid) : FilledCells(grid[n]) # {}}
      BY <1>1, <1>5, RecordsAre
    <2>2. PICK rows : rows = (header.first + 1)..Len(grid)
      OBVIOUS
    <2>3. rows = (Answer(s).number + 1)..Len(grid)
      BY <1>6, <2>2
    <2>4. {r.number : r \in Records(grid, header, columns)}
            = {n \in rows : FilledCells(grid[n]) # {}}
      BY <2>1, <2>2, Zenon
    <2> QED
      BY <2>3, <2>4, Zenon
  <1>13. ASSUME NEW r \in Records(grid, header, columns), NEW f \in DOMAIN columns
         PROVE  \E c \in DOMAIN headings : headings[c] = columns[f]
                                           /\ r.cells[f] = CellAt(grid[r.number], c)
    <2>1. PICK c : c = Place(header.columns, columns[f])
      OBVIOUS
    <2>2. c \in DOMAIN header.columns /\ header.columns[c] = columns[f]
      <3>1. PICK heading \in Range(header.columns) : heading = columns[f]
        BY <1>7
      <3>2. header.columns \in Seq(Cell)
        BY DEF Headers
      <3> QED
        BY <2>1, <3>1, <3>2, PlaceIs
    <2>3. c \in DOMAIN headings /\ headings[c] = columns[f]
      BY <1>5, <1>6, <2>2
    <2>4. r.cells[f] = CellAt(grid[r.number], c)
      BY <1>1, <1>5, <2>1, RecordsAre
    <2> QED
      BY <2>3, <2>4
  <1>14. ASSUME answer.missing = {}
         PROVE  {r.number : r \in answer.records}
                  = {n \in (Answer(s).number + 1)..Len(grid) : FilledCells(grid[n]) # {}}
    BY <1>11, <1>12, <1>14, Zenon
  <1>15. ASSUME answer.missing = {}, NEW r \in answer.records, NEW f \in DOMAIN columns
         PROVE  \E c \in DOMAIN Answer(s).columns :
                  Answer(s).columns[c] = columns[f] /\ r.cells[f] = CellAt(grid[r.number], c)
    BY <1>3, <1>11, <1>13, <1>15
  <1> QED
    BY <1>9, <1>10, <1>14, <1>15, Zenon DEF Shows

------------------------------------------------------------------------------
\* The answers on the page are those of the sheet, and a preview of the row and the
\* mapping as they are: every change clears it.
MappingInv ==
    /\ sheet \in Spreadsheets
    /\ shape = NotYet \/ shape = Answer(sheet)
    /\ mapping \in Mappings
    /\ headerRow \in Nat
    /\ profile \in {NotYet} \cup [known : {TRUE}, file : [row : Nat, columns : Mappings]]
    /\ preview = NotYet
         \/ /\ shape = Answer(sheet)
            /\ headerRow \in 0..Len(Grid)
            /\ preview = Apply(Grid, Resolve(Grid, headerRow), mapping)
    /\ edits \in 0..MaxEdits

LEMMA MappingInitOK == MappingInit => MappingInv
  <1> SUFFICES ASSUME MappingInit PROVE MappingInv
    OBVIOUS
  <1>1. mapping \in Mappings
    <2>1. mapping \in [{} -> Cell]
      BY DEF MappingInit
    <2> QED
      BY <2>1 DEF Mappings
  <1>2. edits \in 0..MaxEdits
    BY BoundAssumption DEF MappingInit
  <1> QED
    BY <1>1, <1>2 DEF MappingInit, MappingInv

LEMMA MappingNextOK == MappingInv /\ [MappingNext]_mappingVars => MappingInv'
  <1> SUFFICES ASSUME MappingInv, [MappingNext]_mappingVars PROVE MappingInv'
    OBVIOUS
  <1> PICK s \in Spreadsheets : s = sheet
    BY DEF MappingInv
  <1> PICK grid : grid = FillMerged(s)
    OBVIOUS
  <1>g. Grid = grid
    BY DEF Grid
  <1>a. shape \in {NotYet, Answer(s)} /\ Answer(s) \in Answers
    BY AnswerIs DEF MappingInv
  <1>b. /\ NotYet.known = FALSE /\ Answer(s).known = TRUE
        /\ Answer(s).columns \in Seq(Cell) /\ Answer(s).suggested \in Mappings
        /\ Answer(s).number \in Nat
    <2>1. PICK a \in Answers : a = Answer(s)
      BY <1>a
    <2>2. /\ a.known = TRUE /\ a.columns \in Seq(Cell) /\ a.suggested \in Mappings
          /\ a.number \in 1..MaxScan
      BY DEF Answers
    <2>3. a.number \in Nat
      BY <2>2, BoundAssumption
    <2>4. NotYet.known = FALSE
      BY DEF NotYet
    <2> QED
      BY <2>1, <2>2, <2>3, <2>4
  <1>1. CASE MappingInspect
    <2>1. shape' = Answer(s) /\ mapping' = Answer(s).suggested /\ headerRow' = Answer(s).number
      BY <1>1, <1>g DEF MappingInspect, Answer
    <2>2. /\ preview' = NotYet /\ sheet' = s /\ profile' = profile /\ edits' = edits
      BY <1>1 DEF MappingInspect
    <2> QED
      BY <1>b, <2>1, <2>2 DEF MappingInv
  <1>2. CASE EditRow
    <2>1. /\ preview' = NotYet /\ sheet' = s /\ shape' = shape /\ profile' = profile
          /\ mapping' = mapping /\ edits' = edits + 1 /\ edits < MaxEdits
          /\ headerRow' \in 0..Len(grid)
      BY <1>2, <1>g DEF EditRow, ByHand
    <2>2. edits' \in 0..MaxEdits /\ headerRow' \in Nat
      BY <2>1, BoundAssumption DEF MappingInv
    <2> QED
      BY <2>1, <2>2 DEF MappingInv
  <1>3. ASSUME NEW f \in Range(Field), EditField(f) PROVE MappingInv'
    <2>1. /\ preview' = NotYet /\ sheet' = s /\ shape' = shape /\ profile' = profile
          /\ headerRow' = headerRow /\ edits' = edits + 1 /\ edits < MaxEdits
          /\ shape = Answer(s)
      BY <1>3, <1>a, <1>b DEF EditField, ByHand
    <2>2. edits' \in 0..MaxEdits
      BY <2>1, BoundAssumption DEF MappingInv
    <2>3. PICK D : D \in SUBSET Range(Field) /\ mapping \in [D -> Cell]
      BY DEF MappingInv, Mappings
    <2>4. mapping' \in Mappings
      <3>1. CASE \E heading \in Range(shape.columns) \ {<<>>} :
                   mapping' = [g \in DOMAIN mapping \cup {f} |->
                                 IF g = f THEN heading ELSE mapping[g]]
        <4>1. PICK heading \in Range(shape.columns) :
                mapping' = [g \in D \cup {f} |-> IF g = f THEN heading ELSE mapping[g]]
          BY <2>3, <3>1
        <4>2. heading \in Cell
          BY <1>b, <2>1, LenProperties DEF Range
        <4>3. mapping' \in [D \cup {f} -> Cell] /\ D \cup {f} \in SUBSET Range(Field)
          BY <2>3, <4>1, <4>2
        <4> QED
          BY <4>3 DEF Mappings
      <3>2. CASE mapping' = [g \in DOMAIN mapping \ {f} |-> mapping[g]]
        <4>1. mapping' \in [D \ {f} -> Cell] /\ D \ {f} \in SUBSET Range(Field)
          BY <2>3, <3>2
        <4> QED
          BY <4>1 DEF Mappings
      <3> QED
        BY <1>3, <3>1, <3>2 DEF EditField
    <2> QED
      BY <2>1, <2>2, <2>4 DEF MappingInv
  <1>4. CASE SaveProfile
    <2>1. profile' = [known |-> TRUE, file |-> AsDict(Saved(headerRow, mapping))]
      BY <1>4 DEF SaveProfile
    <2>2. AsDict(Saved(headerRow, mapping)) \in [row : Nat, columns : Mappings]
      <3>1. headerRow - 1 + 1 \in Nat
        BY DEF MappingInv
      <3> QED
        BY <3>1 DEF MappingInv, AsDict, Saved
    <2>3. /\ preview' = preview /\ sheet' = sheet /\ shape' = shape /\ mapping' = mapping
          /\ headerRow' = headerRow /\ edits' = edits
      BY <1>4 DEF SaveProfile
    <2> QED
      BY <2>1, <2>2, <2>3 DEF MappingInv, Grid
  <1>5. CASE ApplyProfile
    <2>1. PICK file \in [row : Nat, columns : Mappings] : file = profile.file
      <3>1. profile \in [known : {TRUE}, file : [row : Nat, columns : Mappings]]
        BY <1>5, <1>b DEF ApplyProfile, MappingInv
      <3> QED
        BY <3>1
    <2>2. /\ mapping' = file.columns
          /\ headerRow' = file.row - 1 + 1 \/ headerRow' = headerRow
      BY <1>5, <2>1 DEF ApplyProfile, ProfileList, Loaded
    <2>3. mapping' \in Mappings /\ headerRow' \in Nat
      BY <2>1, <2>2 DEF MappingInv
    <2>4. /\ preview' = NotYet /\ sheet' = sheet /\ shape' = shape /\ profile' = profile
          /\ edits' = edits
      BY <1>5 DEF ApplyProfile
    <2> QED
      BY <2>3, <2>4 DEF MappingInv
  <1>6. CASE MappingPreview
    <2>1. /\ shape = Answer(s) /\ headerRow \in 0..Len(grid)
          /\ preview' = Apply(grid, Resolve(grid, headerRow), mapping)
      <3>1. headerRow <= Len(grid) /\ headerRow \in Nat /\ Len(grid) \in Nat
        BY <1>6, <1>g, GridType, LenProperties DEF MappingPreview, MappingInv
      <3> QED
        BY <1>6, <1>a, <1>b, <1>g, <3>1 DEF MappingPreview
    <2>2. /\ sheet' = sheet /\ shape' = shape /\ mapping' = mapping /\ profile' = profile
          /\ headerRow' = headerRow /\ edits' = edits
      BY <1>6 DEF MappingPreview
    <2> QED
      BY <2>1, <2>2 DEF MappingInv, Grid
  <1>7. CASE UNCHANGED mappingVars
    BY <1>7 DEF mappingVars, MappingInv, Grid
  <1> QED
    BY <1>1, <1>2, <1>3, <1>4, <1>5, <1>6, <1>7 DEF MappingNext

LEMMA MappingInvariant == MappingSpec => []MappingInv
  <1> QED
    BY MappingInitOK, MappingNextOK, PTL DEF MappingSpec

\* As long as nothing was changed by hand, the page and the profile on disk hold the
\* suggestion and the number of the header row.
UneditedInv ==
    edits = 0 =>
        /\ shape.known => mapping = Answer(sheet).suggested /\ headerRow = Answer(sheet).number
        /\ profile.known => profile.file = [row |-> Answer(sheet).number,
                                           columns |-> Answer(sheet).suggested]

LEMMA UneditedInit == MappingInit => UneditedInv
  BY DEF MappingInit, UneditedInv, NotYet

LEMMA UneditedNext ==
    MappingInv /\ UneditedInv /\ [MappingNext]_mappingVars => UneditedInv'
  <1> SUFFICES ASSUME MappingInv, UneditedInv, [MappingNext]_mappingVars, edits' = 0
               PROVE  /\ shape'.known => /\ mapping' = Answer(sheet').suggested
                                         /\ headerRow' = Answer(sheet').number
                      /\ profile'.known => profile'.file = [row |-> Answer(sheet').number,
                                                           columns |-> Answer(sheet').suggested]
    BY DEF UneditedInv
  <1>s. PICK s \in Spreadsheets : s = sheet
    BY DEF MappingInv
  <1>e. edits \in Nat
    BY BoundAssumption DEF MappingInv
  <1>a. PICK answer : answer = Answer(s)
    OBVIOUS
  <1>n. answer.number \in Nat
    <2>1. answer \in Answers
      BY <1>s, <1>a, AnswerIs
    <2>2. answer.number \in 1..MaxScan
      BY <2>1 DEF Answers
    <2> QED
      BY <2>2, BoundAssumption
  <1>1. CASE MappingInspect
    <2>1. sheet' = s /\ profile' = profile /\ edits' = edits
      BY <1>1, <1>s DEF MappingInspect
    <2>2. mapping' = answer.suggested /\ headerRow' = answer.number
      BY <1>1, <1>s, <1>a DEF MappingInspect, Answer, Grid
    <2> QED
      BY <1>s, <1>a, <2>1, <2>2 DEF UneditedInv
  <1>2. CASE EditRow \/ \E f \in Range(Field) : EditField(f)
    <2>1. edits' = edits + 1
      BY <1>2 DEF EditRow, EditField, ByHand
    <2> QED
      BY <1>e, <2>1
  <1>4. CASE SaveProfile
    <2>1. /\ sheet' = s /\ shape' = shape /\ mapping' = mapping /\ headerRow' = headerRow
          /\ edits' = edits /\ shape.known
          /\ profile' = [known |-> TRUE, file |-> AsDict(Saved(headerRow, mapping))]
      BY <1>4, <1>s DEF SaveProfile
    <2>2. mapping = answer.suggested /\ headerRow = answer.number
      BY <1>s, <1>a, <2>1 DEF UneditedInv
    <2>3. answer.number - 1 + 1 = answer.number
      BY <1>n
    <2>4. AsDict(Saved(headerRow, mapping)) = [row |-> answer.number, columns |-> answer.suggested]
      BY <2>2, <2>3 DEF AsDict, Saved
    <2> QED
      BY <1>a, <2>1, <2>2, <2>4
  <1>5. CASE ApplyProfile
    <2>1. /\ sheet' = s /\ shape' = shape /\ profile' = profile /\ edits' = edits
          /\ shape.known /\ profile.known
      BY <1>5, <1>s DEF ApplyProfile
    <2>2. /\ headerRow = answer.number
          /\ profile.file = [row |-> answer.number, columns |-> answer.suggested]
      BY <1>s, <1>a, <2>1 DEF UneditedInv
    <2>3. answer.number - 1 + 1 = answer.number
      BY <1>n
    <2>4. ProfileList(Loaded(profile.file)) = [row |-> answer.number, columns |-> answer.suggested]
      BY <2>2, <2>3 DEF ProfileList, Loaded
    <2>5. mapping' = answer.suggested /\ headerRow' = answer.number
      BY <1>5, <2>2, <2>4 DEF ApplyProfile
    <2> QED
      BY <1>s, <1>a, <2>1, <2>2, <2>5
  <1>6. CASE MappingPreview \/ UNCHANGED mappingVars
    <2>1. /\ sheet' = sheet /\ shape' = shape /\ mapping' = mapping /\ profile' = profile
          /\ headerRow' = headerRow /\ edits' = edits
      BY <1>6 DEF MappingPreview, mappingVars
    <2> QED
      BY <2>1 DEF UneditedInv
  <1> QED
    BY <1>1, <1>2, <1>4, <1>5, <1>6 DEF MappingNext

LEMMA UneditedHolds == MappingSpec => [](MappingInv /\ UneditedInv)
  <1> QED
    BY UneditedInit, UneditedNext, MappingInvariant, PTL DEF MappingSpec

\* Everything has its type: what is suggested, mapped, saved and read is of the
\* table's fields and the sheet's cells.
THEOREM MappingTypeCorrect == MappingSpec => []MappingTypeOK
  <1>1. MappingInv => MappingTypeOK
    <2> SUFFICES ASSUME MappingInv PROVE MappingTypeOK
      OBVIOUS
    <2> PICK s \in Spreadsheets : s = sheet
      BY DEF MappingInv
    <2>1. PICK grid \in Seq(Seq(Cell)) : grid = Grid
      BY GridType DEF Grid
    <2>2. shape \in {NotYet} \cup Answers
      BY AnswerIs DEF MappingInv
    <2>3. preview \in {NotYet} \cup Previews(Len(grid))
      <3>1. CASE preview = NotYet
        BY <3>1
      <3>2. CASE preview # NotYet
        <4>1. headerRow \in 0..Len(grid) /\ preview = Apply(grid, Resolve(grid, headerRow), mapping)
          BY <2>1, <3>2 DEF MappingInv
        <4>2. PICK header \in Headers : header = Resolve(grid, headerRow)
          BY <4>1, ResolveType
        <4>3. PICK columns \in Mappings : columns = mapping
          BY DEF MappingInv
        <4>4. Apply(grid, header, columns) \in Previews(Len(grid))
          BY ApplyType
        <4> QED
          BY <4>1, <4>2, <4>3, <4>4
      <3> QED
        BY <3>1, <3>2
    <2> QED
      BY <2>1, <2>2, <2>3 DEF MappingInv, MappingTypeOK, Answers, Previews, Reads
  <1> QED
    BY <1>1, MappingInvariant, PTL

\* Whatever the sheet, a heading that is suggested is one of its columns and not
\* blank, names the field it is suggested for, and is suggested for no other: the
\* claims of suggest, one field after the other.
THEOREM SuggestionIsSound ==
    MappingSpec => [](shape.known => Proper(shape.suggested, shape.columns))
  <1>1. MappingInv => (shape.known => Proper(shape.suggested, shape.columns))
    <2> SUFFICES ASSUME MappingInv, shape.known PROVE Proper(shape.suggested, shape.columns)
      OBVIOUS
    <2> PICK s \in Spreadsheets : s = sheet
      BY DEF MappingInv
    <2>1. shape = Answer(s)
      BY DEF MappingInv, NotYet
    <2> QED
      BY <2>1, AnswerIs
  <1> QED
    BY <1>1, MappingInvariant, PTL

\* Of a sheet whose header is clear, and whose headings name one field each, inspect
\* answers the header a person would name and suggests every column that has a whole
\* name of a field: no title, group label or row of data takes the header's place.
THEOREM InspectionHolds ==
    MappingSpec =>
      []((shape.known => ClearHeader(sheet) /\ Unambiguous(shape.columns)) => InspectionIsRight)
  <1>1. MappingInv /\ (shape.known => ClearHeader(sheet) /\ Unambiguous(shape.columns))
          => InspectionIsRight
    <2> SUFFICES ASSUME MappingInv, shape.known,
                        ClearHeader(sheet), Unambiguous(shape.columns)
                 PROVE  /\ shape.number = sheet.header
                        /\ Range(shape.suggested) \subseteq Range(shape.columns) \ {<<>>}
                        /\ \A f, g \in DOMAIN shape.suggested :
                             shape.suggested[f] = shape.suggested[g] => f = g
                        /\ \A c \in DOMAIN shape.columns, f \in Range(Field) :
                             Normalise(shape.columns[c]) \in Range(Options[f]) =>
                               f \in DOMAIN shape.suggested
      BY Zenon DEF InspectionIsRight
    <2> PICK s \in Spreadsheets : s = sheet
      BY DEF MappingInv
    <2>1. shape = Answer(s)
      BY DEF MappingInv, NotYet
    <2>2. shape.number = s.header
      BY <2>1, AnswerIs
    <2>3. Proper(shape.suggested, shape.columns)
      BY <2>1, AnswerIs
    <2>4. \A c \in DOMAIN shape.columns, f \in Range(Field) :
            Normalise(shape.columns[c]) \in Range(Options[f]) => f \in DOMAIN shape.suggested
      BY <2>1, AnswerIs
    <2>5. Range(shape.suggested) \subseteq Range(shape.columns) \ {<<>>}
      BY <2>3 DEF Proper, Range
    <2>6. \A f, g \in DOMAIN shape.suggested : shape.suggested[f] = shape.suggested[g] => f = g
      BY <2>3 DEF Proper
    <2> QED
      BY <2>2, <2>4, <2>5, <2>6
  <1> QED
    BY <1>1, MappingInvariant, PTL

\* What is previewed is what was inspected: the headings are found again, cells come
\* from their columns and rows from beneath the header, and profiles saved and applied
\* meanwhile change none of it.  Numbers of digits that become one by losing leading
\* zeros are warned about; of other spellings of one number nothing is said.
THEOREM PreviewHolds == MappingSpec => []PreviewIsWhatWasInspected
  <1>1. MappingInv /\ UneditedInv => PreviewIsWhatWasInspected
    <2> SUFFICES ASSUME MappingInv, UneditedInv PROVE PreviewIsWhatWasInspected
      OBVIOUS
    <2> PICK s \in Spreadsheets : s = sheet
      BY DEF MappingInv
    <2>1. PICK grid \in Seq(Seq(Cell)) : grid = FillMerged(s)
      BY GridType
    <2>2. Grid = grid
      BY <2>1 DEF Grid
    <2>3. PICK number \in Nat : number = headerRow
      BY DEF MappingInv
    <2>4. PICK columns \in Mappings : columns = mapping
      BY DEF MappingInv
    <2>5. PICK answer : answer = preview
      OBVIOUS
    <2>6. ASSUME answer.known
          PROVE  /\ shape = Answer(s) /\ number \in 0..Len(grid)
                 /\ answer = Apply(grid, Resolve(grid, number), columns)
      BY <2>2, <2>3, <2>4, <2>5, <2>6 DEF MappingInv, NotYet
    <2>7. ASSUME answer.known, columns = Answer(s).suggested,
                 number = 0 \/ (number = Answer(s).number /\ ~Answer(s).grouped)
          PROVE  Shows(answer, columns, Answer(s), grid)
      BY <2>1, <2>6, <2>7, SuggestionIsRead
    <2>8. ASSUME answer.known, NEW r \in answer.records, NEW q \in answer.records,
                 NEW f \in Whole \cap DOMAIN columns,
                 IsDigits(r.cells[f]), IsDigits(q.cells[f]), r.cells[f] # q.cells[f],
                 Number[r.cells[f][1]] = Number[q.cells[f][1]]
          PROVE  f \in answer.warnings
      <3>1. PICK header \in Headers : header = Resolve(grid, number)
        BY <2>6, <2>8, ResolveType
      <3>2. answer = Apply(grid, header, columns)
        BY <2>6, <2>8, <3>1
      <3> QED
        BY <2>8, <3>2, LossIsWarned
    <2>9. shape.known /\ edits = 0 => mapping = shape.suggested /\ headerRow = shape.number
      BY DEF MappingInv, UneditedInv, NotYet
    <2>10. preview.known /\ mapping = shape.suggested
             /\ (headerRow = 0 \/ (headerRow = shape.number /\ ~shape.grouped)) =>
           Shows(preview, mapping, shape, Grid)
      BY <2>2, <2>3, <2>4, <2>5, <2>6, <2>7
    <2>11. preview.known =>
             \A r, q \in preview.records, f \in Whole \cap DOMAIN mapping :
               LET one == r.cells[f]
                   other == q.cells[f]
               IN IsDigits(one) /\ IsDigits(other) /\ one # other
                    /\ Number[one[1]] = Number[other[1]] => f \in preview.warnings
      BY <2>4, <2>5, <2>8
    <2> QED
      BY <2>9, <2>10, <2>11, Zenon DEF PreviewIsWhatWasInspected, Shows
  <1> QED
    BY <1>1, UneditedHolds, PTL
===============================================================================
