------------------------------- MODULE Screens -------------------------------
(***************************************************************************)
(* What a planner reads of a finished plan: the order list of orders.py,   *)
(* the two risk lists of alerts.py and the fixed numbers of overrides.py,  *)
(* behind plan.orders, plan.export, plan.risks and override.list.  They    *)
(* only read, so a behaviour asks for one page, after the plan has run.    *)
(*                                                                         *)
(* plant.raw is the set of SKUs on the raw level; plant.reasons the        *)
(* addresses <<SKU, bucket>> of plan_override, which may lie outside the   *)
(* horizon.  A row is a record of date, sku and qty: names, locations and  *)
(* lead times are joined on and leave the list as it is.                   *)
(***************************************************************************)
EXTENDS Capacity

CONSTANT PageLimit      \* rows a page may have

ASSUME PageAssumption == PageLimit \in Nat

VARIABLE page           \* the answer; an empty record before

ScreensInit == page = NoAnswer

------------------------------------------------------------------------------
\* Mutant of OrderRows: nothing is ordered on a day the plant is closed.
OpenDaysOnly ==
    {r \in [date : Bucket, sku : Skus, qty : {Released(s)[b] : s \in Skus, b \in Bucket}] :
        r.qty = Released(r.sku)[r.date] /\ r.qty # 0 /\ plant.parts[r.sku].working[r.date]}

\* Rows of a measure that a list is made of: read_facts fills in zeros, which
\* are no instruction.
OrderRows ==
    {r \in [date : Bucket, sku : Skus, qty : {Released(s)[b] : s \in Skus, b \in Bucket}] :
        r.qty = Released(r.sku)[r.date] /\ r.qty # 0}

ShortageRows ==
    UNION {{[date |-> b, sku |-> plans[i].sku, qty |-> -plans[i].projected[b]] :
              b \in {x \in Bucket : plans[i].projected[x] < 0}} : i \in DOMAIN plans}

PastDueRows ==
    UNION {{[date |-> e.bucket, sku |-> plans[i].sku, qty |-> e.qty] : e \in plans[i].pastDue} :
              i \in DOMAIN plans}

FixedRows ==
    UNION {{[date |-> b, sku |-> s, qty |-> plant.parts[s].firm[b]] :
              b \in {x \in Bucket : plant.parts[s].firm[x] # 0}} : s \in Skus}

\* Soonest first, which every list is in.
Sooner(r, s) == r.date < s.date \/ (r.date = s.date /\ r.sku < s.sku)

\* The largest first; a stable sort leaves equal ones soonest first.
WorstFirst(r, s) == r.qty > s.qty \/ (r.qty = s.qty /\ Sooner(r, s))

ActionFor(s) == IF s \in plant.raw THEN "buy" ELSE "make"

Actions == {"make", "buy"}
Wanted(action) == {r \in OrderRows : action = "all" \/ ActionFor(r.sku) = action}

Page(list) == SubSeq(list, 1, IF Len(list) < PageLimit THEN Len(list) ELSE PageLimit)

------------------------------------------------------------------------------
Asked ==
    /\ stage = "planned"
    /\ verdict # NoAnswer /\ overloads = NoAnswer /\ at = 1
    /\ page = NoAnswer

\* Mutant of OrderList: the page is cut before it is filtered.
CutThenFilter(action) ==
    SelectSeq(Page(Sorted(OrderRows, Sooner)), LAMBDA r : r \in Wanted(action))

OrderList(action) == Sorted(Wanted(action), Sooner)

PlanOrders(action) ==
    LET list == OrderList(action)
    IN /\ Asked
       /\ page' = [status |-> "orders", action |-> action, total |-> Len(list),
                   totals |-> [a \in Actions |->
                                 Cardinality({n \in DOMAIN list : ActionFor(list[n].sku) = a})],
                   rows |-> Page(list)]

\* An empty export would read as nothing to do.
RefuseExport(action) ==
    /\ Asked
    /\ OrderList(action) = <<>>
    /\ page' = [status |-> "refused"]

PlanExport(action) ==
    /\ Asked
    /\ OrderList(action) # <<>>
    /\ page' = [status |-> "exported", action |-> action, rows |-> OrderList(action)]

\* A list for a screen: its page, ranked as asked, and the totals of all of it.
Summary(rows, worst) ==
    LET list == IF worst THEN Sorted(rows, WorstFirst) ELSE Sorted(rows, Sooner)
    IN [total |-> Len(list), items |-> Cardinality({r.sku : r \in rows}),
        units |-> SumFunction([r \in rows |-> r.qty]),
        first |-> {r.date : r \in {x \in rows : \A y \in rows : x.date <= y.date}},
        rows |-> Page(list)]

PlanRisks(worst) ==
    /\ Asked
    /\ page' = [status |-> "risks", worst |-> worst,
                shortages |-> Summary(ShortageRows, worst),
                overdue |-> Summary(PastDueRows, worst)]

Addresses == {<<r.sku, r.date>> : r \in FixedRows}

OverrideList ==
    /\ Asked
    /\ page' = [status |-> "overrides", fixed |-> Summary(FixedRows, FALSE),
                unexplained |-> Addresses \ plant.reasons,
                unused |-> plant.reasons \ Addresses]

Ask ==
    \/ \E action \in Actions \cup {"all"} :
          PlanOrders(action) \/ PlanExport(action) \/ RefuseExport(action)
    \/ \E worst \in BOOLEAN : PlanRisks(worst)
    \/ OverrideList

ScreensInitAll == ExplodeInit /\ CapacityInit /\ ScreensInit

ScreensNext ==
    \/ ExplodeNext /\ UNCHANGED <<capacityVars, page>>
    \/ CapacityNext /\ page = NoAnswer /\ UNCHANGED page
    \/ Ask /\ UNCHANGED <<vars, explodeVars, capacityVars>>

ScreensSpec == ScreensInitAll /\ [][ScreensNext]_<<vars, explodeVars, capacityVars, page>>

------------------------------------------------------------------------------
(***************************************************************************)
(* Properties.                                                             *)
(***************************************************************************)
\* No row off the page comes before one on it.
IsTop(rows, all, before(_, _)) ==
    LET shown == {rows[i] : i \in DOMAIN rows}
    IN /\ shown \subseteq all
       /\ Len(rows) = IF Cardinality(all) < PageLimit THEN Cardinality(all) ELSE PageLimit
       /\ \A r \in all \ shown, s \in shown : before(s, r)

\* A page owns up to what it is a page of ("total is the whole list"): whatever
\* the filter and the ranking, it shows the first rows of all there are, never of
\* those that came first otherwise; the counts are of the whole list, and the two
\* filters share it out between the plant and purchasing.  An export is never
\* just the page.
PagesOwnUp ==
    /\ page.status = "orders" =>
         /\ IsTop(page.rows, Wanted(page.action), Sooner)
         /\ page.total = Cardinality(Wanted(page.action))
         /\ page.totals["make"] + page.totals["buy"] = page.total
         /\ Cardinality(Wanted("make")) + Cardinality(Wanted("buy")) = Cardinality(OrderRows)
    /\ page.status = "exported" => Len(page.rows) = Cardinality(Wanted(page.action))
    /\ page.status = "risks" =>
         LET ranking(r, s) == IF page.worst THEN r.qty >= s.qty ELSE r.date <= s.date
         IN /\ IsTop(page.shortages.rows, ShortageRows, ranking)
            /\ IsTop(page.overdue.rows, PastDueRows, ranking)
            /\ page.overdue.total = Cardinality(PastDueRows)

\* The screens tell one plan.  What is overdue is on the order list on its first
\* day, with at least that quantity; the only shortages are where the planner
\* fixed a number, which is on the list of fixed numbers; and what the order list
\* asks for is enough for all that is needed of a SKU, safety stock included,
\* unless its last bucket is fixed.
ScreensTellOnePlan ==
    page.status = "risks" =>
        /\ \A i \in DOMAIN page.overdue.rows :
             LET s == page.overdue.rows[i].sku
                 late == {r \in PastDueRows : r.sku = s}
             IN \E r \in OrderRows :
                  /\ r.sku = s /\ r.date = 0
                  /\ r.qty >= SumFunction([x \in late |-> x.qty])
        /\ \A i \in DOMAIN page.shortages.rows :
             LET short == page.shortages.rows[i]
             IN \E r \in FixedRows : r.sku = short.sku /\ r.date = short.date
        /\ \A i \in DOMAIN plans :
             LET part == plant.parts[plans[i].sku]
                 own == {r \in OrderRows : r.sku = plans[i].sku}
                 ordered == SumFunction([r \in own |-> r.qty])
             IN Horizon # 0 /\ part.firm[Horizon - 1] = 0 =>
                  part.onHand + SumFunction(part.sched) + ordered
                    >= SumFunction(plans[i].gross) + part.safety
==============================================================================
