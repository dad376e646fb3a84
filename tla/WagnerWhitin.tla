----------------------------- MODULE WagnerWhitin -----------------------------
(***************************************************************************)
(* Lot sizing over a whole horizon: _wagner_whitin_lots of                 *)
(* planbrain/netreq/core.py, and what it is a dynamic program for.         *)
(* A requirement d is a function from the buckets 0..n-1; quantities and   *)
(* costs are integers, so the code's 1e-9 tolerance is equality.           *)
(***************************************************************************)
EXTENDS Integers, FiniteSets, Functions

\* Mutant of Carry: every unit is held for one bucket.
FlatCarry(d, j, t) == SumFunction([k \in j..(t-1) |-> d[k]])

\* Holding what buckets j..t-1 need from bucket j on.
Carry(d, j, t) == SumFunction([k \in j..(t-1) |-> (k - j) * d[k]])

\* best[t]: the least cost of covering buckets 0..t-1, and the last order of
\* that cover.  Equal costs are settled for the LATEST order ("<=").
Best(d, n, setup, holding) ==
    LET best[t \in 0..n] ==
          IF t = 0 THEN [cost |-> 0, at |-> 0]
          ELSE LET cost == [j \in 0..(t-1) |-> best[j].cost + setup + holding * Carry(d, j, t)]
                   at == CHOOSE j \in 0..(t-1) :
                           \A i \in 0..(t-1) :
                             cost[j] < cost[i] \/ (cost[j] = cost[i] /\ i <= j)
               IN [cost |-> cost[at], at |-> at]
    IN best

\* The buckets the walk back orders in.
OrderPoints(d, n, setup, holding) ==
    LET best == Best(d, n, setup, holding)
        points[t \in 0..n] == IF t = 0 THEN {}
                              ELSE {best[t].at} \cup points[best[t].at]
    IN points[n]

\* Ordering at these points, each for everything up to the next one.
LotsAt(points, d, n) ==
    [j \in 0..(n-1) |->
        IF j \notin points THEN 0
        ELSE SumFunction([k \in {i \in j..(n-1) : \A p \in points : p > j => i < p} |-> d[k]])]

WagnerWhitinLots(d, n, setup, holding) ==
    IF \A k \in 0..(n-1) : d[k] = 0
    THEN [k \in 0..(n-1) |-> 0]
    ELSE LotsAt(OrderPoints(d, n, setup, holding), d, n)

------------------------------------------------------------------------------
\* The reference: what a plan that covers d really costs, a setup per order
\* placed and a holding charge per unit and bucket carried.
UpTo(f, t) == SumFunction([k \in 0..t |-> f[k]])

Covers(lots, d, n) == \A t \in 0..(n-1) : UpTo(lots, t) >= UpTo(d, t)

PlanCost(lots, d, n, setup, holding) ==
    setup * Cardinality({k \in 0..(n-1) : lots[k] # 0})
    + holding * SumFunction([t \in 0..(n-1) |-> UpTo(lots, t) - UpTo(d, t)])

\* Among all covers an optimal one orders whole runs of buckets at some points.
CheapestCost(d, n, setup, holding) ==
    LET costs == {PlanCost(LotsAt(p, d, n), d, n, setup, holding) :
                    p \in {q \in SUBSET (0..(n-1)) : Covers(LotsAt(q, d, n), d, n)}}
    IN CHOOSE c \in costs : \A e \in costs : c <= e
==============================================================================
