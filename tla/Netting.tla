-------------------------------- MODULE Netting --------------------------------
(***************************************************************************)
(* Material requirements of one item: plan_item of                         *)
(* planbrain/netreq/core.py, loop iteration by loop iteration.  First the  *)
(* netting pass (one greedy pass that sizes lots as it goes, or a pass for *)
(* the requirements and then Wagner-Whitin over all of them), then the     *)
(* projection, then the offset by the lead time.                           *)
(*                                                                         *)
(* Quantities are integers: the model checks the plan's logic, not the     *)
(* rounding to six decimals that core.py applies on the way out.           *)
(***************************************************************************)
EXTENDS WagnerWhitin

CONSTANTS
    Horizon,    \* number of buckets
    Item        \* the items to plan

Bucket == 0..(Horizon - 1)

ASSUME HorizonAssumption == Horizon \in Nat

IsLot(lot) ==
    /\ lot.policy \in {"lot_for_lot", "fixed_qty", "min_max", "wagner_whitin"}
    /\ lot.policy = "fixed_qty" => lot.fixed \in Nat \ {0}
    /\ lot.policy = "min_max" => {lot.min, lot.multiple} \subseteq Nat
    /\ lot.policy = "wagner_whitin" => {lot.setup, lot.holding} \subseteq Nat \ {0}

IsItem(i) ==
    /\ i \in [onHand : Nat, safety : Nat, lead : Nat, working : [Bucket -> BOOLEAN],
              gross : [Bucket -> Nat], sched : [Bucket -> Nat], firm : [Bucket -> Nat],
              lot : {i.lot}]
    /\ IsLot(i.lot)

ASSUME ItemAssumption == \A i \in Item : IsItem(i)

VARIABLES
    item,       \* the item being planned
    phase,      \* the pass of plan_item
    t,          \* the bucket the pass is at
    balance,    \* the running balance of the pass
    net,        \* net requirements
    receipts,   \* planned order receipts
    projected,  \* closing balances
    releases,   \* planned order releases
    pastDue     \* past_due_release exceptions: bucket needed, quantity, days late

vars == <<item, phase, t, balance, net, receipts, projected, releases, pastDue>>

Zeros == [b \in Bucket |-> 0]

TypeOK ==
    /\ phase \in {"net", "lots", "project", "offset", "done"}
    /\ t \in 0..Horizon
    /\ balance \in Int
    /\ {net, receipts, releases} \subseteq [Bucket -> Nat]
    /\ projected \in [Bucket -> Int]
    /\ \A e \in pastDue : e.bucket \in Bucket /\ e.qty \in Nat \ {0} /\ e.late \in Nat \ {0}

\* plan_item has begun on item and netted nothing yet.
Fresh ==
    /\ phase = "net"
    /\ t = 0
    /\ balance = item.onHand
    /\ net = Zeros
    /\ receipts = Zeros
    /\ projected = Zeros
    /\ releases = Zeros
    /\ pastDue = {}

Init == item \in Item /\ Fresh

------------------------------------------------------------------------------
\* need rounded up to a multiple of lot (lot = 0: no multiple).
RoundUp(need, lot) == IF lot = 0 THEN need ELSE lot * ((need + lot - 1) \div lot)

\* _lot_size, for a positive need.
LotSize(need, lot) ==
    CASE lot.policy = "lot_for_lot" -> need
      [] lot.policy = "fixed_qty" -> RoundUp(need, lot.fixed)
      [] lot.policy = "min_max" ->
           RoundUp(IF lot.min > need THEN lot.min ELSE need, lot.multiple)

\* The balance of bucket t before anything is planned in it.
Opened == balance + item.sched[t] + item.firm[t] - item.gross[t]
Shortfall == item.safety - Opened
Firm(b) == item.firm[b] # 0
WholeHorizon == item.lot.policy = "wagner_whitin"

Netting(b) ==
    /\ phase = "net"
    /\ t < Horizon
    /\ t' = t + 1
    /\ balance' = b
    /\ UNCHANGED <<item, phase, projected, releases, pastDue>>

\* A bucket the planner fixed: the quantity passes through, and what it leaves
\* uncovered stays on the books.
NetFirm ==
    /\ Netting(Opened)
    /\ Firm(t)
    /\ net' = [net EXCEPT ![t] = IF Shortfall > 0 THEN Shortfall ELSE 0]
    /\ receipts' = IF WholeHorizon THEN receipts ELSE [receipts EXCEPT ![t] = item.firm[t]]

\* Mutant of NetShort: the lot's excess is not carried.
DropExcess ==
    /\ Netting(item.safety)
    /\ ~Firm(t)
    /\ Shortfall > 0
    /\ net' = [net EXCEPT ![t] = Shortfall]
    /\ receipts' = IF WholeHorizon THEN receipts
                   ELSE [receipts EXCEPT ![t] = LotSize(Shortfall, item.lot)]

\* A shortfall the engine is free to cover: by a lot, whose excess carries; or,
\* ahead of Wagner-Whitin, exactly.
NetShort ==
    /\ Netting(IF WholeHorizon THEN item.safety
               ELSE Opened + LotSize(Shortfall, item.lot))
    /\ ~Firm(t)
    /\ Shortfall > 0
    /\ net' = [net EXCEPT ![t] = Shortfall]
    /\ receipts' = IF WholeHorizon THEN receipts
                   ELSE [receipts EXCEPT ![t] = LotSize(Shortfall, item.lot)]

NetEnough ==
    /\ Netting(Opened)
    /\ ~Firm(t)
    /\ Shortfall <= 0
    /\ UNCHANGED <<net, receipts>>

StartPass(next) ==
    /\ t = Horizon
    /\ t' = 0
    /\ phase' = next
    /\ UNCHANGED <<item, net, projected, releases, pastDue>>

EndNetting ==
    /\ phase = "net"
    /\ StartPass(IF WholeHorizon THEN "lots" ELSE "project")
    /\ balance' = item.onHand
    /\ UNCHANGED receipts

\* What Wagner-Whitin is asked to cover: nothing where the planner has fixed
\* the bucket.
Masked == [b \in Bucket |-> IF Firm(b) THEN 0 ELSE net[b]]
Lots == WagnerWhitinLots(Masked, Horizon, item.lot.setup, item.lot.holding)

ChooseLots ==
    /\ phase = "lots"
    /\ receipts' = [b \in Bucket |-> Lots[b] + item.firm[b]]
    /\ phase' = "project"
    /\ UNCHANGED <<item, t, balance, net, projected, releases, pastDue>>

\* _project: recomputed from the receipts, which carry the fixed quantities.
Project ==
    /\ phase = "project"
    /\ t < Horizon
    /\ t' = t + 1
    /\ balance' = balance + item.sched[t] + receipts[t] - item.gross[t]
    /\ projected' = [projected EXCEPT ![t] = balance']
    /\ UNCHANGED <<item, phase, net, receipts, releases, pastDue>>

EndProject ==
    /\ phase = "project"
    /\ StartPass("offset")
    /\ UNCHANGED <<balance, receipts>>

\* Mutant of ReleaseAt: to the next open bucket instead of the previous one.
NextWorking(b) ==
    LET open == {x \in Bucket : x >= b /\ item.working[x]}
    IN IF b < 0 \/ open = {} THEN b ELSE CHOOSE x \in open : \A y \in open : x <= y

\* _previous_working: the last open bucket at or before b, else -1; a bucket
\* before the horizon is left alone.
ReleaseAt(b) ==
    LET open == {x \in Bucket : x <= b /\ item.working[x]}
    IN IF b < 0 THEN b
       ELSE IF open = {} THEN -1
       ELSE CHOOSE x \in open : \A y \in open : y <= x

Offsetting ==
    /\ phase = "offset"
    /\ t < Horizon
    /\ t' = t + 1
    /\ UNCHANGED <<item, phase, balance, net, receipts, projected>>

OffsetNothing ==
    /\ Offsetting
    /\ receipts[t] = 0
    /\ UNCHANGED <<releases, pastDue>>

OffsetInTime ==
    /\ Offsetting
    /\ receipts[t] # 0
    /\ LET at == ReleaseAt(t - item.lead)
       IN /\ at >= 0
          /\ releases' = [releases EXCEPT ![at] = @ + receipts[t]]
    /\ UNCHANGED pastDue

\* Too late to release: release it now, and say how late it is.
OffsetPastDue ==
    /\ Offsetting
    /\ receipts[t] # 0
    /\ LET at == ReleaseAt(t - item.lead)
       IN /\ at < 0
          /\ releases' = [releases EXCEPT ![0] = @ + receipts[t]]
          /\ pastDue' = pastDue \cup {[bucket |-> t, qty |-> receipts[t], late |-> -at]}

EndOffset ==
    /\ phase = "offset"
    /\ StartPass("done")
    /\ UNCHANGED <<balance, receipts>>

\* _shortages.
Shortages == {b \in Bucket : projected[b] < 0}

------------------------------------------------------------------------------
Next ==
    \/ NetFirm \/ NetShort \/ NetEnough \/ EndNetting \/ ChooseLots
    \/ Project \/ EndProject
    \/ OffsetNothing \/ OffsetInTime \/ OffsetPastDue \/ EndOffset

Spec == Init /\ [][Next]_vars

------------------------------------------------------------------------------
(***************************************************************************)
(* Properties of the finished plan.                                        *)
(***************************************************************************)
Planned == phase = "done"

\* What one lot of a per-bucket rule can exceed a need of one by, plus one.
Granularity ==
    CASE item.lot.policy = "fixed_qty" -> item.lot.fixed
      [] item.lot.policy = "min_max" -> item.lot.min + item.lot.multiple + 1
      [] OTHER -> 1

\* The plan buys enough and no more.  The only buckets it may leave below safety
\* stock, and so the only ones the risk screen may show a shortage at, are those a
\* planner fixed (what one leaves uncovered is planned "in a later bucket"); and no
\* per-bucket policy orders a lot it does not need: a lot in a free bucket leaves
\* less than one lot above safety stock, earlier excess and fixed quantities
\* included.
StockIsJustEnough ==
    Planned => \A b \in Bucket : ~Firm(b) =>
        /\ projected[b] >= item.safety
        /\ ~WholeHorizon /\ receipts[b] # 0 => projected[b] < item.safety + Granularity

\* What is released is released on a day the plant is open, unless it is overdue;
\* and an order is reported overdue exactly when no open bucket is left to release it
\* in, so the report and the release list never disagree.
OverdueIsReported ==
    Planned => \A b \in Bucket :
        /\ releases[b] # 0 => item.working[b] \/ (b = 0 /\ pastDue # {})
        /\ (\E e \in pastDue : e.bucket = b) <=>
              /\ receipts[b] # 0
              /\ ~\E x \in Bucket : x <= b - item.lead /\ item.working[x]

\* Everything planned is released once, early enough for its lead time or else
\* now, and what is overdue is reported.
ReleasedInTime ==
    /\ OverdueIsReported
    /\ Planned => SumFunction(releases) = SumFunction(receipts)
    /\ Planned => \A b \in Bucket :
         LET latest == IF b < item.lead THEN 0 ELSE b - item.lead
         IN UpTo(releases, latest) >= UpTo(receipts, b)

\* Wagner-Whitin is optimal when the first bucket needs something.
LotsAreCheapest ==
    Planned /\ WholeHorizon /\ (\A b \in Bucket : ~Firm(b)) /\ net[0] # 0 =>
        PlanCost(receipts, net, Horizon, item.lot.setup, item.lot.holding)
            = CheapestCost(net, Horizon, item.lot.setup, item.lot.holding)

\* docs/overrides.md: "A firm bucket is fixed entirely: plan_item passes the
\* quantity through and lot-sizes nothing on top of it", under every policy.
FixedMeansFixed ==
    Planned => \A b \in Bucket : Firm(b) => receipts[b] = item.firm[b]
==============================================================================
