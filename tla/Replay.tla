-------------------------------- MODULE Replay --------------------------------
(***************************************************************************)
(* The inventory replay behind every published service level: replay of    *)
(* planbrain/simulate/core.py.  One bucket is three steps: collect what    *)
(* the pipeline delivers, review and perhaps order, serve.                 *)
(*                                                                         *)
(* The policy under test is a parameter of the code; here it may order     *)
(* anything at any review.  Demand and the plant's delivery factor are     *)
(* lists in the code, which no step reads ahead; here each entry is chosen *)
(* when it is read.  The factor is taken at the ends of its scale, all or  *)
(* nothing.                                                                *)
(***************************************************************************)
EXTENDS Integers, Sequences, Functions

CONSTANTS
    Horizon,    \* buckets replayed
    Opening,    \* initial stock
    MaxOrder,   \* orders are 0..MaxOrder
    MaxDemand,  \* demands are 0..MaxDemand
    MaxLead,    \* lead times are 0..MaxLead
    MaxReview   \* review periods are 1..MaxReview

ASSUME SizeAssumption ==
    {Horizon, Opening, MaxOrder, MaxDemand, MaxLead, MaxReview} \subseteq Nat

VARIABLES
    setting,    \* lead time, review period, and what happens to unmet demand
    pc,         \* the step of the bucket
    t,          \* the bucket
    onHand,     \* stock
    pipeline,   \* ordered and not collected, by arrival
    backlog,    \* units owed
    counts,     \* units demanded, served, served on time and ordered
    arrived,    \* history: what this bucket received so far
    withheld,   \* history: what the plant did not deliver
    receipts,   \* history: what each bucket received
    demand,     \* history: what each bucket was asked for
    trace       \* closing positions: on_hand_trace less backlog_trace

vars == <<setting, pc, t, onHand, pipeline, backlog, counts, arrived, withheld,
          receipts, demand, trace>>

------------------------------------------------------------------------------
Arrival == 0..(Horizon + MaxLead)
Unmet   == {"lost", "backorder"}
Setting == [lead : 0..MaxLead, review : 1..MaxReview, unmet : Unmet]
Counts  == [demanded : Nat, served : Nat, onTime : Nat, ordered : Nat]

TypeOK ==
    /\ setting \in Setting
    /\ pc \in {"collect", "review", "serve"}
    /\ t \in 0..Horizon
    /\ onHand \in Nat /\ backlog \in Nat /\ arrived \in Nat /\ withheld \in Nat
    /\ pipeline \in [Arrival -> Nat]
    /\ counts \in Counts
    /\ receipts \in Seq(0..MaxOrder)
    /\ demand \in Seq(0..MaxDemand)
    /\ trace \in Seq(Int)

Init ==
    /\ setting \in Setting
    /\ pc = "collect"
    /\ t = 0
    /\ onHand = Opening
    /\ pipeline = [a \in Arrival |-> 0]
    /\ backlog = 0
    /\ counts = [demanded |-> 0, served |-> 0, onTime |-> 0, ordered |-> 0]
    /\ arrived = 0
    /\ withheld = 0
    /\ receipts = <<>>
    /\ demand = <<>>
    /\ trace = <<>>

------------------------------------------------------------------------------
\* q units turn up, or none of them do.
TurnUp(q, factor) ==
    /\ onHand' = onHand + q * factor
    /\ arrived' = arrived + q * factor
    /\ withheld' = withheld + q * (1 - factor)

\* Pop this bucket's arrivals.
Collect(factor) ==
    /\ pc = "collect"
    /\ t < Horizon
    /\ pc' = "review"
    /\ TurnUp(pipeline[t], factor)
    /\ pipeline' = [pipeline EXCEPT ![t] = 0]
    /\ UNCHANGED <<setting, t, backlog, counts, receipts, demand, trace>>

ReviewDay == t % setting.review = 0

\* No review today, or the policy wants nothing.
OrderNothing ==
    /\ pc = "review"
    /\ pc' = "serve"
    /\ UNCHANGED <<setting, t, onHand, pipeline, backlog, counts, arrived, withheld,
                   receipts, demand, trace>>

\* Mutant of OrderForToday: into the pipeline like any other order.
OrderIntoToday(q, factor) ==
    /\ pc = "review"
    /\ ReviewDay
    /\ setting.lead = 0
    /\ pc' = "serve"
    /\ pipeline' = [pipeline EXCEPT ![t] = @ + q]
    /\ counts' = [counts EXCEPT !.ordered = @ + q * factor]
    /\ UNCHANGED <<setting, t, onHand, backlog, arrived, withheld, receipts, demand, trace>>

\* Same-bucket delivery: straight into stock, and only what turns up counts as
\* ordered.
OrderForToday(q, factor) ==
    /\ pc = "review"
    /\ ReviewDay
    /\ setting.lead = 0
    /\ pc' = "serve"
    /\ onHand' = onHand + q * factor
    /\ arrived' = arrived + q * factor
    /\ counts' = [counts EXCEPT !.ordered = @ + q * factor]
    /\ UNCHANGED <<setting, t, pipeline, backlog, withheld, receipts, demand, trace>>

OrderAhead(q) ==
    /\ pc = "review"
    /\ ReviewDay
    /\ setting.lead > 0
    /\ pc' = "serve"
    /\ pipeline' = [pipeline EXCEPT ![t + setting.lead] = @ + q]
    /\ counts' = [counts EXCEPT !.ordered = @ + q]
    /\ UNCHANGED <<setting, t, onHand, backlog, arrived, withheld, receipts, demand, trace>>

Less(x, y) == IF x < y THEN x ELSE y

\* Mutant of PaidOff: today's customers are served before those who wait.
TodayFirst(fulfilled, q) == fulfilled - Less(fulfilled, q)

\* The part of the units served that goes to those who wait.
PaidOff(fulfilled, q) == Less(fulfilled, backlog)

\* Mutant of NewlyOwed: lost sales come back tomorrow as well.
OwedAnyway(today, q) == q - today

\* What today adds to the backlog.
NewlyOwed(today, q) == IF setting.unmet = "backorder" THEN q - today ELSE 0

\* Serve the backlog, then today, from what is on hand.
Serve(q) ==
    /\ pc = "serve"
    /\ LET fulfilled == Less(onHand, q + backlog)
           paid == PaidOff(fulfilled, q)
           today == fulfilled - paid
       IN /\ onHand' = onHand - fulfilled
          /\ backlog' = backlog - paid + NewlyOwed(today, q)
          /\ counts' = [counts EXCEPT !.demanded = @ + q, !.served = @ + fulfilled,
                                      !.onTime = @ + today]
    /\ t' = t + 1
    /\ pc' = "collect"
    /\ arrived' = 0
    /\ receipts' = Append(receipts, arrived)
    /\ demand' = Append(demand, q)
    /\ trace' = Append(trace, onHand' - backlog')
    /\ UNCHANGED <<setting, pipeline, withheld>>

Next ==
    \/ \E factor \in {0, 1} : Collect(factor)
    \/ OrderNothing
    \/ \E q \in 1..MaxOrder, factor \in {0, 1} : OrderForToday(q, factor)
    \/ \E q \in 1..MaxOrder : OrderAhead(q)
    \/ \E q \in 0..MaxDemand : Serve(q)

Spec == Init /\ [][Next]_vars

------------------------------------------------------------------------------
(***************************************************************************)
(* Properties.                                                             *)
(***************************************************************************)
\* The first bucket whose arrivals have not been collected.
NextArrival == IF pc = "collect" THEN t ELSE t + 1

\* What the remaining buckets, and those after the horizon, will still collect.
Coming == SumFunction([a \in NextArrival..(Horizon + MaxLead) |-> pipeline[a]])

\* No order vanishes: every unit that was in stock or ordered is in stock,
\* served, still coming or withheld by the plant ("the order vanishes without
\* a sound" is what happened once, at zero lead time).
NoOrderVanishes ==
    Opening + counts.ordered = onHand + counts.served + Coming + withheld

\* Nobody waits beside stock, and what was demanded was served, is owed, or, if
\* unmet demand is lost, was lost on the day: then all service is on time.
DemandAddsUp ==
    /\ pc = "collect" => onHand = 0 \/ backlog = 0
    /\ setting.unmet = "backorder" => counts.demanded = counts.served + backlog
    /\ setting.unmet = "lost" => backlog = 0 /\ counts.served = counts.onTime

\* Today's customers are served only once nobody from an earlier day is owed
\* ("anything else would leave the oldest customer waiting longest"), so the
\* fill rate never counts a late unit as on time.
OwedFirst ==
    [][counts'.onTime > counts.onTime => counts'.served - counts.served >= backlog]_vars

\* The replay is the ladder's schedule, applied to whatever arrived: truncated
\* when sales are lost, running below zero when they are owed.  This is the
\* residual the reconciliation reports, at zero lead time and any other.
Ladder == INSTANCE Schedule WITH
            truncate <- (setting.unmet = "lost"), Receipt <- 0..MaxOrder,
            Demand <- 0..MaxDemand
ImplementsSchedule == Ladder!Spec

------------------------------------------------------------------------------
(***************************************************************************)
(* The inductive invariants behind the theorems of ReplayProofs.           *)
(***************************************************************************)
\* A bucket receives one order at most: no order is under way for the bucket the
\* next review would order for, and at zero lead time none is under way at all.
PipelineInv ==
    /\ pc # "collect" => t < Horizon
    /\ pc = "collect" => arrived = 0
    /\ pc = "review" /\ setting.lead = 0 => arrived = 0
    /\ arrived \in 0..MaxOrder
    /\ \A a \in Arrival :
         /\ pipeline[a] \in 0..MaxOrder
         /\ pipeline[a] # 0 =>
                a < t + setting.lead + (IF pc = "serve" THEN 1 ELSE 0)

\* The net position is the ladder's balance and what arrived since.
LadderInv ==
    /\ Len(trace) = t
    /\ onHand - backlog = Ladder!Balance + arrived

ReplayInv == TypeOK /\ PipelineInv /\ DemandAddsUp /\ LadderInv
===============================================================================
