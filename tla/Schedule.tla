------------------------------- MODULE Schedule -------------------------------
(***************************************************************************)
(* The physics of stock on the reconciliation ladder: replay_schedule of   *)
(* planbrain/reconcile/core.py.  A bucket receives what is scheduled and   *)
(* gives up what is demanded; with truncation the balance stops at zero.   *)
(* The two lists are taken up one bucket at a time.                        *)
(***************************************************************************)
EXTENDS Integers, Sequences

CONSTANTS
    Opening,    \* the stock before the first bucket
    Receipt,    \* quantities a bucket can receive
    Demand,     \* quantities a bucket can be asked for
    Horizon     \* buckets to go through

VARIABLES
    truncate,   \* whether stock below zero is forgotten
    receipts,   \* the schedule, as far as it has been used
    demand,     \* the demand, as far as it has been used
    trace       \* closing balances

vars == <<truncate, receipts, demand, trace>>

Init ==
    /\ truncate \in BOOLEAN
    /\ receipts = <<>>
    /\ demand = <<>>
    /\ trace = <<>>

Balance == IF trace = <<>> THEN Opening ELSE trace[Len(trace)]

Closing(available, q) ==
    IF truncate /\ available < q THEN 0 ELSE available - q

Bucket(r, q) ==
    /\ Len(trace) < Horizon
    /\ receipts' = Append(receipts, r)
    /\ demand' = Append(demand, q)
    /\ trace' = Append(trace, Closing(Balance + r, q))
    /\ UNCHANGED truncate

Next == \E r \in Receipt, q \in Demand : Bucket(r, q)

Spec == Init /\ [][Next]_vars
===============================================================================
