------------------------------ MODULE MCNetting ------------------------------
(* Items over a short horizon: every demand, one receipt, the lot rules.     *)
EXTENDS Netting

CONSTANT MaxQty

Series == [Bucket -> 0..MaxQty]
\* Nothing on its way, or a unit in the first or third bucket: before, with or
\* after a fixed one.
OneReceipt == {Zeros} \cup {[Zeros EXCEPT ![b] = 1] : b \in {0, 2}}

LotRules ==
    {[policy |-> "lot_for_lot"], [policy |-> "fixed_qty", fixed |-> 2],
     [policy |-> "min_max", min |-> 2, multiple |-> 0],
     [policy |-> "min_max", min |-> 1, multiple |-> 3]}

CostRules == {[policy |-> "wagner_whitin", setup |-> s, holding |-> 1] : s \in {1, 3}}

Make(gross, sched, firm, working, onHand, safety, lead, lot) ==
    [gross |-> gross, sched |-> sched, firm |-> firm, working |-> working,
     onHand |-> onHand, safety |-> safety, lead |-> lead, lot |-> lot]

AlwaysOpen == [b \in Bucket |-> TRUE]

OneFixed == {f \in [Bucket -> {0, 2}] : SumFunction(f) <= 2}

\* The netting passes: every demand, one receipt and one fixed bucket.
NettedItems ==
    {Make(g, r, f, AlwaysOpen, 0, s, 0, l) :
        g \in Series, r \in OneReceipt, f \in OneFixed, s \in {0, 1}, l \in LotRules}

\* Wagner-Whitin: longer demands, nothing fixed.
CostedItems ==
    {Make(g, Zeros, Zeros, AlwaysOpen, 0, 0, 0, l) : g \in Series, l \in CostRules}

\* The offset: every calendar and lead time.
OffsetItems ==
    {Make(g, Zeros, Zeros, w, 1, 0, d, [policy |-> "lot_for_lot"]) :
        g \in [Bucket -> 0..1], w \in [Bucket -> BOOLEAN], d \in 0..Horizon}

MCItem == NettedItems \cup CostedItems \cup OffsetItems

\* Wagner-Whitin with fixed buckets.
FixedItems ==
    {Make(g, Zeros, f, AlwaysOpen, 0, 0, 0, l) :
        g \in Series, f \in [Bucket -> {0, 2}], l \in CostRules}
==============================================================================
