---------------------------- MODULE NettingProofs ----------------------------
(***************************************************************************)
(* Theorems about the material plan: of one item, for any horizon, demand, *)
(* receipts, calendar, lead time and lot rule; of a product structure, for *)
(* any SKUs, edges and quantities; and of its capacity, for any routings,  *)
(* hours and growth.                                                       *)
(*                                                                         *)
(* Netting and projection, the two passes that walk the balance, are tied  *)
(* together by a path: the opening balance of every bucket, which the      *)
(* first pass determines and the second one walks again.  Ahead of         *)
(* Wagner-Whitin the path is the one that exactly what is asked for would  *)
(* give, and the projection is above it by what the lots order ahead: at   *)
(* every bucket not less than nothing, since every bucket is covered by    *)
(* the last order at or before it.                                         *)
(*                                                                         *)
(* Low-level codes: an edge still slack has a parent that was raised since *)
(* the edge was last looked at, so a change in round r means a code of at  *)
(* least r; and without a loop a code is at most the number of SKUs above, *)
(* so a round that changes something after the last one means a loop.      *)
(* Planning goes down the codes, so every parent is planned before its     *)
(* component is.                                                           *)
(*                                                                         *)
(* Capacity: while the routings are walked a slot holds what those passed  *)
(* ask of it, so the verdict is about the sum over all of them.  The       *)
(* explanation walks them once more and sets the hours of each SKU apart,  *)
(* so what it lists of a slot adds up to the load the verdict saw, and the *)
(* shares of an excess to the excess.                                      *)
(*                                                                         *)
(* Screens: a row of a list is told from the others by its date and SKU,   *)
(* so every list has one order and a page is the first rows of it.  What   *)
(* the lists say of each other is what every finished plan comes to.       *)
(***************************************************************************)
EXTENDS Screens, Sums, SequenceTheorems, TLAPS

USE HorizonAssumption

------------------------------------------------------------------------------
(***************************************************************************)
(* Lots.                                                                   *)
(***************************************************************************)
\* A multiple of the lot is enough, and by less than a lot too much.
LEMMA RoundUpCovers ==
    ASSUME NEW need \in Nat, NEW lot \in Nat
    PROVE  /\ RoundUp(need, lot) \in Nat
           /\ RoundUp(need, lot) >= need
           /\ lot = 0 => RoundUp(need, lot) = need
           /\ lot # 0 => RoundUp(need, lot) < need + lot
  <1>1. CASE lot = 0
    BY <1>1 DEF RoundUp
  <1>2. CASE lot # 0
    <2> DEFINE q == (need + lot - 1) \div lot
    <2>1. q \in Nat /\ lot * q >= need /\ lot * q < need + lot
      BY <1>2, SMTT(30)
    <2>2. lot * q \in Nat
      BY <2>1
    <2> QED
      BY <1>2, <2>1, <2>2 DEF RoundUp
  <1> QED
    BY <1>1, <1>2

PerBucket == ~WholeHorizon

LEMMA LotCovers ==
    ASSUME IsLot(item.lot), PerBucket, NEW need \in Nat \ {0}
    PROVE  /\ LotSize(need, item.lot) \in Nat
           /\ LotSize(need, item.lot) >= need
           /\ Granularity \in Nat
           /\ LotSize(need, item.lot) < need + Granularity
  <1>1. item.lot.policy \in {"lot_for_lot", "fixed_qty", "min_max"}
    BY DEF IsLot, PerBucket, WholeHorizon
  <1>2. CASE item.lot.policy = "lot_for_lot"
    BY <1>2 DEF LotSize, Granularity
  <1>3. CASE item.lot.policy = "fixed_qty"
    <2>1. item.lot.fixed \in Nat \ {0}
      BY <1>3 DEF IsLot
    <2> QED
      BY <1>3, <2>1, RoundUpCovers DEF LotSize, Granularity
  <1>4. CASE item.lot.policy = "min_max"
    <2> DEFINE most == IF item.lot.min > need THEN item.lot.min ELSE need
    <2>1. item.lot.min \in Nat /\ item.lot.multiple \in Nat
      BY <1>4 DEF IsLot
    <2>2. most \in Nat /\ most >= need /\ most <= need + item.lot.min
      BY <2>1
    <2>3. LotSize(need, item.lot) = RoundUp(most, item.lot.multiple)
      BY <1>4 DEF LotSize
    <2>4. Granularity = item.lot.min + item.lot.multiple + 1
      BY <1>4 DEF Granularity
    <2> HIDE DEF most
    <2>5. /\ RoundUp(most, item.lot.multiple) \in Nat
          /\ RoundUp(most, item.lot.multiple) >= most
          /\ RoundUp(most, item.lot.multiple) < most + item.lot.multiple + 1
      <3>1. /\ RoundUp(most, item.lot.multiple) \in Nat
            /\ RoundUp(most, item.lot.multiple) >= most
            /\ item.lot.multiple = 0 => RoundUp(most, item.lot.multiple) = most
            /\ item.lot.multiple # 0 =>
                 RoundUp(most, item.lot.multiple) < most + item.lot.multiple
        BY <2>1, <2>2, RoundUpCovers, Zenon
      <3> HIDE DEF RoundUp
      <3> QED
        BY <2>1, <2>2, <3>1
    <2> QED
      BY <2>1, <2>2, <2>3, <2>4, <2>5
  <1> QED
    BY <1>1, <1>2, <1>3, <1>4

------------------------------------------------------------------------------
(***************************************************************************)
(* The path of the balance.                                                *)
(***************************************************************************)
Path(f, n) ==
    /\ f \in [0..Horizon -> Int]
    /\ f[0] = item.onHand
    /\ \A b \in Bucket : b < n => f[b + 1] = f[b] + item.sched[b] + receipts[b] - item.gross[b]

Enough(f, n) ==
    \A b \in Bucket : b < n /\ ~Firm(b) =>
        /\ f[b + 1] >= item.safety
        /\ receipts[b] # 0 => f[b + 1] < item.safety + Granularity

FirmUpTo(n) == \A b \in Bucket : b < n /\ Firm(b) => receipts[b] = item.firm[b]

\* The netting pass has laid the path up to bucket t and planned nothing after it.
NetInv ==
    phase = "net" =>
        /\ FirmUpTo(t)
        /\ \A b \in Bucket : b >= t => receipts[b] = 0
        /\ \E f : Path(f, t) /\ Enough(f, t) /\ f[t] = balance

\* The projection walks the same path.
ProjectInv ==
    phase \in {"project", "offset", "done"} =>
        /\ FirmUpTo(Horizon)
        /\ \E f :
             /\ Path(f, Horizon) /\ Enough(f, Horizon)
             /\ phase = "project" => f[t] = balance
             /\ \A b \in Bucket : (phase = "project" => b < t) => projected[b] = f[b + 1]

PassTypes ==
    /\ IsItem(item)
    /\ PerBucket => phase \in {"net", "project", "offset", "done"}
    /\ t \in 0..Horizon
    /\ balance \in Int
    /\ receipts \in [Bucket -> Nat]
    /\ projected \in [Bucket -> Int]

PassInv == PassTypes /\ NetInv /\ ProjectInv
PlanInv == IsItem(item) /\ (PerBucket => PassInv)

LEMMA ItemTypes ==
    ASSUME IsItem(item)
    PROVE  /\ item.onHand \in Nat /\ item.safety \in Nat /\ item.lead \in Nat
           /\ item.gross \in [Bucket -> Nat] /\ item.sched \in [Bucket -> Nat]
           /\ item.firm \in [Bucket -> Nat] /\ item.working \in [Bucket -> BOOLEAN]
           /\ IsLot(item.lot)
  BY DEF IsItem

LEMMA InitItem == Init => IsItem(item) /\ Fresh
  BY ItemAssumption DEF Init

\* Before the first step nothing is planned, whatever the item.
LEMMA InitPlanInv == IsItem(item) /\ Fresh => PlanInv
  <1> SUFFICES ASSUME IsItem(item), Fresh PROVE PlanInv
    OBVIOUS
  <1>1. PassTypes
    BY ItemTypes DEF Fresh, PassTypes, Zeros, Bucket
  <1>2. NetInv
    <2> DEFINE f == [b \in 0..Horizon |-> item.onHand]
    <2>1. Path(f, 0) /\ Enough(f, 0) /\ f[0] = balance /\ FirmUpTo(0)
      BY ItemTypes DEF Fresh, Path, Enough, FirmUpTo, Bucket
    <2> HIDE DEF f
    <2> QED
      BY <2>1 DEF Fresh, NetInv, Zeros
  <1>3. ProjectInv
    BY DEF Fresh, ProjectInv
  <1> QED
    BY <1>1, <1>2, <1>3 DEF PlanInv, PassInv

\* A path can be laid one bucket further.
LEMMA Extended ==
    ASSUME NEW k \in Bucket, NEW f \in [0..Horizon -> Int], NEW v \in Int
    PROVE  \E g \in [0..Horizon -> Int] : g[k + 1] = v /\ \A b \in 0..k : g[b] = f[b]
  <1> DEFINE g == [b \in 0..Horizon |-> IF b = k + 1 THEN v ELSE f[b]]
  <1>1. g \in [0..Horizon -> Int]
    OBVIOUS
  <1>2. g[k + 1] = v /\ \A b \in 0..k : g[b] = f[b]
    BY DEF Bucket
  <1> QED
    BY <1>1, <1>2

\* What one bucket of the netting pass adds to the path.
LEMMA NetBucket ==
    ASSUME PassInv, PerBucket, NetFirm \/ NetShort \/ NetEnough
    PROVE  PassInv'
  <1> USE DEF PassInv, PassTypes
  <1>1. /\ phase = "net" /\ phase' = "net" /\ t \in Bucket /\ t' = t + 1
        /\ item' = item /\ projected' = projected
    BY DEF NetFirm, NetShort, NetEnough, Netting, Bucket
  <1>2. receipts[t] = 0
    BY <1>1 DEF NetInv
  <1>3. /\ receipts' \in [Bucket -> Nat] /\ balance' \in Int
        /\ \A b \in Bucket : b # t => receipts'[b] = receipts[b]
        /\ balance' = balance + item.sched[t] + receipts'[t] - item.gross[t]
        /\ Firm(t) => receipts'[t] = item.firm[t]
        /\ ~Firm(t) => /\ balance' >= item.safety
                       /\ receipts'[t] # 0 => balance' < item.safety + Granularity
    <2> USE ItemTypes DEF PerBucket
    <2>1. CASE NetFirm
      BY <1>1, <2>1 DEF NetFirm, Netting, Opened, Firm
    <2>2. CASE NetShort
      <3> DEFINE lot == LotSize(Shortfall, item.lot)
      <3>1. Shortfall \in Nat \ {0} /\ item.firm[t] = 0 /\ ~Firm(t)
        BY <1>1, <2>2 DEF NetShort, Shortfall, Opened, Firm
      <3>2. /\ lot \in Nat /\ lot >= Shortfall /\ Granularity \in Nat
            /\ lot < Shortfall + Granularity
        BY <3>1, LotCovers
      <3>3. receipts' = [receipts EXCEPT ![t] = lot] /\ balance' = Opened + lot
        BY <2>2 DEF NetShort, Netting
      <3> HIDE DEF lot
      <3> QED
        BY <1>1, <3>1, <3>2, <3>3 DEF Shortfall, Opened
    <2>3. CASE NetEnough
      BY <1>1, <1>2, <2>3 DEF NetEnough, Netting, Opened, Shortfall, Firm
    <2> QED
      BY <2>1, <2>2, <2>3
  <1>4. PICK f : Path(f, t) /\ Enough(f, t) /\ f[t] = balance
    BY <1>1 DEF NetInv
  <1>t. t \in 0..(Horizon - 1) /\ t \in 0..t /\ 0 \in 0..t
    BY <1>1 DEF Bucket
  <1>f. f \in [0..Horizon -> Int] /\ balance' \in Int
    BY <1>3, <1>4 DEF Path
  <1>5. PICK g \in [0..Horizon -> Int] :
            g[t + 1] = balance' /\ \A b \in 0..t : g[b] = f[b]
    <2> HIDE DEF PassInv, PassTypes
    <2> QED
      BY <1>1, <1>f, Extended, ZenonT(60)
  <1>6. Path(g, t)'
    <2>1. ASSUME NEW b \in Bucket, b < t + 1
          PROVE  g[b + 1] = g[b] + item.sched[b] + receipts'[b] - item.gross[b]
      <3>1. CASE b = t
        BY <1>3, <1>4, <1>5, <1>t, <3>1
      <3>2. CASE b # t
        <4>1. b \in 0..t /\ b + 1 \in 0..t /\ b < t
          BY <1>t, <2>1, <3>2 DEF Bucket
        <4>2. f[b + 1] = f[b] + item.sched[b] + receipts[b] - item.gross[b]
          BY <1>4, <4>1 DEF Path
        <4> QED
          BY <1>3, <1>5, <3>2, <4>1, <4>2
      <3> QED
        BY <3>1, <3>2
    <2>2. g[0] = item.onHand
      BY <1>4, <1>5, <1>t DEF Path
    <2> QED
      BY <1>1, <1>5, <2>1, <2>2 DEF Path
  <1>7. Enough(g, t)'
    <2>1. ASSUME NEW b \in Bucket, b < t + 1, ~Firm(b)
          PROVE  /\ g[b + 1] >= item.safety
                 /\ receipts'[b] # 0 => g[b + 1] < item.safety + Granularity
      <3>1. CASE b = t
        BY <1>3, <1>5, <2>1, <3>1
      <3>2. CASE b # t
        <4>1. b + 1 \in 0..t /\ b < t
          BY <1>t, <2>1, <3>2 DEF Bucket
        <4> QED
          BY <1>3, <1>4, <1>5, <2>1, <3>2, <4>1 DEF Enough
      <3> QED
        BY <3>1, <3>2
    <2>2. Granularity' = Granularity /\ \A b : Firm(b)' = Firm(b)
      BY <1>1 DEF Granularity, Firm
    <2> QED
      BY <1>1, <2>1, <2>2 DEF Enough
  <1>8. NetInv'
    <2>1. \A b \in Bucket : b < t + 1 /\ Firm(b) => receipts'[b] = item.firm[b]
      <3>1. \A b \in Bucket : b < t + 1 => b = t \/ b < t
        BY <1>t DEF Bucket
      <3> QED
        BY <1>1, <1>3, <3>1 DEF NetInv, FirmUpTo
    <2>2. FirmUpTo(t)'
      BY <1>1, <2>1 DEF FirmUpTo, Firm
    <2>3. \A b \in Bucket : b >= t + 1 => receipts'[b] = 0
      <3>1. \A b \in Bucket : b >= t + 1 => b # t /\ b >= t
        BY <1>t DEF Bucket
      <3> QED
        BY <1>1, <1>3, <3>1 DEF NetInv
    <2>4. (g[t] = balance)'
      BY <1>1, <1>5
    <2> QED
      BY <1>1, <1>6, <1>7, <2>2, <2>3, <2>4 DEF NetInv
  <1>9. ProjectInv'
    BY <1>1 DEF ProjectInv
  <1>10. PassTypes'
    <2>1. /\ IsItem(item') /\ phase' = "net" /\ t' \in 0..Horizon
          /\ projected' \in [Bucket -> Int]
      BY <1>1, <1>t
    <2> HIDE DEF PassInv
    <2> QED
      BY <2>1, <1>3
  <1> QED
    BY <1>8, <1>9, <1>10

LEMMA EndNettingStep ==
    ASSUME PassInv, PerBucket, EndNetting
    PROVE  PassInv'
  <1> USE DEF PassInv, PassTypes
  <1>1. /\ phase = "net" /\ phase' = "project" /\ t = Horizon /\ t' = 0
        /\ item' = item /\ projected' = projected /\ receipts' = receipts
        /\ balance' = item.onHand
    BY DEF EndNetting, StartPass, PerBucket
  <1>2. PassTypes'
    BY <1>1, ItemTypes DEF PerBucket, WholeHorizon
  <1>3. PICK f : Path(f, Horizon) /\ Enough(f, Horizon)
    BY <1>1 DEF NetInv
  <1>4. FirmUpTo(Horizon)' /\ Path(f, Horizon)' /\ Enough(f, Horizon)'
    BY <1>1, <1>3 DEF NetInv, FirmUpTo, Path, Enough, Firm, Granularity
  <1>5. f[0] = item.onHand
    BY <1>3 DEF Path
  <1>6. ProjectInv'
    BY <1>1, <1>4, <1>5 DEF ProjectInv, Bucket
  <1> QED
    BY <1>1, <1>2, <1>6 DEF NetInv

LEMMA ProjectStep ==
    ASSUME PassInv, PerBucket, Project
    PROVE  PassInv'
  <1> USE DEF PassInv, PassTypes
  <1>1. /\ phase = "project" /\ phase' = "project" /\ t \in Bucket /\ t' = t + 1
        /\ item' = item /\ receipts' = receipts
        /\ balance' = balance + item.sched[t] + receipts[t] - item.gross[t]
    BY DEF Project, Bucket
  <1>2. /\ balance' \in Int /\ projected' \in [Bucket -> Int]
        /\ \A b \in Bucket : projected'[b] = IF b = t THEN balance' ELSE projected[b]
    BY <1>1, ItemTypes DEF Project
  <1>3. PassTypes'
    BY <1>1, <1>2, SMTT(30) DEF PerBucket, WholeHorizon, Bucket
  <1>4. PICK f : /\ Path(f, Horizon) /\ Enough(f, Horizon) /\ f[t] = balance
                 /\ \A b \in Bucket : b < t => projected[b] = f[b + 1]
    BY <1>1 DEF ProjectInv
  <1>5. FirmUpTo(Horizon)' /\ Path(f, Horizon)' /\ Enough(f, Horizon)'
    BY <1>1, <1>4 DEF ProjectInv, FirmUpTo, Path, Enough, Firm, Granularity
  <1>6. f[t + 1] = balance'
    <2> HIDE DEF PassInv, PassTypes
    <2>1. t \in Bucket /\ t < Horizon
      BY <1>1 DEF Bucket
    <2>2. f[t + 1] = f[t] + item.sched[t] + receipts[t] - item.gross[t]
      BY <1>4, <2>1, Zenon DEF Path
    <2> QED
      BY <1>1, <1>4, <2>2, Zenon
  <1>7. \A b \in Bucket : b < t + 1 => projected'[b] = f[b + 1]
    <2>1. \A b \in Bucket : b < t + 1 => b = t \/ b < t
      BY DEF Bucket
    <2> QED
      BY <1>2, <1>4, <1>6, <2>1
  <1>8. ProjectInv'
    BY <1>1, <1>5, <1>6, <1>7 DEF ProjectInv
  <1> QED
    BY <1>1, <1>3, <1>8 DEF NetInv

\* From the end of the projection on, nothing the plan consists of changes.
LEMMA SettledStep ==
    ASSUME PassInv, PerBucket,
           EndProject \/ OffsetNothing \/ OffsetInTime \/ OffsetPastDue \/ EndOffset
    PROVE  PassInv'
  <1> USE DEF PassInv, PassTypes
  <1>1. /\ phase \in {"project", "offset"} /\ phase' \in {"offset", "done"}
        /\ phase = "project" => t = Horizon
        /\ t' \in 0..Horizon /\ item' = item /\ receipts' = receipts
        /\ projected' = projected /\ balance' = balance
    BY DEF EndProject, OffsetNothing, OffsetInTime, OffsetPastDue, EndOffset,
           StartPass, Offsetting
  <1>2. PassTypes'
    BY <1>1 DEF PerBucket, WholeHorizon
  <1>3. PICK f : /\ Path(f, Horizon) /\ Enough(f, Horizon)
                 /\ \A b \in Bucket : (phase = "project" => b < t) => projected[b] = f[b + 1]
    BY <1>1 DEF ProjectInv
  <1>4. FirmUpTo(Horizon)' /\ Path(f, Horizon)' /\ Enough(f, Horizon)'
    BY <1>1, <1>3 DEF ProjectInv, FirmUpTo, Path, Enough, Firm, Granularity
  <1>5. \A b \in Bucket : projected'[b] = f[b + 1]
    BY <1>1, <1>3 DEF Bucket
  <1>6. ProjectInv'
    BY <1>1, <1>4, <1>5 DEF ProjectInv
  <1> QED
    BY <1>1, <1>2, <1>6 DEF NetInv

LEMMA StepPlanInv == PlanInv /\ [Next]_vars => PlanInv'
  <1> SUFFICES ASSUME PlanInv, [Next]_vars PROVE PlanInv'
    OBVIOUS
  <1>1. item' = item
    BY DEF Next, vars, NetFirm, NetShort, NetEnough, Netting, EndNetting, StartPass,
           ChooseLots, Project, EndProject, OffsetNothing, OffsetInTime, OffsetPastDue,
           Offsetting, EndOffset
  <1>2. ASSUME PerBucket' PROVE PassInv'
    <2>1. PassInv /\ PerBucket
      BY <1>1, <1>2 DEF PlanInv, PerBucket, WholeHorizon
    <2>2. ~ChooseLots
      BY <2>1 DEF ChooseLots, PassInv, PassTypes
    <2>3. CASE UNCHANGED vars
      BY <2>1, <2>3 DEF vars, PassInv, PassTypes, NetInv, ProjectInv, PerBucket,
                        WholeHorizon, Path, Enough, FirmUpTo, Firm, Granularity
    <2> QED
      BY <2>1, <2>2, <2>3, NetBucket, EndNettingStep, ProjectStep, SettledStep DEF Next
  <1> QED
    BY <1>1, <1>2 DEF PlanInv

LEMMA PlanInvariant == Spec => []PlanInv
  BY InitItem, InitPlanInv, StepPlanInv, PTL DEF Spec

------------------------------------------------------------------------------
\* Nothing is lot-sized on top of what a planner fixed, under the three
\* rules that size lots bucket by bucket.
THEOREM FixedStaysFixed == Spec => [](PerBucket => FixedMeansFixed)
  <1>1. PlanInv => (PerBucket => FixedMeansFixed)
    BY DEF PlanInv, PassInv, ProjectInv, Planned, FixedMeansFixed, FirmUpTo, Bucket
  <1> QED
    BY <1>1, PlanInvariant, PTL

------------------------------------------------------------------------------
(***************************************************************************)
(* The offset, under every lot rule: what it does with a receipt does not  *)
(* depend on how the lot came about.                                       *)
(***************************************************************************)
\* A set of buckets has a last one.
LEMMA LastOne ==
    ASSUME NEW S \in SUBSET Bucket, S # {}
    PROVE  \E x \in S : \A y \in S : y <= x
  <1>1. \A x \in S : x \in Int /\ Horizon - x \in Nat
    BY HorizonAssumption DEF Bucket
  <1> PICK T : T = {n \in Nat : \E x \in S : n = Horizon - x}
    OBVIOUS
  <1>2. T \in SUBSET Nat /\ \A x \in S : Horizon - x \in T
    BY <1>1
  <1>3. PICK m \in T : \A y \in T : m <= y
    BY <1>2, LeastNat
  <1>4. PICK x \in S : m = Horizon - x
    BY <1>3
  <1>5. \A y \in S : Horizon - x <= Horizon - y
    BY <1>2, <1>3, <1>4
  <1> QED
    BY <1>1, <1>5, HorizonAssumption

\* _previous_working finds an open bucket at or before b if there is one.
LEMMA PreviousWorking ==
    ASSUME IsItem(item), NEW b \in Int
    PROVE  /\ ReleaseAt(b) \in Int
           /\ ReleaseAt(b) <= b
           /\ ReleaseAt(b) >= 0 =>
                /\ \E x \in Bucket : x <= b /\ item.working[x]
                /\ b < Horizon => ReleaseAt(b) \in Bucket /\ item.working[ReleaseAt(b)]
           /\ ReleaseAt(b) < 0 => ~\E x \in Bucket : x <= b /\ item.working[x]
  <1> PICK open : open = {x \in Bucket : x <= b /\ item.working[x]}
    OBVIOUS
  <1>1. open \in SUBSET Bucket
    OBVIOUS
  <1>2. ReleaseAt(b) = IF b < 0 THEN b
                       ELSE IF open = {} THEN -1
                       ELSE CHOOSE x \in open : \A y \in open : y <= x
    BY DEF ReleaseAt
  <1>3. CASE b < 0
    BY <1>2, <1>3 DEF Bucket
  <1>4. CASE b >= 0 /\ open = {}
    BY <1>2, <1>4
  <1>5. CASE b >= 0 /\ open # {}
    <2>1. \E x \in open : \A y \in open : y <= x
      BY <1>1, <1>5, LastOne
    <2>2. ReleaseAt(b) \in open
      BY <1>2, <1>5, <2>1
    <2> QED
      BY <2>2 DEF Bucket
  <1> QED
    BY <1>3, <1>4, <1>5

\* Bucket b is reported overdue in reports, as it should be.
Reported(b) ==
    (\E e \in pastDue : e.bucket = b) <=>
        /\ receipts[b] # 0
        /\ ~\E x \in Bucket : x <= b - item.lead /\ item.working[x]

OffsetInv ==
    /\ IsItem(item)
    /\ t \in 0..Horizon
    /\ phase \in {"net", "lots", "project"} => releases = Zeros /\ pastDue = {}
    /\ phase \in {"offset", "done"} =>
         /\ releases \in [Bucket -> {releases[b] : b \in Bucket}]
         /\ \A b \in Bucket :
              releases[b] # 0 => item.working[b] \/ (b = 0 /\ pastDue # {})
         /\ \A b \in Bucket : phase = "done" \/ b < t => Reported(b)
         /\ phase = "offset" => \A e \in pastDue : e.bucket \in Bucket /\ e.bucket < t

LEMMA InitOffsetInv == IsItem(item) /\ Fresh => OffsetInv
  BY HorizonAssumption DEF Fresh, OffsetInv

LEMMA OffsetBucket ==
    ASSUME OffsetInv, OffsetNothing \/ OffsetInTime \/ OffsetPastDue
    PROVE  OffsetInv'
  <1>1. /\ phase = "offset" /\ phase' = "offset" /\ t \in Bucket /\ t' = t + 1
        /\ item' = item /\ receipts' = receipts /\ IsItem(item)
        /\ t - item.lead \in Int /\ t - item.lead < Horizon /\ 0 \in Bucket
    <2>1. /\ phase = "offset" /\ phase' = "offset" /\ t < Horizon /\ t' = t + 1
          /\ item' = item /\ receipts' = receipts /\ IsItem(item) /\ t \in 0..Horizon
      BY DEF OffsetInv, OffsetNothing, OffsetInTime, OffsetPastDue, Offsetting
    <2>2. item.lead \in Nat
      BY <2>1, ItemTypes
    <2>3. t \in Bucket /\ 0 \in Bucket
      BY <2>1, HorizonAssumption DEF Bucket
    <2> QED
      BY <2>1, <2>2, <2>3, HorizonAssumption
  <1>2. \A b \in Bucket : b < t + 1 => b = t \/ b < t
    BY <1>1 DEF Bucket
  <1>3. /\ \A b \in Bucket : releases[b] # 0 => item.working[b] \/ (b = 0 /\ pastDue # {})
        /\ \A b \in Bucket : b < t => Reported(b)
        /\ \A e \in pastDue : e.bucket \in Bucket /\ e.bucket < t
    BY <1>1 DEF OffsetInv
  <1>4. \A e \in pastDue : e.bucket # t
    BY <1>1, <1>3 DEF Bucket
  <1> PICK day \in Int : day = ReleaseAt(t - item.lead)
    BY <1>1, PreviousWorking
  <1>5. /\ day >= 0 => /\ \E x \in Bucket : x <= t - item.lead /\ item.working[x]
                      /\ day \in Bucket /\ item.working[day]
        /\ day < 0 => ~\E x \in Bucket : x <= t - item.lead /\ item.working[x]
    BY <1>1, PreviousWorking
  <1>6. ASSUME releases' \in [Bucket -> {releases'[b] : b \in Bucket}],
               \A b \in Bucket : releases'[b] # 0 => item.working[b] \/ (b = 0 /\ pastDue' # {}),
               pastDue \subseteq pastDue',
               \A e \in pastDue' : e \in pastDue \/ e.bucket = t,
               (\E e \in pastDue' : e.bucket = t) <=>
                   /\ receipts[t] # 0
                   /\ ~\E x \in Bucket : x <= t - item.lead /\ item.working[x]
        PROVE  OffsetInv'
    <2>1. ASSUME NEW b \in Bucket, b < t + 1 PROVE Reported(b)'
      <3>1. CASE b = t
        BY <1>1, <1>6, <3>1 DEF Reported
      <3>2. CASE b # t
        <4>1. Reported(b)
          BY <1>2, <1>3, <2>1, <3>2
        <4>2. (\E e \in pastDue' : e.bucket = b) <=> (\E e \in pastDue : e.bucket = b)
          BY <1>6, <3>2
        <4> QED
          BY <1>1, <4>1, <4>2 DEF Reported
      <3> QED
        BY <3>1, <3>2
    <2>2. ASSUME NEW e \in pastDue' PROVE e.bucket \in Bucket /\ e.bucket < t + 1
      <3>1. CASE e \in pastDue
        <4>1. e.bucket \in Bucket /\ e.bucket < t
          BY <1>3, <3>1
        <4> QED
          BY <1>1, <4>1 DEF Bucket
      <3>2. CASE e.bucket = t
        BY <1>1, <3>2 DEF Bucket
      <3> QED
        BY <1>6, <3>1, <3>2
    <2>3. t + 1 \in 0..Horizon
      BY <1>1 DEF Bucket
    <2> QED
      BY <1>1, <1>6, <2>1, <2>2, <2>3 DEF OffsetInv
  <1>r. releases \in [Bucket -> {releases[b] : b \in Bucket}]
    BY <1>1 DEF OffsetInv
  <1>7. CASE OffsetNothing
    <2>1. receipts[t] = 0 /\ UNCHANGED <<releases, pastDue>>
      BY <1>7 DEF OffsetNothing
    <2> QED
      BY <1>3, <1>4, <1>6, <1>r, <2>1
  <1>8. CASE OffsetInTime
    <2>1. /\ receipts[t] # 0 /\ day >= 0 /\ pastDue' = pastDue
          /\ releases' = [releases EXCEPT ![day] = releases[day] + receipts[t]]
      BY <1>8 DEF OffsetInTime
    <2>2. day \in Bucket /\ item.working[day]
      BY <1>5, <2>1
    <2>3. \A b \in Bucket : b # day => releases'[b] = releases[b]
      BY <1>r, <2>1
    <2>4. \A b \in Bucket : releases'[b] # 0 => item.working[b] \/ (b = 0 /\ pastDue' # {})
      BY <1>3, <2>1, <2>2, <2>3
    <2>5. releases' \in [Bucket -> {releases'[b] : b \in Bucket}]
      BY <1>r, <2>1
    <2> QED
      BY <1>4, <1>5, <1>6, <2>1, <2>4, <2>5
  <1>9. CASE OffsetPastDue
    <2>1. /\ receipts[t] # 0 /\ day < 0
          /\ pastDue' = pastDue \cup {[bucket |-> t, qty |-> receipts[t], late |-> -day]}
          /\ releases' = [releases EXCEPT ![0] = releases[0] + receipts[t]]
      BY <1>9 DEF OffsetPastDue
    <2>r. PICK r : r = [bucket |-> t, qty |-> receipts[t], late |-> -day]
      OBVIOUS
    <2>b. r.bucket = t /\ pastDue' = pastDue \cup {r}
      BY <2>1, <2>r
    <2>2. /\ pastDue' # {} /\ pastDue \subseteq pastDue'
          /\ \A e \in pastDue' : e \in pastDue \/ e.bucket = t
          /\ \E e \in pastDue' : e.bucket = t
      BY <2>b
    <2>3. \A b \in Bucket : b # 0 => releases'[b] = releases[b]
      BY <1>1, <1>r, <2>1
    <2>4. \A b \in Bucket : releases'[b] # 0 => item.working[b] \/ (b = 0 /\ pastDue' # {})
      BY <1>3, <2>2, <2>3
    <2>5. releases' \in [Bucket -> {releases'[b] : b \in Bucket}]
      BY <1>r, <2>1
    <2> QED
      BY <1>5, <1>6, <2>1, <2>2, <2>4, <2>5
  <1> QED
    BY <1>7, <1>8, <1>9

LEMMA StepOffsetInv == OffsetInv /\ [Next]_vars => OffsetInv'
  <1> SUFFICES ASSUME OffsetInv, [Next]_vars PROVE OffsetInv'
    OBVIOUS
  <1>1. CASE OffsetNothing \/ OffsetInTime \/ OffsetPastDue
    BY <1>1, OffsetBucket
  <1>2. CASE NetFirm \/ NetShort \/ NetEnough \/ EndNetting \/ ChooseLots \/ Project
    <2>1. /\ phase \in {"net", "lots", "project"} /\ phase' \in {"net", "lots", "project"}
          /\ UNCHANGED <<item, releases, pastDue>> /\ t' \in 0..Horizon
      BY <1>2 DEF NetFirm, NetShort, NetEnough, Netting, EndNetting, StartPass, ChooseLots,
                  Project, OffsetInv
    <2> QED
      BY <2>1 DEF OffsetInv
  <1>3. CASE EndProject
    <2>1. /\ releases = Zeros /\ pastDue = {} /\ t' = 0 /\ phase' = "offset"
          /\ UNCHANGED <<item, releases, pastDue>>
      BY <1>3 DEF EndProject, StartPass, OffsetInv
    <2>2. \A b \in Bucket : ~(b < 0)
      BY DEF Bucket
    <2> QED
      BY <2>1, <2>2 DEF OffsetInv, Zeros
  <1>4. CASE EndOffset
    <2>1. /\ phase = "offset" /\ phase' = "done" /\ t = Horizon /\ t' = 0
          /\ UNCHANGED <<item, receipts, releases, pastDue>>
      BY <1>4 DEF EndOffset, StartPass
    <2>2. \A b \in Bucket : b < Horizon
      BY DEF Bucket
    <2>3. \A b \in Bucket : Reported(b)
      BY <2>1, <2>2 DEF OffsetInv
    <2>4. \A b \in Bucket : Reported(b)'
      BY <2>1, <2>3 DEF Reported
    <2> QED
      BY <2>1, <2>4 DEF OffsetInv
  <1>5. CASE UNCHANGED vars
    BY <1>5 DEF vars, OffsetInv, Reported
  <1> QED
    BY <1>1, <1>2, <1>3, <1>4, <1>5 DEF Next

\* The release list and the report of overdue orders, which _offset builds apart, agree,
\* whatever the calendar, the lead time and the lot rule, Wagner-Whitin included.
THEOREM OverdueIsAlwaysReported == Spec => []OverdueIsReported
  <1>1. OffsetInv => OverdueIsReported
    BY DEF OffsetInv, OverdueIsReported, Planned, Reported
  <1> QED
    BY <1>1, InitItem, InitOffsetInv, StepOffsetInv, PTL DEF Spec

------------------------------------------------------------------------------
(***************************************************************************)
(* Types.                                                                  *)
(***************************************************************************)
\* What Wagner-Whitin answers are quantities, whatever it orders and when.
LEMMA LotsAreQuantities ==
    ASSUME NEW n \in Nat, NEW d \in [0..(n - 1) -> Nat], NEW setup, NEW holding
    PROVE  WagnerWhitinLots(d, n, setup, holding) \in [0..(n - 1) -> Nat]
  <1>1. ASSUME NEW K \in SUBSET (0..(n - 1))
        PROVE  SumFunction([k \in K |-> d[k]]) \in Nat
    <2> PICK f : f = [k \in K |-> d[k]]
      OBVIOUS
    <2>1. IsFiniteSet(K)
      <3>1. IsFiniteSet(0..(n - 1))
        BY FS_Interval
      <3> QED
        BY <3>1, FS_Subset
    <2>2. IntOn(f, K) /\ NatOn(f, K)
      BY DEF IntOn, NatOn
    <2>3. SumFunctionOnSet(f, K) \in Nat
      BY <2>1, <2>2, SumInt
    <2> QED
      BY <2>3 DEF SumFunction, FoldFunction, SumFunctionOnSet
  <1>2. ASSUME NEW points
        PROVE  LotsAt(points, d, n) \in [0..(n - 1) -> Nat]
    <2>1. ASSUME NEW j \in 0..(n - 1)
          PROVE  SumFunction([k \in {i \in j..(n-1) : \A p \in points : p > j => i < p} |-> d[k]])
                   \in Nat
      <3>1. {i \in j..(n-1) : \A p \in points : p > j => i < p} \in SUBSET (0..(n - 1))
        OBVIOUS
      <3> QED
        BY <1>1, <3>1
    <2> QED
      BY <2>1 DEF LotsAt
  <1> QED
    BY <1>2 DEF WagnerWhitinLots

\* What a plan in the making consists of, under every lot rule.
TypeInv == IsItem(item) /\ TypeOK

LEMMA NetTypes ==
    ASSUME TypeInv, NetFirm \/ NetShort \/ NetEnough
    PROVE  TypeInv'
  <1>1. /\ t \in Bucket /\ t' = t + 1 /\ phase = "net"
        /\ UNCHANGED <<item, phase, projected, releases, pastDue>>
    BY DEF NetFirm, NetShort, NetEnough, Netting, TypeInv, TypeOK, Bucket
  <1>2. /\ item.sched[t] \in Nat /\ item.firm[t] \in Nat /\ item.gross[t] \in Nat
        /\ item.safety \in Nat /\ IsLot(item.lot)
    BY <1>1, ItemTypes DEF TypeInv
  <1>3. PICK s \in Int : s = Shortfall
    BY <1>2 DEF Shortfall, Opened, TypeInv, TypeOK
  <1>4. Opened \in Int
    BY <1>2 DEF Opened, TypeInv, TypeOK
  <1>5. ~WholeHorizon /\ s > 0 => LotSize(Shortfall, item.lot) \in Nat
    BY <1>2, <1>3, LotCovers DEF PerBucket
  <1>6. \/ net' = net
        \/ \E q \in Nat : net' = [net EXCEPT ![t] = q]
    BY <1>3 DEF NetFirm, NetShort, NetEnough
  <1>7. \/ receipts' = receipts
        \/ \E q \in Nat : receipts' = [receipts EXCEPT ![t] = q]
    BY <1>2, <1>3, <1>5 DEF NetFirm, NetShort, NetEnough
  <1>8. balance' \in Int
    <2>1. CASE NetFirm \/ NetEnough
      BY <1>4, <2>1 DEF NetFirm, NetEnough, Netting
    <2>2. CASE NetShort
      BY <1>2, <1>3, <1>4, <1>5, <2>2 DEF NetShort, Netting
    <2> QED
      BY <2>1, <2>2
  <1>9. net' \in [Bucket -> Nat]
    BY <1>1, <1>6 DEF TypeInv, TypeOK
  <1>10. receipts' \in [Bucket -> Nat]
    BY <1>1, <1>7 DEF TypeInv, TypeOK
  <1>11. t' \in 0..Horizon
    BY <1>1 DEF Bucket
  <1> QED
    BY <1>1, <1>8, <1>9, <1>10, <1>11 DEF TypeInv, TypeOK

LEMMA LotTypes ==
    ASSUME TypeInv, ChooseLots
    PROVE  TypeInv'
  <1>1. item.firm \in [Bucket -> Nat]
    BY ItemTypes DEF TypeInv
  <1>2. Masked \in [0..(Horizon - 1) -> Nat]
    BY DEF Masked, TypeInv, TypeOK, Bucket
  <1>3. Lots \in [Bucket -> Nat]
    BY <1>2, LotsAreQuantities DEF Lots, Bucket
  <1>4. receipts' \in [Bucket -> Nat]
    BY <1>1, <1>3 DEF ChooseLots
  <1> QED
    BY <1>4 DEF TypeInv, TypeOK, ChooseLots

LEMMA OffsetTypes ==
    ASSUME TypeInv, OffsetNothing \/ OffsetInTime \/ OffsetPastDue
    PROVE  TypeInv'
  <1>1. /\ t \in Bucket /\ 0 \in Bucket /\ t \in Int /\ t < Horizon /\ t' = t + 1
        /\ receipts[t] \in Nat /\ IsItem(item) /\ releases \in [Bucket -> Nat]
        /\ UNCHANGED <<item, phase, balance, net, receipts, projected>>
    <2>1. /\ t < Horizon /\ t' = t + 1
          /\ UNCHANGED <<item, phase, balance, net, receipts, projected>>
      BY DEF OffsetNothing, OffsetInTime, OffsetPastDue, Offsetting
    <2>2. /\ t \in 0..Horizon /\ IsItem(item)
          /\ receipts \in [Bucket -> Nat] /\ releases \in [Bucket -> Nat]
      BY DEF TypeInv, TypeOK
    <2> QED
      BY <2>1, <2>2 DEF Bucket
  <1>2. t - item.lead \in Int /\ t - item.lead < Horizon
    <2>1. item.lead \in Nat
      BY <1>1, ItemTypes, Zenon
    <2> QED
      BY <1>1, <2>1
  <1> PICK day \in Int : day = ReleaseAt(t - item.lead)
    BY <1>1, <1>2, PreviousWorking
  <1>3. day >= 0 => day \in Bucket
    BY <1>1, <1>2, PreviousWorking
  <1>4. \/ releases' = releases
        \/ \E b \in Bucket : releases' = [releases EXCEPT ![b] = releases[b] + receipts[t]]
    BY <1>1, <1>3 DEF OffsetNothing, OffsetInTime, OffsetPastDue
  <1>5. releases' \in [Bucket -> Nat]
    BY <1>1, <1>4
  <1> PICK r : r = [bucket |-> t, qty |-> receipts[t], late |-> -day]
    OBVIOUS
  <1>6. pastDue' = pastDue \/ (day < 0 /\ receipts[t] # 0 /\ pastDue' = pastDue \cup {r})
    BY DEF OffsetNothing, OffsetInTime, OffsetPastDue
  <1>7. day < 0 /\ receipts[t] # 0 =>
          r.bucket \in Bucket /\ r.qty \in Nat \ {0} /\ r.late \in Nat \ {0}
    BY <1>1
  <1>8. \A e \in pastDue' : e.bucket \in Bucket /\ e.qty \in Nat \ {0} /\ e.late \in Nat \ {0}
    BY <1>6, <1>7 DEF TypeInv, TypeOK
  <1>9. t' \in 0..Horizon
    BY <1>1 DEF Bucket
  <1> QED
    BY <1>1, <1>5, <1>8, <1>9 DEF TypeInv, TypeOK

LEMMA InitTypeInv == IsItem(item) /\ Fresh => TypeInv
  BY ItemTypes DEF Fresh, Zeros, TypeInv, TypeOK, Bucket

LEMMA StepTypeInv == TypeInv /\ [Next]_vars => TypeInv'
  <1> SUFFICES ASSUME TypeInv, [Next]_vars PROVE TypeInv'
    OBVIOUS
  <1>1. CASE EndNetting \/ EndProject \/ EndOffset
    <2>1. /\ t' \in 0..Horizon /\ phase' \in {"lots", "project", "offset", "done"}
          /\ UNCHANGED <<item, net, receipts, projected, releases, pastDue>>
      BY <1>1 DEF EndNetting, EndProject, EndOffset, StartPass
    <2>2. balance' \in Int
      BY <1>1, ItemTypes DEF EndNetting, EndProject, EndOffset, TypeInv, TypeOK
    <2> QED
      BY <2>1, <2>2 DEF TypeInv, TypeOK
  <1>2. CASE Project
    <2>1. /\ t \in Bucket /\ t' \in 0..Horizon
          /\ UNCHANGED <<item, phase, net, receipts, releases, pastDue>>
      BY <1>2 DEF Project, TypeInv, TypeOK, Bucket
    <2>2. balance' \in Int
      BY <1>2, <2>1, ItemTypes DEF Project, TypeInv, TypeOK
    <2>3. projected' \in [Bucket -> Int]
      BY <1>2, <2>1, <2>2 DEF Project, TypeInv, TypeOK
    <2> QED
      BY <2>1, <2>2, <2>3 DEF TypeInv, TypeOK
  <1>3. CASE UNCHANGED vars
    BY <1>3 DEF vars, TypeInv, TypeOK
  <1> QED
    BY <1>1, <1>2, <1>3, NetTypes, LotTypes, OffsetTypes DEF Next

\* Plans are made of quantities, and overdue orders are overdue, under every lot rule.
THEOREM PlanTypeCorrect == Spec => []TypeOK
  <1>1. TypeInv => TypeOK
    BY DEF TypeInv
  <1> QED
    BY <1>1, InitItem, InitTypeInv, StepTypeInv, PTL DEF Spec

------------------------------------------------------------------------------
(***************************************************************************)
(* What is received is released.                                           *)
(***************************************************************************)
Latest(b) == IF b < item.lead THEN 0 ELSE b - item.lead

\* The receipts of the buckets before u are released, and each in time.
ReleasedUpTo(u) ==
    /\ SumFunctionOnSet(releases, Bucket) = SumFunctionOnSet(receipts, {c \in Bucket : c < u})
    /\ \A b \in Bucket :
         SumFunctionOnSet(releases, 0..Latest(b))
            >= SumFunctionOnSet(receipts, {c \in Bucket : c < u /\ c <= b})

ReleaseInv ==
    /\ phase = "offset" => ReleasedUpTo(t)
    /\ phase = "done" => ReleasedUpTo(Horizon)

\* g is f with q more at bucket x.
Bumped(f, g, x, q) ==
    /\ f \in [Bucket -> Nat] /\ x \in Bucket /\ q \in Nat
    /\ g \in [Bucket -> Nat]
    /\ g[x] = f[x] + q
    /\ \A b \in Bucket : b # x => g[b] = f[b]

LEMMA BucketsAreFinite ==
    ASSUME NEW S \in SUBSET Bucket
    PROVE  IsFiniteSet(S)
  <1>1. IsFiniteSet(Bucket)
    BY FS_Interval DEF Bucket
  <1> QED
    BY <1>1, FS_Subset

\* A sum over the buckets S, as the model writes it.
LEMMA SumOver ==
    ASSUME NEW d \in [Bucket -> Nat], NEW S \in SUBSET Bucket
    PROVE  /\ SumFunction([k \in S |-> d[k]]) = SumFunctionOnSet(d, S)
           /\ SumFunctionOnSet(d, S) \in Nat
  <1> PICK g : g = [k \in S |-> d[k]]
    OBVIOUS
  <1>1. IsFiniteSet(S)
    BY BucketsAreFinite
  <1>2. Agree(d, g, S) /\ IntOn(d, S) /\ NatOn(d, S)
    BY DEF Agree, IntOn, NatOn
  <1>3. SumFunctionOnSet(d, S) = SumFunctionOnSet(g, S) /\ SumFunctionOnSet(d, S) \in Nat
    BY <1>1, <1>2, SumSame, SumInt
  <1> QED
    BY <1>3 DEF SumFunction

LEMMA QuantitiesAdd ==
    ASSUME NEW f \in [Bucket -> Nat], NEW S \in SUBSET Bucket
    PROVE  IntOn(f, S) /\ NatOn(f, S) /\ SumFunctionOnSet(f, S) \in Nat
  <1>1. IntOn(f, S) /\ NatOn(f, S)
    BY DEF IntOn, NatOn
  <1> QED
    BY <1>1, BucketsAreFinite, SumInt

LEMMA BumpedSum ==
    ASSUME NEW f, NEW g, NEW x, NEW q, Bumped(f, g, x, q), NEW S \in SUBSET Bucket
    PROVE  SumFunctionOnSet(g, S) = SumFunctionOnSet(f, S) + (IF x \in S THEN q ELSE 0)
  <1>1. /\ IsFiniteSet(S) /\ IntOn(f, S) /\ IntOn(g, S)
        /\ SumFunctionOnSet(f, S) \in Nat /\ q \in Nat /\ g[x] - f[x] = q
    BY BucketsAreFinite, QuantitiesAdd DEF Bumped
  <1>2. CASE x \in S
    <2>1. Agree(f, g, S \ {x})
      BY DEF Bumped, Agree
    <2>2. SumFunctionOnSet(g, S) = SumFunctionOnSet(f, S) + (g[x] - f[x])
      BY <1>1, <1>2, <2>1, SumChange
    <2> QED
      BY <1>1, <1>2, <2>2
  <1>3. CASE x \notin S
    <2>1. Agree(f, g, S)
      BY <1>3 DEF Bumped, Agree
    <2>2. SumFunctionOnSet(f, S) = SumFunctionOnSet(g, S)
      BY <1>1, <2>1, SumSame
    <2> QED
      BY <1>1, <1>3, <2>2
  <1> QED
    BY <1>2, <1>3

\* One receipt more, of bucket u.
LEMMA OneReceipt ==
    ASSUME NEW r \in [Bucket -> Nat], NEW u \in Bucket
    PROVE  /\ SumFunctionOnSet(r, {c \in Bucket : c < u + 1})
                = SumFunctionOnSet(r, {c \in Bucket : c < u}) + r[u]
           /\ \A b \in Bucket :
                SumFunctionOnSet(r, {c \in Bucket : c < u + 1 /\ c <= b})
                   = SumFunctionOnSet(r, {c \in Bucket : c < u /\ c <= b})
                       + (IF u <= b THEN r[u] ELSE 0)
  <1>1. ASSUME NEW S \in SUBSET Bucket, u \notin S
        PROVE  SumFunctionOnSet(r, S \cup {u}) = SumFunctionOnSet(r, S) + r[u]
    <2>1. IsFiniteSet(S) /\ IntOn(r, S \cup {u}) /\ SumFunctionOnSet(r, S) \in Nat
      <3>1. S \cup {u} \in SUBSET Bucket
        OBVIOUS
      <3> QED
        BY <3>1, BucketsAreFinite, QuantitiesAdd
    <2>2. SumFunctionOnSet(r, S \cup {u}) = r[u] + SumFunctionOnSet(r, S)
      BY <1>1, <2>1, SumAdd
    <2> QED
      BY <2>1, <2>2
  <1>2. \A c \in Bucket : (c < u + 1 <=> c < u \/ c = u) /\ ~(u < u)
    BY DEF Bucket
  <1>3. SumFunctionOnSet(r, {c \in Bucket : c < u + 1})
                = SumFunctionOnSet(r, {c \in Bucket : c < u}) + r[u]
    <2>1. {c \in Bucket : c < u + 1} = {c \in Bucket : c < u} \cup {u}
      BY <1>2
    <2>2. u \notin {c \in Bucket : c < u} /\ {c \in Bucket : c < u} \in SUBSET Bucket
      BY <1>2
    <2> QED
      BY <1>1, <2>1, <2>2
  <1>4. ASSUME NEW b \in Bucket
        PROVE  SumFunctionOnSet(r, {c \in Bucket : c < u + 1 /\ c <= b})
                   = SumFunctionOnSet(r, {c \in Bucket : c < u /\ c <= b})
                       + (IF u <= b THEN r[u] ELSE 0)
    <2> PICK S : S = {c \in Bucket : c < u /\ c <= b}
      OBVIOUS
    <2>1. u \notin S /\ S \in SUBSET Bucket
      BY <1>2
    <2>2. CASE u <= b
      <3>1. {c \in Bucket : c < u + 1 /\ c <= b} = S \cup {u}
        BY <1>2, <2>2
      <3> QED
        BY <1>1, <2>1, <2>2, <3>1
    <2>3. CASE ~(u <= b)
      <3>1. {c \in Bucket : c < u + 1 /\ c <= b} = S
        BY <1>2, <2>3
      <3>2. SumFunctionOnSet(r, S) \in Nat
        BY <2>1, QuantitiesAdd
      <3> QED
        BY <2>3, <3>1, <3>2
    <2> QED
      BY <2>2, <2>3
  <1> QED
    BY <1>3, <1>4

\* Releasing a bucket's receipt, at the latest in the bucket its lead time asks for,
\* or in the first one.
LEMMA OneRelease ==
    ASSUME IsItem(item), ReleasedUpTo(t), t \in Bucket, receipts \in [Bucket -> Nat],
           NEW x, NEW g, Bumped(releases, g, x, receipts[t]),
           receipts[t] # 0 => x <= Latest(t)
    PROVE  /\ SumFunctionOnSet(g, Bucket)
                = SumFunctionOnSet(receipts, {c \in Bucket : c < t + 1})
           /\ \A b \in Bucket :
                SumFunctionOnSet(g, 0..Latest(b))
                   >= SumFunctionOnSet(receipts, {c \in Bucket : c < t + 1 /\ c <= b})
  <1> PICK q \in Nat : q = receipts[t]
    OBVIOUS
  <1>1. /\ x \in Bucket /\ releases \in [Bucket -> Nat] /\ g \in [Bucket -> Nat]
        /\ item.lead \in Nat
    BY ItemTypes DEF Bumped
  <1>b. Bumped(releases, g, x, q)
    OBVIOUS
  <1>s. ASSUME NEW S \in SUBSET Bucket
        PROVE  SumFunctionOnSet(g, S) = SumFunctionOnSet(releases, S) + (IF x \in S THEN q ELSE 0)
    BY <1>b, BumpedSum
  <1>2. SumFunctionOnSet(g, Bucket) = SumFunctionOnSet(releases, Bucket) + q
    BY <1>1, <1>s
  <1>3. SumFunctionOnSet(g, Bucket) = SumFunctionOnSet(receipts, {c \in Bucket : c < t + 1})
    <2>1. SumFunctionOnSet(releases, Bucket) = SumFunctionOnSet(receipts, {c \in Bucket : c < t})
      BY DEF ReleasedUpTo
    <2>2. SumFunctionOnSet(receipts, {c \in Bucket : c < t + 1})
            = SumFunctionOnSet(receipts, {c \in Bucket : c < t}) + q
      BY OneReceipt
    <2> QED
      BY <1>2, <2>1, <2>2
  <1>4. ASSUME NEW b \in Bucket
        PROVE  SumFunctionOnSet(g, 0..Latest(b))
                   >= SumFunctionOnSet(receipts, {c \in Bucket : c < t + 1 /\ c <= b})
    <2> PICK S : S = 0..Latest(b)
      OBVIOUS
    <2> PICK R : R = {c \in Bucket : c < t /\ c <= b}
      OBVIOUS
    <2>1. S \in SUBSET Bucket /\ R \in SUBSET Bucket
      <3>0. item.lead \in Nat
        BY <1>1
      <3>1. Latest(b) \in Bucket
        BY <3>0 DEF Bucket, Latest
      <3>2. 0..Latest(b) \in SUBSET Bucket
        BY <3>1 DEF Bucket
      <3> QED
        BY <3>2
    <2>2. SumFunctionOnSet(g, S) = SumFunctionOnSet(releases, S) + (IF x \in S THEN q ELSE 0)
      BY <1>s, <2>1
    <2>3. SumFunctionOnSet(receipts, {c \in Bucket : c < t + 1 /\ c <= b})
            = SumFunctionOnSet(receipts, R) + (IF t <= b THEN q ELSE 0)
      BY OneReceipt
    <2>4. SumFunctionOnSet(releases, S) >= SumFunctionOnSet(receipts, R)
      BY DEF ReleasedUpTo
    <2>5. SumFunctionOnSet(releases, S) \in Nat /\ SumFunctionOnSet(receipts, R) \in Nat
      BY <1>1, <2>1, QuantitiesAdd
    <2>6. t <= b /\ q # 0 => x \in S
      <3>1. t \in Int /\ b \in Int /\ x \in Nat
        BY <1>1 DEF Bucket
      <3>2. t <= b => Latest(t) <= Latest(b) /\ Latest(b) \in Int /\ Latest(t) \in Int
        BY <1>1, <3>1 DEF Latest
      <3> QED
        BY <3>1, <3>2
    <2> QED
      BY <2>2, <2>3, <2>4, <2>5, <2>6
  <1> QED
    BY <1>3, <1>4

LEMMA InitReleaseInv == Fresh => ReleaseInv
  BY DEF Fresh, ReleaseInv

LEMMA ReleaseBucket ==
    ASSUME TypeInv, ReleaseInv, OffsetNothing \/ OffsetInTime \/ OffsetPastDue
    PROVE  ReleaseInv'
  <1>1. /\ phase = "offset" /\ phase' = "offset" /\ t \in Bucket /\ 0 \in Bucket /\ t' = t + 1
        /\ item' = item /\ receipts' = receipts /\ IsItem(item)
        /\ receipts \in [Bucket -> Nat] /\ releases \in [Bucket -> Nat]
    <2>1. /\ phase = "offset" /\ phase' = "offset" /\ t < Horizon /\ t' = t + 1
          /\ item' = item /\ receipts' = receipts
      BY DEF OffsetNothing, OffsetInTime, OffsetPastDue, Offsetting
    <2>2. /\ IsItem(item) /\ t \in 0..Horizon
          /\ receipts \in [Bucket -> Nat] /\ releases \in [Bucket -> Nat]
      BY DEF TypeInv, TypeOK
    <2> QED
      BY <2>1, <2>2 DEF Bucket
  <1>2. t - item.lead \in Int /\ t - item.lead < Horizon /\ item.lead \in Nat /\ t \in Nat
    <2>1. item.lead \in Nat
      BY <1>1, ItemTypes, Zenon
    <2>2. t \in Nat /\ t < Horizon
      BY <1>1 DEF Bucket
    <2> QED
      BY <2>1, <2>2
  <1> PICK day \in Int : day = ReleaseAt(t - item.lead)
    BY <1>1, <1>2, PreviousWorking
  <1>3. day <= t - item.lead /\ (day >= 0 => day \in Bucket)
    BY <1>1, <1>2, PreviousWorking
  <1>4. PICK q \in Nat : q = receipts[t]
    BY <1>1
  <1>5. \E x \in Bucket : /\ Bumped(releases, releases', x, q)
                          /\ q # 0 => x <= Latest(t)
    <2>1. CASE OffsetNothing
      <3>1. releases' = releases /\ q = 0
        BY <1>4, <2>1 DEF OffsetNothing
      <3>2. Bumped(releases, releases', 0, q)
        BY <1>1, <3>1 DEF Bumped
      <3> QED
        BY <1>1, <3>1, <3>2
    <2>2. CASE OffsetInTime
      <3>1. day >= 0 /\ releases' = [releases EXCEPT ![day] = releases[day] + q]
        BY <1>4, <2>2 DEF OffsetInTime
      <3>2. Bumped(releases, releases', day, q) /\ day \in Bucket
        BY <1>1, <1>3, <3>1 DEF Bumped
      <3>3. day <= Latest(t)
        BY <1>2, <1>3, <3>1 DEF Latest
      <3> QED
        BY <3>2, <3>3
    <2>3. CASE OffsetPastDue
      <3>1. releases' = [releases EXCEPT ![0] = releases[0] + q]
        BY <1>4, <2>3 DEF OffsetPastDue
      <3>2. Bumped(releases, releases', 0, q)
        BY <1>1, <3>1 DEF Bumped
      <3>3. 0 <= Latest(t)
        BY <1>2 DEF Latest
      <3> QED
        BY <1>1, <3>2, <3>3
    <2> QED
      BY <2>1, <2>2, <2>3
  <1> PICK g : g = releases'
    OBVIOUS
  <1>6. PICK x \in Bucket : Bumped(releases, g, x, receipts[t]) /\ (receipts[t] # 0 => x <= Latest(t))
    BY <1>4, <1>5
  <1>7. ReleasedUpTo(t)
    BY <1>1 DEF ReleaseInv
  <1>8. /\ SumFunctionOnSet(g, Bucket)
                = SumFunctionOnSet(receipts, {c \in Bucket : c < t + 1})
        /\ \A b \in Bucket :
                SumFunctionOnSet(g, 0..Latest(b))
                   >= SumFunctionOnSet(receipts, {c \in Bucket : c < t + 1 /\ c <= b})
    BY <1>1, <1>6, <1>7, OneRelease
  <1>9. \A b : Latest(b)' = Latest(b)
    BY <1>1 DEF Latest
  <1>10. ReleasedUpTo(t)'
    BY <1>1, <1>8, <1>9 DEF ReleasedUpTo
  <1> QED
    BY <1>1, <1>10 DEF ReleaseInv

\* Nothing is released before the offset begins.
LEMMA ReleaseBegins ==
    ASSUME TypeInv, OffsetInv, EndProject
    PROVE  ReleaseInv'
  <1>1. /\ phase' = "offset" /\ t' = 0 /\ receipts' = receipts /\ releases' = Zeros /\ item' = item
        /\ receipts \in [Bucket -> Nat]
    BY DEF EndProject, StartPass, OffsetInv, TypeInv, TypeOK
  <1>2. {c \in Bucket : c < 0} = {} /\ \A b : {c \in Bucket : c < 0 /\ c <= b} = {}
    BY DEF Bucket
  <1>3. SumFunctionOnSet(receipts, {}) = 0
    BY SumEmpty
  <1>4. \A b \in Bucket : 0..Latest(b) \in SUBSET Bucket
    <2> TAKE b \in Bucket
    <2>1. item.lead \in Nat
      BY ItemTypes DEF TypeInv
    <2>2. Latest(b) \in Bucket
      BY <2>1 DEF Latest, Bucket
    <2> QED
      BY <2>2 DEF Bucket
  <1>5. ASSUME NEW S \in SUBSET Bucket PROVE SumFunctionOnSet(Zeros, S) = 0
    <2>1. IsFiniteSet(S) /\ \A b \in S : Zeros[b] = 0
      BY BucketsAreFinite DEF Zeros
    <2> QED
      BY <2>1, SumOfZeros
  <1>6. \A b : Latest(b)' = Latest(b)
    BY <1>1 DEF Latest
  <1>7. SumFunctionOnSet(Zeros, Bucket) = 0 /\ \A b \in Bucket : SumFunctionOnSet(Zeros, 0..Latest(b)) = 0
    BY <1>4, <1>5
  <1>8. ReleasedUpTo(t)'
    <2>1. /\ SumFunctionOnSet(Zeros, Bucket) = SumFunctionOnSet(receipts, {c \in Bucket : c < 0})
          /\ \A b \in Bucket : SumFunctionOnSet(Zeros, 0..Latest(b))
               >= SumFunctionOnSet(receipts, {c \in Bucket : c < 0 /\ c <= b})
      <3>1. SumFunctionOnSet(receipts, {c \in Bucket : c < 0}) = 0
        BY <1>2, <1>3, Zenon
      <3>2. ASSUME NEW b \in Bucket
            PROVE  SumFunctionOnSet(receipts, {c \in Bucket : c < 0 /\ c <= b}) = 0
        BY <1>2, <1>3, Zenon
      <3>3. 0 >= 0
        OBVIOUS
      <3> QED
        BY <1>7, <3>1, <3>2, <3>3, Zenon
    <2> QED
      BY <1>1, <1>6, <2>1 DEF ReleasedUpTo
  <1> QED
    BY <1>1, <1>8 DEF ReleaseInv

LEMMA StepReleaseInv == TypeInv /\ OffsetInv /\ ReleaseInv /\ [Next]_vars => ReleaseInv'
  <1> SUFFICES ASSUME TypeInv, OffsetInv, ReleaseInv, [Next]_vars PROVE ReleaseInv'
    OBVIOUS
  <1>1. CASE NetFirm \/ NetShort \/ NetEnough \/ EndNetting \/ ChooseLots \/ Project
    <2>1. phase' \in {"net", "lots", "project"}
      BY <1>1 DEF NetFirm, NetShort, NetEnough, Netting, EndNetting, StartPass, ChooseLots,
                  Project
    <2> QED
      BY <2>1 DEF ReleaseInv
  <1>2. CASE EndOffset
    <2>1. /\ phase = "offset" /\ phase' = "done" /\ t = Horizon
          /\ UNCHANGED <<item, receipts, releases>>
      BY <1>2 DEF EndOffset, StartPass
    <2>2. ReleasedUpTo(Horizon)
      BY <2>1 DEF ReleaseInv
    <2>3. ReleasedUpTo(Horizon)'
      BY <2>1, <2>2 DEF ReleasedUpTo, Latest
    <2> QED
      BY <2>1, <2>3 DEF ReleaseInv
  <1>3. CASE UNCHANGED vars
    BY <1>3 DEF vars, ReleaseInv, ReleasedUpTo, Latest
  <1> QED
    BY <1>1, <1>2, <1>3, ReleaseBucket, ReleaseBegins DEF Next

LEMMA InTime == TypeInv /\ OffsetInv /\ ReleaseInv => ReleasedInTime
  <1> SUFFICES ASSUME TypeInv, OffsetInv, ReleaseInv PROVE ReleasedInTime
    OBVIOUS
  <1>1. OverdueIsReported
    BY DEF OffsetInv, OverdueIsReported, Planned, Reported
  <1>2. /\ receipts \in [Bucket -> Nat] /\ releases \in [Bucket -> Nat]
        /\ item.lead \in Nat
    BY ItemTypes DEF TypeInv, TypeOK
  <1>3. Planned => ReleasedUpTo(Horizon)
    BY DEF Planned, ReleaseInv
  <1>4. Planned => SumFunction(releases) = SumFunction(receipts)
    <2>1. {c \in Bucket : c < Horizon} = Bucket
      BY DEF Bucket
    <2>2. DOMAIN releases = Bucket /\ DOMAIN receipts = Bucket
      BY <1>2
    <2> QED
      BY <1>3, <2>1, <2>2 DEF ReleasedUpTo, SumFunction
  <1>5. ASSUME Planned, NEW b \in Bucket
        PROVE  UpTo(releases, Latest(b)) >= UpTo(receipts, b)
    <2>1. {c \in Bucket : c < Horizon /\ c <= b} = 0..b
      BY DEF Bucket
    <2>2. Latest(b) \in Bucket
      BY <1>2 DEF Latest, Bucket
    <2>3. SumFunctionOnSet(releases, 0..Latest(b)) >= SumFunctionOnSet(receipts, 0..b)
      BY <1>3, <1>5, <2>1 DEF ReleasedUpTo
    <2>4. 0..Latest(b) \in SUBSET Bucket /\ 0..b \in SUBSET Bucket
      BY <2>2 DEF Bucket
    <2>5. /\ UpTo(releases, Latest(b)) = SumFunctionOnSet(releases, 0..Latest(b))
          /\ UpTo(receipts, b) = SumFunctionOnSet(receipts, 0..b)
      BY <1>2, <2>4, SumOver DEF UpTo
    <2> QED
      BY <2>3, <2>5
  <1> QED
    BY <1>1, <1>4, <1>5 DEF ReleasedInTime, Latest

\* Everything planned is released exactly once, early enough for its lead time or else
\* at once, and what is overdue is reported: for any calendar, lead time and horizon,
\* and under every lot rule, Wagner-Whitin included.
THEOREM ReleasedAlwaysInTime == Spec => []ReleasedInTime
  BY InTime, InitItem, InitTypeInv, StepTypeInv, InitOffsetInv, StepOffsetInv, InitReleaseInv,
     StepReleaseInv, PTL DEF Spec

------------------------------------------------------------------------------
(***************************************************************************)
(* Wagner-Whitin covers what it is asked for, as cheaply as can be: best   *)
(* says the least that orders for the first u buckets cost, and the walk   *)
(* back goes through orders that cost it.  The cost of a plan is counted   *)
(* unit by unit, by how long each waits between its order and its bucket.  *)
(***************************************************************************)
\* The last of the cheapest: what an argmin over costs of 0..u-1 is.
LatestBest(cost, u) ==
    CHOOSE j \in 0..(u - 1) :
        \A i \in 0..(u - 1) : cost[j] < cost[i] \/ (cost[j] = cost[i] /\ i <= j)

LEMMA LatestBestExists ==
    ASSUME NEW u \in Nat \ {0}, NEW cost \in [0..(u - 1) -> Int]
    PROVE  /\ LatestBest(cost, u) \in 0..(u - 1)
           /\ \A i \in 0..(u - 1) : cost[LatestBest(cost, u)] <= cost[i]
  <1> DEFINE Good == {k \in 0..(u - 1) : \E j \in 0..k : \A i \in 0..k :
                          cost[j] < cost[i] \/ (cost[j] = cost[i] /\ i <= j)}
  <1>0. \A i \in 0..(u - 1) : cost[i] \in Int /\ i \in Int
    OBVIOUS
  <1>1. 0 \in Good
    <2>1. 0 \in 0..(u - 1) /\ 0 \in 0..0 /\ \A i \in 0..0 : i = 0
      OBVIOUS
    <2> QED
      BY <1>0, <2>1
  <1>2. ASSUME NEW b \in 1..(u - 1), b - 1 \in Good PROVE b \in Good
    <2>1. PICK j \in 0..(b - 1) : \A i \in 0..(b - 1) :
              cost[j] < cost[i] \/ (cost[j] = cost[i] /\ i <= j)
      BY <1>2
    <2>2. \A i \in 0..b : i = b \/ i \in 0..(b - 1)
      OBVIOUS
    <2>3. j \in 0..b /\ b \in 0..b /\ cost[j] \in Int /\ cost[b] \in Int /\ b \in 0..(u - 1)
      BY <1>0
    <2>4. CASE cost[j] < cost[b]
      BY <2>1, <2>2, <2>3, <2>4
    <2>5. CASE ~(cost[j] < cost[b])
      <3>1. \A i \in 0..b : cost[b] < cost[i] \/ (cost[b] = cost[i] /\ i <= b)
        <4> SUFFICES ASSUME NEW i \in 0..b
                     PROVE  cost[b] < cost[i] \/ (cost[b] = cost[i] /\ i <= b)
          OBVIOUS
        <4>1. cost[i] \in Int /\ i <= b
          BY <1>0
        <4>2. CASE i = b
          BY <4>1, <4>2
        <4>3. CASE i \in 0..(b - 1)
          BY <2>1, <2>3, <2>5, <4>1, <4>3
        <4> QED
          BY <2>2, <4>2, <4>3
      <3> QED
        BY <2>3, <3>1
    <2> QED
      BY <2>4, <2>5
  <1>3. u - 1 \in Good
    <2>1. Inductive(Good, u - 1)
      BY <1>1, <1>2, Zenon DEF Inductive
    <2>2. u - 1 \in Nat
      OBVIOUS
    <2>3. 0..(u - 1) \subseteq Good
      BY <2>1, <2>2, Along
    <2> QED
      <3>1. u - 1 \in 0..(u - 1)
        OBVIOUS
      <3> QED
        BY <2>3, <3>1, Zenon
  <1>4. \E j \in 0..(u - 1) : \A i \in 0..(u - 1) :
              cost[j] < cost[i] \/ (cost[j] = cost[i] /\ i <= j)
    BY <1>3
  <1>l. PICK l : l = LatestBest(cost, u)
    OBVIOUS
  <1>5. l \in 0..(u - 1) /\ \A i \in 0..(u - 1) :
              cost[l] < cost[i] \/ (cost[l] = cost[i] /\ i <= l)
    BY <1>4, <1>l, Zenon DEF LatestBest
  <1>6. \A i \in 0..(u - 1) : cost[l] <= cost[i]
    BY <1>0, <1>5
  <1> QED
    BY <1>5, <1>6, <1>l

LEMMA ProductNat ==
    ASSUME NEW x \in Nat, NEW y \in Nat
    PROVE  x * y \in Nat
  OBVIOUS

\* What ordering in j for everything up to u costs.
Costs(best, d, u, setup, holding) ==
    [j \in 0..(u - 1) |-> best[j].cost + setup + holding * Carry(d, j, u)]

Entry(best, d, u, setup, holding) ==
    IF u = 0 THEN [cost |-> 0, at |-> 0]
    ELSE LET cost == Costs(best, d, u, setup, holding)
             last == LatestBest(cost, u)
         IN [cost |-> cost[last], at |-> last]

IsBest(best, d, n, setup, holding) ==
    best = [u \in 0..n |-> Entry(best, d, u, setup, holding)]

LEMMA CostsAreNat ==
    ASSUME NEW n \in Nat, NEW d \in [0..(n - 1) -> Nat], NEW setup \in Nat, NEW holding \in Nat,
           NEW u \in 1..n, NEW best, \A j \in 0..(u - 1) : best[j].cost \in Nat
    PROVE  Costs(best, d, u, setup, holding) \in [0..(u - 1) -> Nat]
  <1> SUFFICES ASSUME NEW j \in 0..(u - 1)
               PROVE  best[j].cost + setup + holding * Carry(d, j, u) \in Nat
    BY DEF Costs
  <1>1. Carry(d, j, u) \in Nat
    <2> PICK g : g = [k \in j..(u - 1) |-> (k - j) * d[k]]
      OBVIOUS
    <2>1. ASSUME NEW k \in j..(u - 1) PROVE g[k] \in Nat
      <3>1. k - j \in Nat /\ d[k] \in Nat
        OBVIOUS
      <3> PICK x \in Nat, y \in Nat : x = k - j /\ y = d[k]
        BY <3>1
      <3>2. x * y \in Nat
        BY ProductNat, Zenon
      <3> QED
        BY <3>2
    <2>2. IsFiniteSet(j..(u - 1))
      BY FS_Interval
    <2>3. IntOn(g, j..(u - 1)) /\ NatOn(g, j..(u - 1))
      BY <2>1 DEF IntOn, NatOn
    <2>4. SumFunctionOnSet(g, j..(u - 1)) \in Nat
      BY <2>2, <2>3, SumInt
    <2>5. DOMAIN g = j..(u - 1)
      OBVIOUS
    <2> QED
      BY <2>4, <2>5 DEF Carry, SumFunction
  <1>c. PICK c \in Nat : c = Carry(d, j, u)
    BY <1>1
  <1>2. holding * c \in Nat
    BY ProductNat, Zenon
  <1>p. PICK p \in Nat : p = holding * Carry(d, j, u)
    BY <1>2, <1>c
  <1>3. best[j].cost + setup + p \in Nat
    <2>1. best[j].cost \in Nat
      OBVIOUS
    <2>c. PICK c1 \in Nat : c1 = best[j].cost
      BY <2>1
    <2>2. c1 + setup + p \in Nat
      OBVIOUS
    <2> QED
      BY <2>c, <2>2
  <1> QED
    BY <1>3, <1>p

LEMMA BestSolves ==
    ASSUME NEW n \in Nat, NEW d \in [0..(n - 1) -> Nat], NEW setup \in Nat, NEW holding \in Nat
    PROVE  IsBest(Best(d, n, setup, holding), d, n, setup, holding)
  <1> DEFINE V == [cost : Nat, at : Nat]
  <1> PICK step : step = [p \in (0..n) \X [0..n -> V] |-> Entry(p[2], d, p[1], setup, holding)]
    OBVIOUS
  <1>1. ASSUME NEW u \in 0..n, NEW f \in [0..n -> V]
        PROVE  step[<<u, f>>] = Entry(f, d, u, setup, holding) /\ step[<<u, f>>] \in V
    <2>1. step[<<u, f>>] = Entry(f, d, u, setup, holding)
      OBVIOUS
    <2>2. CASE u = 0
      BY <2>1, <2>2 DEF Entry
    <2>3. CASE u # 0
      <3>1. u \in 1..n /\ u \in Nat \ {0}
        BY <2>3
      <3>2. \A j \in 0..(u - 1) : f[j].cost \in Nat
        OBVIOUS
      <3> PICK cost : cost = Costs(f, d, u, setup, holding)
        OBVIOUS
      <3>3. cost \in [0..(u - 1) -> Nat]
        BY <3>1, <3>2, CostsAreNat
      <3> PICK last : last = LatestBest(cost, u)
        OBVIOUS
      <3>4. last \in 0..(u - 1)
        <4>1. cost \in [0..(u - 1) -> Int]
          BY <3>3
        <4> QED
          BY <3>1, <4>1, LatestBestExists
      <3>5. Entry(f, d, u, setup, holding) = [cost |-> cost[last], at |-> last]
        BY <2>3 DEF Entry
      <3>6. cost[last] \in Nat /\ last \in Nat
        BY <3>3, <3>4
      <3> QED
        BY <2>1, <3>5, <3>6
    <2> QED
      BY <2>1, <2>2, <2>3
  <1>2. ASSUME NEW u \in 0..n, NEW f \in [0..n -> V], NEW g \in [0..n -> V],
               \A j \in 0..n : j < u => f[j] = g[j]
        PROVE  step[<<u, f>>] = step[<<u, g>>]
    <2>1. \A j \in 0..(u - 1) : f[j] = g[j]
      BY <1>2
    <2>2. Costs(f, d, u, setup, holding) = Costs(g, d, u, setup, holding)
      BY <2>1 DEF Costs
    <2>3. Entry(f, d, u, setup, holding) = Entry(g, d, u, setup, holding)
      BY <2>2 DEF Entry
    <2> QED
      BY <1>1, <2>3
  <1>3. Causal(step, n, V)
    BY <1>1, <1>2, Zenon DEF Causal
  <1>4. [cost |-> 0, at |-> 0] \in V
    OBVIOUS
  <1>5. PICK f \in [0..n -> V] : Solves(f, step, n)
    <2> HIDE DEF V
    <2> QED
      BY <1>3, <1>4, Recursion, Zenon
  <1>6. IsBest(f, d, n, setup, holding)
    <2>1. \A u \in 0..n : f[u] = Entry(f, d, u, setup, holding)
      BY <1>1, <1>5, Zenon DEF Solves
    <2> QED
      BY <2>1 DEF IsBest
  <1>7. Best(d, n, setup, holding) = CHOOSE b : IsBest(b, d, n, setup, holding)
    BY DEF Best, IsBest, Entry, Costs, LatestBest
  <1> QED
    BY <1>6, <1>7, Zenon

\* The walk back from u, and that it is one.
IsWalkBack(points, best, n) ==
    points = [u \in 0..n |-> IF u = 0 THEN {} ELSE {best[u].at} \cup points[best[u].at]]

LEMMA WalkBackSolves ==
    ASSUME NEW n \in Nat, NEW best, \A u \in 1..n : best[u].at \in 0..(u - 1)
    PROVE  IsWalkBack(CHOOSE p : IsWalkBack(p, best, n), best, n)
  <1> DEFINE V == SUBSET (0..n)
             Back(f, u) == IF u = 0 THEN {} ELSE {best[u].at} \cup f[best[u].at]
  <1> PICK step : step = [p \in (0..n) \X [0..n -> V] |-> Back(p[2], p[1])]
    OBVIOUS
  <1>0. \A u \in 0..n : u # 0 => best[u].at \in 0..(u - 1) /\ best[u].at \in 0..n /\ best[u].at < u
    <2>1. \A u \in 0..n : u # 0 => u \in 1..n
      OBVIOUS
    <2>2. \A u \in 0..n : \A x \in 0..(u - 1) : x \in 0..n /\ x < u
      OBVIOUS
    <2> QED
      BY <2>1, <2>2
  <1>1. ASSUME NEW u \in 0..n, NEW f \in [0..n -> V]
        PROVE  step[<<u, f>>] = Back(f, u) /\ step[<<u, f>>] \in V
    <2>1. step[<<u, f>>] = Back(f, u)
      OBVIOUS
    <2>2. CASE u = 0
      BY <2>1, <2>2
    <2>3. CASE u # 0
      <3>1. best[u].at \in 0..n
        BY <1>0, <2>3
      <3>2. f[best[u].at] \in V
        BY <3>1
      <3> QED
        BY <2>1, <2>3, <3>1, <3>2
    <2> QED
      BY <2>2, <2>3
  <1>2. ASSUME NEW u \in 0..n, NEW f \in [0..n -> V], NEW g \in [0..n -> V],
               \A j \in 0..n : j < u => f[j] = g[j]
        PROVE  step[<<u, f>>] = step[<<u, g>>]
    <2>1. CASE u = 0
      BY <1>1, <2>1
    <2>2. CASE u # 0
      <3>1. f[best[u].at] = g[best[u].at]
        BY <1>0, <1>2, <2>2
      <3> QED
        BY <1>1, <2>2, <3>1
    <2> QED
      BY <2>1, <2>2
  <1>3. Causal(step, n, V)
    BY <1>1, <1>2, Zenon DEF Causal
  <1>4. {} \in V
    OBVIOUS
  <1>5. PICK f \in [0..n -> V] : Solves(f, step, n)
    <2> HIDE DEF V
    <2> QED
      BY <1>3, <1>4, Recursion, Zenon
  <1>6. IsWalkBack(f, best, n)
    <2>1. \A u \in 0..n : f[u] = Back(f, u)
      BY <1>1, <1>5, Zenon DEF Solves
    <2> QED
      BY <2>1 DEF IsWalkBack
  <1> QED
    BY <1>6, Zenon

\* The buckets an order at j covers.
Run(points, j) == {i \in j..(Horizon - 1) : \A p \in points : p > j => i < p}

LEMMA LotOf ==
    ASSUME NEW points, NEW d \in [Bucket -> Nat], NEW j \in Bucket
    PROVE  LotsAt(points, d, Horizon)[j] =
              IF j \notin points THEN 0 ELSE SumFunctionOnSet(d, Run(points, j))
  <1>1. Run(points, j) \in SUBSET Bucket
    BY DEF Run, Bucket
  <1>2. SumFunction([k \in Run(points, j) |-> d[k]]) = SumFunctionOnSet(d, Run(points, j))
    BY <1>1, SumOver
  <1>3. j \in 0..(Horizon - 1)
    BY DEF Bucket
  <1> QED
    BY <1>2, <1>3 DEF LotsAt, Run

\* The order that covers bucket k: the last one at or before it.
UptoIn(q, k) == {x \in q : x <= k}
OrderFor(q, k) == CHOOSE p \in UptoIn(q, k) : \A y \in UptoIn(q, k) : y <= p

LEMMA OrderForIs ==
    ASSUME NEW q \in SUBSET Bucket, 0 \in q, NEW k \in Bucket
    PROVE  /\ OrderFor(q, k) \in q /\ OrderFor(q, k) \in Nat /\ OrderFor(q, k) <= k
           /\ \A y \in q : y <= k => y <= OrderFor(q, k)
  <1>0. k \in Nat /\ \A y \in q : y \in Nat
    BY DEF Bucket
  <1>1. UptoIn(q, k) \in SUBSET Bucket /\ UptoIn(q, k) # {}
    <2>1. 0 \in UptoIn(q, k)
      BY <1>0 DEF UptoIn
    <2> QED
      BY <2>1 DEF UptoIn
  <1>2. \E p \in UptoIn(q, k) : \A y \in UptoIn(q, k) : y <= p
    BY <1>1, LastOne
  <1>3. OrderFor(q, k) \in UptoIn(q, k) /\ \A y \in UptoIn(q, k) : y <= OrderFor(q, k)
    BY <1>2, Zenon DEF OrderFor
  <1> QED
    BY <1>0, <1>3 DEF UptoIn

LEMMA OrderForOnly ==
    ASSUME NEW q \in SUBSET Bucket, NEW k \in Bucket, NEW p \in q, p <= k,
           \A y \in q : y <= k => y <= p
    PROVE  OrderFor(q, k) = p
  <1>1. p \in UptoIn(q, k) /\ \A y \in UptoIn(q, k) : y <= p
    BY DEF UptoIn
  <1>2. OrderFor(q, k) \in UptoIn(q, k) /\ \A y \in UptoIn(q, k) : y <= OrderFor(q, k)
    BY <1>1, Zenon DEF OrderFor
  <1>3. OrderFor(q, k) \in Bucket /\ p \in Bucket
    BY <1>2 DEF UptoIn
  <1> QED
    BY <1>1, <1>2, <1>3 DEF Bucket

\* The buckets an order covers are those it is the order for.
LEMMA RunIs ==
    ASSUME NEW q \in SUBSET Bucket, 0 \in q, NEW p \in q
    PROVE  {k \in Bucket : OrderFor(q, k) = p} = Run(q, p)
  <1>0. p \in Nat /\ p \in Bucket /\ \A y \in q : y \in Nat
    BY DEF Bucket
  <1>1. ASSUME NEW k \in Bucket, OrderFor(q, k) = p PROVE k \in Run(q, p)
    <2>1. p <= k /\ \A y \in q : y <= k => y <= p
      BY <1>1, OrderForIs
    <2>2. k \in p..(Horizon - 1) /\ k \in Nat
      BY <1>0, <2>1 DEF Bucket
    <2>3. \A y \in q : y > p => k < y
      BY <1>0, <2>1, <2>2
    <2> QED
      BY <2>2, <2>3 DEF Run
  <1>2. ASSUME NEW k \in Run(q, p) PROVE k \in Bucket /\ OrderFor(q, k) = p
    <2>1. k \in Bucket /\ p <= k /\ k \in Nat
      BY <1>0 DEF Run, Bucket
    <2>2. \A y \in q : y > p => k < y
      BY DEF Run
    <2>3. \A y \in q : y <= k => y <= p
      BY <1>0, <2>1, <2>2
    <2> QED
      BY <2>1, <2>3, OrderForOnly
  <1> QED
    BY <1>1, <1>2

\* Every bucket is covered by the last order at or before it.
LEMMA LotsCover ==
    ASSUME NEW q \in SUBSET Bucket, 0 \in q, NEW d \in [Bucket -> Nat], NEW b \in Bucket
    PROVE  SumFunctionOnSet(LotsAt(q, d, Horizon), 0..b) >= SumFunctionOnSet(d, 0..b)
  <1>g. PICK group, K, h : /\ group = [k \in Bucket |-> OrderFor(q, k)]
                           /\ K = {k \in Bucket : OrderFor(q, k) <= b}
                           /\ h = LotsAt(q, d, Horizon)
    OBVIOUS
  <1>0. /\ b \in Nat /\ 0..b \in SUBSET Bucket /\ K \in SUBSET Bucket
        /\ \A k \in Bucket : group[k] = OrderFor(q, k) /\ group[k] \in q /\ group[k] <= k
    BY <1>g, OrderForIs DEF Bucket
  <1>1. 0..b \subseteq K
    <2>1. \A k \in 0..b : OrderFor(q, k) \in Nat /\ OrderFor(q, k) <= k
      BY <1>0, OrderForIs
    <2> QED
      BY <1>0, <1>g, <2>1
  <1>2. ASSUME NEW p \in 0..b
        PROVE  h[p] = SumFunctionOnSet(d, {k \in K : group[k] = p})
    <2>1. p \in Bucket /\ p <= b
      BY <1>0
    <2>2. CASE p \notin q
      <3>1. {k \in K : group[k] = p} = {}
        BY <1>0, <2>2
      <3> QED
        BY <1>g, <2>1, <2>2, <3>1, LotOf, SumEmpty
    <2>3. CASE p \in q
      <3>1. {k \in K : group[k] = p} = {k \in Bucket : OrderFor(q, k) = p}
        BY <1>0, <1>g, <2>1
      <3>2. {k \in K : group[k] = p} = Run(q, p)
        BY <2>3, <3>1, RunIs
      <3> QED
        BY <1>g, <2>1, <2>3, <3>2, LotOf
    <2> QED
      BY <2>2, <2>3
  <1>3. Grouped(d, K, 0..b, group, h)
    <2>1. IsFiniteSet(K) /\ IsFiniteSet(0..b) /\ IntOn(d, K)
      BY <1>0, BucketsAreFinite DEF IntOn
    <2>2. \A k \in K : group[k] \in 0..b
      <3>1. \A k \in K : group[k] \in Nat /\ group[k] <= b
        BY <1>0, <1>g, OrderForIs
      <3> QED
        BY <1>0, <3>1
    <2> QED
      BY <1>2, <2>1, <2>2 DEF Grouped
  <1>4. SumFunctionOnSet(h, 0..b) = SumFunctionOnSet(d, K)
    BY <1>3, SumOfGroups
  <1>5. SumFunctionOnSet(d, K) >= SumFunctionOnSet(d, 0..b)
    <2>r. PICK S, R : S = 0..b /\ R = K \ (0..b)
      OBVIOUS
    <2>1. K = S \cup R /\ S \cap R = {} /\ S \in SUBSET Bucket /\ R \in SUBSET Bucket
      BY <1>0, <1>1, <2>r
    <2>2. IsFiniteSet(S) /\ IsFiniteSet(R) /\ IntOn(d, S \cup R)
      BY <2>1, BucketsAreFinite DEF IntOn
    <2>3. SumFunctionOnSet(d, K) = SumFunctionOnSet(d, S) + SumFunctionOnSet(d, R)
      BY <2>1, <2>2, SumUnion
    <2>4. SumFunctionOnSet(d, R) \in Nat /\ SumFunctionOnSet(d, S) \in Nat
      BY <2>1, SumOver
    <2> QED
      BY <2>3, <2>4, <2>r
  <1> QED
    BY <1>4, <1>5, <1>g

(***************************************************************************)
(* What orders cost.                                                       *)
(***************************************************************************)
\* What ordering at q costs for the buckets before u: a setup for every order, and what
\* every unit is held between its order and its bucket.
Wait(q, d) == [k \in Bucket |-> (k - OrderFor(q, k)) * d[k]]
CostOf(q, d, u, setup, holding) ==
    setup * Cardinality(q) + holding * SumFunctionOnSet(Wait(q, d), 0..(u - 1))

\* The orders before bucket u, if any bucket is.
OrdersIn(q, u) == q \in SUBSET (0..(u - 1)) /\ (u # 0 => 0 \in q)

LastOrder(q, j, u) == OrdersIn(q, u) /\ j \in q /\ \A y \in q : y <= j

LEMMA WaitIs ==
    ASSUME NEW q \in SUBSET Bucket, 0 \in q, NEW d \in [Bucket -> Nat]
    PROVE  Wait(q, d) \in [Bucket -> Nat]
  <1> SUFFICES ASSUME NEW k \in Bucket PROVE (k - OrderFor(q, k)) * d[k] \in Nat
    BY DEF Wait
  <1>1. k \in Nat /\ OrderFor(q, k) \in Nat /\ OrderFor(q, k) <= k /\ d[k] \in Nat
    BY OrderForIs DEF Bucket
  <1>p. PICK x \in Nat, y \in Nat : x = k - OrderFor(q, k) /\ y = d[k]
    BY <1>1
  <1>2. x * y \in Nat
    BY ProductNat, Zenon
  <1> QED
    BY <1>p, <1>2

LEMMA CarryIs ==
    ASSUME NEW d \in [Bucket -> Nat], NEW u \in 1..Horizon, NEW j \in 0..(u - 1)
    PROVE  /\ Carry(d, j, u) \in Nat
           /\ \A g : (\A k \in j..(u - 1) : g[k] = (k - j) * d[k]) =>
                SumFunctionOnSet(g, j..(u - 1)) = Carry(d, j, u)
  <1>0. j..(u - 1) \in SUBSET Bucket /\ j \in Nat
    BY DEF Bucket
  <1>1. IsFiniteSet(j..(u - 1))
    BY <1>0, BucketsAreFinite
  <1>h. PICK h : h = [k \in j..(u - 1) |-> (k - j) * d[k]]
    OBVIOUS
  <1>2. Carry(d, j, u) = SumFunctionOnSet(h, j..(u - 1))
    <2>1. DOMAIN h = j..(u - 1)
      BY <1>h
    <2> QED
      BY <1>h, <2>1 DEF Carry, SumFunction
  <1>3. ASSUME NEW k \in j..(u - 1) PROVE h[k] \in Nat
    <2>p. PICK x \in Nat, y \in Nat : x = k - j /\ y = d[k]
      <3>1. k - j \in Nat /\ d[k] \in Nat
        BY <1>0
      <3> QED
        BY <3>1
    <2>1. x * y \in Nat
      BY ProductNat, Zenon
    <2> QED
      BY <1>h, <2>p, <2>1
  <1>4. IntOn(h, j..(u - 1)) /\ NatOn(h, j..(u - 1))
    BY <1>3 DEF IntOn, NatOn
  <1>5. Carry(d, j, u) \in Nat
    BY <1>1, <1>2, <1>4, SumInt
  <1>6. ASSUME NEW g, \A k \in j..(u - 1) : g[k] = (k - j) * d[k]
        PROVE  SumFunctionOnSet(g, j..(u - 1)) = Carry(d, j, u)
    <2>1. Agree(g, h, j..(u - 1))
      BY <1>6, <1>h DEF Agree
    <2> QED
      BY <1>1, <1>2, <2>1, SumSame
  <1> QED
    BY <1>5, <1>6

LEMMA Distributes ==
    ASSUME NEW a \in Int, NEW x \in Int, NEW y \in Int
    PROVE  a * (x + y) = a * x + a * y /\ a * x \in Int
  OBVIOUS

\* The cost of orders is that of those before the last, its setup, and what it carries.
Splits(q, j, d, u, setup, holding) ==
    /\ OrdersIn(q \ {j}, j) /\ j \in 0..(u - 1)
    /\ CostOf(q \ {j}, d, j, setup, holding) \in Int
    /\ CostOf(q, d, u, setup, holding) =
         CostOf(q \ {j}, d, j, setup, holding) + setup + holding * Carry(d, j, u)

LEMMA CostSplits ==
    ASSUME NEW d \in [Bucket -> Nat], NEW setup \in Nat, NEW holding \in Nat,
           NEW u \in 1..Horizon, NEW q, NEW j, LastOrder(q, j, u)
    PROVE  Splits(q, j, d, u, setup, holding)
  <1>r. PICK r : r = q \ {j}
    OBVIOUS
  <1>0. /\ q \in SUBSET Bucket /\ q \in SUBSET (0..(u - 1)) /\ 0 \in q
        /\ j \in q /\ (\A y \in q : y <= j)
        /\ j \in 0..(u - 1) /\ j \in Nat /\ j \in Bucket /\ u \in Nat
    BY DEF LastOrder, OrdersIn, Bucket
  <1>1. OrdersIn(r, j)
    <2>1. \A y \in r : y \in Nat /\ y <= j /\ y # j
      BY <1>r, <1>0
    <2>2. \A y \in r : y \in 0..(j - 1)
      BY <2>1, <1>0
    <2> QED
      BY <1>r, <1>0, <2>2 DEF OrdersIn
  <1>2. r \in SUBSET Bucket /\ (j # 0 => 0 \in r)
    BY <1>r, <1>0
  <1>3. IsFiniteSet(q) /\ Cardinality(q) = Cardinality(r) + 1 /\ Cardinality(r) \in Nat
    <2>1. IsFiniteSet(q)
      BY <1>0, BucketsAreFinite
    <2>2. Cardinality(r) = Cardinality(q) - 1 /\ IsFiniteSet(r)
      BY <1>0, <1>r, <2>1, FS_RemoveElement
    <2>3. Cardinality(q) \in Nat /\ Cardinality(r) \in Nat
      BY <2>1, <2>2, FS_CardinalityType
    <2> QED
      BY <2>1, <2>2, <2>3
  <1>l. 0..(j - 1) \in SUBSET Bucket /\ j..(u - 1) \in SUBSET Bucket
    BY <1>0 DEF Bucket
  <1>4. \A k \in 0..(j - 1) : OrderFor(q, k) = OrderFor(r, k)
    <2> SUFFICES ASSUME NEW k \in 0..(j - 1) PROVE OrderFor(q, k) = OrderFor(r, k)
      OBVIOUS
    <2>1. ~(j <= k)
      BY <1>0
    <2>2. UptoIn(q, k) = UptoIn(r, k)
      BY <1>r, <2>1 DEF UptoIn
    <2> QED
      BY <2>2 DEF OrderFor
  <1>5. \A k \in j..(u - 1) : OrderFor(q, k) = j
    <2> SUFFICES ASSUME NEW k \in j..(u - 1) PROVE OrderFor(q, k) = j
      OBVIOUS
    <2>1. k \in Bucket /\ j <= k
      BY <1>l, <1>0
    <2> QED
      BY <1>0, <2>1, OrderForOnly
  <1>w. PICK w, v : w = Wait(q, d) /\ v = Wait(r, d)
    OBVIOUS
  <1>6. w \in [Bucket -> Nat]
    BY <1>0, <1>w, WaitIs
  <1>7. SumFunctionOnSet(w, 0..(u - 1)) =
            SumFunctionOnSet(w, 0..(j - 1)) + SumFunctionOnSet(w, j..(u - 1))
    <2>s. PICK A, B : A = 0..(j - 1) /\ B = j..(u - 1)
      OBVIOUS
    <2>1. 0..(u - 1) = A \cup B /\ A \cap B = {}
      BY <1>0, <2>s
    <2>2. A \in SUBSET Bucket /\ B \in SUBSET Bucket
      BY <1>l, <2>s
    <2>3. IsFiniteSet(A) /\ IsFiniteSet(B) /\ IntOn(w, A \cup B)
      BY <1>6, <2>2, BucketsAreFinite DEF IntOn
    <2>4. SumFunctionOnSet(w, A \cup B) = SumFunctionOnSet(w, A) + SumFunctionOnSet(w, B)
      BY <2>1, <2>3, SumUnion
    <2> QED
      BY <2>1, <2>4, <2>s
  <1>8. SumFunctionOnSet(w, j..(u - 1)) = Carry(d, j, u)
    <2>1. \A k \in j..(u - 1) : w[k] = (k - j) * d[k]
      BY <1>5, <1>w, <1>l DEF Wait
    <2> QED
      BY <1>0, <2>1, CarryIs
  <1>9. SumFunctionOnSet(w, 0..(j - 1)) = SumFunctionOnSet(v, 0..(j - 1))
    <2>1. Agree(w, v, 0..(j - 1))
      BY <1>4, <1>w, <1>l DEF Wait, Agree
    <2>2. IsFiniteSet(0..(j - 1))
      BY <1>l, BucketsAreFinite
    <2> QED
      BY <2>1, <2>2, SumSame
  <1>10. SumFunctionOnSet(w, 0..(j - 1)) \in Nat
    BY <1>6, <1>l, SumOver
  <1>11. Carry(d, j, u) \in Nat
    BY <1>0, CarryIs
  <1>n. PICK c \in Nat, h \in Nat, e \in Nat :
            c = Cardinality(r) /\ h = SumFunctionOnSet(v, 0..(j - 1)) /\ e = Carry(d, j, u)
    BY <1>3, <1>9, <1>10, <1>11
  <1>12. CostOf(r, d, j, setup, holding) = setup * c + holding * h
    BY <1>n, <1>w DEF CostOf
  <1>13. CostOf(q, d, u, setup, holding) = setup * (c + 1) + holding * (h + e)
    BY <1>n, <1>w, <1>3, <1>7, <1>8, <1>9 DEF CostOf
  <1>14. /\ setup * (c + 1) = setup * c + setup * 1 /\ setup * c \in Int
         /\ holding * (h + e) = holding * h + holding * e /\ holding * h \in Int
         /\ holding * e \in Int
    BY Distributes
  <1>15. setup * 1 = setup
    OBVIOUS
  <1>16. setup * c + holding * h \in Int
         /\ setup * (c + 1) + holding * (h + e) = (setup * c + holding * h) + setup + holding * e
    BY <1>14, <1>15
  <1> QED
    BY <1>0, <1>1, <1>r, <1>n, <1>12, <1>13, <1>16 DEF Splits

\* No orders cost less than best says.
AtLeast(best, d, u, setup, holding) ==
    \A q : OrdersIn(q, u) => best[u].cost <= CostOf(q, d, u, setup, holding)

\* Some do not cost more: those the walk back goes through.
Attained(best, points, d, u, setup, holding) ==
    OrdersIn(points[u], u) /\ CostOf(points[u], d, u, setup, holding) = best[u].cost

Sound(best, u) == best[u].cost \in Nat /\ (u # 0 => best[u].at \in 0..(u - 1))

LEMMA BestNext ==
    ASSUME NEW d \in [Bucket -> Nat], NEW setup \in Nat, NEW holding \in Nat,
           NEW best, IsBest(best, d, Horizon, setup, holding), NEW u \in 1..Horizon,
           \A j \in 0..(u - 1) : Sound(best, j)
    PROVE  /\ Sound(best, u)
           /\ \A j \in 0..(u - 1) :
                best[u].cost <= best[j].cost + setup + holding * Carry(d, j, u)
           /\ best[u].cost = best[best[u].at].cost + setup + holding * Carry(d, best[u].at, u)
  <1>1. \A j \in 0..(u - 1) : best[j].cost \in Nat
    BY DEF Sound
  <1>c. PICK cost : cost = Costs(best, d, u, setup, holding)
    OBVIOUS
  <1>2. cost \in [0..(u - 1) -> Nat]
    <2>1. d \in [0..(Horizon - 1) -> Nat]
      BY DEF Bucket
    <2> QED
      BY <1>1, <1>c, <2>1, CostsAreNat
  <1>l. PICK l : l = LatestBest(cost, u)
    OBVIOUS
  <1>3. l \in 0..(u - 1) /\ \A j \in 0..(u - 1) : cost[l] <= cost[j]
    <2>1. cost \in [0..(u - 1) -> Int] /\ u \in Nat \ {0} /\ 0 \in 0..(u - 1)
      BY <1>2
    <2> QED
      BY <1>l, <2>1, LatestBestExists
  <1>4. best[u] = [cost |-> cost[l], at |-> l]
    <2>1. u \in 0..Horizon /\ u # 0
      OBVIOUS
    <2>2. best[u] = Entry(best, d, u, setup, holding)
      BY <2>1, Zenon DEF IsBest
    <2>3. Entry(best, d, u, setup, holding) = [cost |-> cost[l], at |-> l]
      BY <1>c, <1>l, <2>1 DEF Entry
    <2> QED
      BY <2>2, <2>3, Zenon
  <1>5. \A j \in 0..(u - 1) : cost[j] = best[j].cost + setup + holding * Carry(d, j, u)
    BY <1>c DEF Costs
  <1>6. best[u].cost = cost[l] /\ best[u].at = l /\ cost[l] \in Nat
    BY <1>2, <1>3, <1>4
  <1> QED
    BY <1>3, <1>5, <1>6 DEF Sound

LEMMA NothingCostsNothing ==
    ASSUME NEW d \in [Bucket -> Nat], NEW setup \in Nat, NEW holding \in Nat,
           NEW best, IsBest(best, d, Horizon, setup, holding)
    PROVE  /\ best[0].cost = 0
           /\ \A q : OrdersIn(q, 0) <=> q = {}
           /\ CostOf({}, d, 0, setup, holding) = 0
  <1>1. 0 \in 0..Horizon
    OBVIOUS
  <1>2. best[0] = Entry(best, d, 0, setup, holding)
    BY <1>1, Zenon DEF IsBest
  <1>e. PICK e : e = Entry(best, d, 0, setup, holding)
    OBVIOUS
  <1>3. e = [cost |-> 0, at |-> 0]
    BY <1>e DEF Entry
  <1>4. best[0] = e
    BY <1>2, <1>e
  <1>5. 0..(0 - 1) = {}
    OBVIOUS
  <1>6. \A q : OrdersIn(q, 0) <=> q = {}
    BY <1>5 DEF OrdersIn
  <1>7. Cardinality({}) = 0 /\ SumFunctionOnSet(Wait({}, d), {}) = 0
    BY FS_EmptySet, SumEmpty
  <1>8. setup * 0 + holding * 0 = 0
    OBVIOUS
  <1>9. CostOf({}, d, 0, setup, holding) = 0
    BY <1>5, <1>7, <1>8 DEF CostOf
  <1> QED
    BY <1>3, <1>4, <1>6, <1>9

LEMMA BestIsLeast ==
    ASSUME NEW d \in [Bucket -> Nat], NEW setup \in Nat, NEW holding \in Nat,
           NEW best, IsBest(best, d, Horizon, setup, holding)
    PROVE  \A u \in 0..Horizon : Sound(best, u) /\ AtLeast(best, d, u, setup, holding)
  <1> DEFINE Fine(u) == Sound(best, u) /\ AtLeast(best, d, u, setup, holding)
             Good == {k \in 0..Horizon : \A u \in 0..k : Fine(u)}
  <1>1. 0 \in Good
    <2>1. \A u \in 0..0 : u = 0
      OBVIOUS
    <2>2. Sound(best, 0)
      BY NothingCostsNothing DEF Sound
    <2>3. AtLeast(best, d, 0, setup, holding)
      <3>1. best[0].cost <= CostOf({}, d, 0, setup, holding)
        BY NothingCostsNothing
      <3>2. \A q : OrdersIn(q, 0) => q = {}
        BY NothingCostsNothing
      <3> QED
        BY <3>1, <3>2, Zenon DEF AtLeast
    <2>4. 0 \in 0..Horizon
      OBVIOUS
    <2> QED
      BY <2>1, <2>2, <2>3, <2>4
  <1>2. ASSUME NEW b \in 1..Horizon, b - 1 \in Good PROVE b \in Good
    <2>1. \A u \in 0..(b - 1) : Fine(u)
      BY <1>2
    <2>2. /\ Sound(best, b)
          /\ \A j \in 0..(b - 1) :
                best[b].cost <= best[j].cost + setup + holding * Carry(d, j, b)
      BY <2>1, BestNext
    <2>3. ASSUME NEW q, OrdersIn(q, b)
          PROVE  best[b].cost <= CostOf(q, d, b, setup, holding)
      <3>1. q \in SUBSET Bucket /\ q # {}
        BY <2>3 DEF OrdersIn, Bucket
      <3>2. PICK j \in q : \A y \in q : y <= j
        BY <3>1, LastOne
      <3>3. /\ OrdersIn(q \ {j}, j) /\ j \in 0..(b - 1)
            /\ CostOf(q \ {j}, d, j, setup, holding) \in Int
            /\ CostOf(q, d, b, setup, holding) =
                 CostOf(q \ {j}, d, j, setup, holding) + setup + holding * Carry(d, j, b)
        <4>1. LastOrder(q, j, b)
          BY <2>3, <3>2 DEF LastOrder
        <4>2. Splits(q, j, d, b, setup, holding)
          BY <4>1, CostSplits
        <4> QED
          BY <4>2 DEF Splits
      <3>4. best[j].cost <= CostOf(q \ {j}, d, j, setup, holding) /\ best[j].cost \in Int
        BY <2>1, <3>3 DEF AtLeast, Sound
      <3>5. best[b].cost <= best[j].cost + setup + holding * Carry(d, j, b)
        BY <2>2, <3>3
      <3>6. holding * Carry(d, j, b) \in Int
        <4>c. PICK c \in Nat : c = Carry(d, j, b)
          BY <3>3, CarryIs
        <4>1. holding * c \in Nat
          BY ProductNat, Zenon
        <4> QED
          BY <4>c, <4>1
      <3>n. PICK x \in Int, z \in Int :
                x = CostOf(q \ {j}, d, j, setup, holding) /\ z = holding * Carry(d, j, b)
        BY <3>3, <3>6
      <3>7. best[b].cost \in Int
        BY <2>2 DEF Sound
      <3>8. best[b].cost <= best[j].cost + setup + z /\ best[j].cost <= x
        BY <3>4, <3>5, <3>n
      <3>9. best[b].cost <= x + setup + z
        BY <3>4, <3>7, <3>8
      <3> QED
        BY <3>3, <3>9, <3>n
    <2>4. Fine(b)
      BY <2>2, <2>3 DEF AtLeast
    <2>5. \A u \in 0..b : u = b \/ u \in 0..(b - 1)
      OBVIOUS
    <2>6. \A u \in 0..b : Fine(u)
      BY <2>1, <2>4, <2>5, Zenon
    <2>7. b \in 0..Horizon
      OBVIOUS
    <2> QED
      BY <2>6, <2>7, Zenon
  <1>3. Horizon \in Good
    <2>1. Inductive(Good, Horizon)
      BY <1>1, <1>2, Zenon DEF Inductive
    <2>2. 0..Horizon \subseteq Good
      BY <2>1, Along
    <2> QED
      BY <2>2
  <1> QED
    BY <1>3

\* The walk back goes through orders that cost what best says.
LEMMA WalkBackAttains ==
    ASSUME NEW d \in [Bucket -> Nat], NEW setup \in Nat, NEW holding \in Nat,
           NEW best, IsBest(best, d, Horizon, setup, holding),
           NEW points, IsWalkBack(points, best, Horizon)
    PROVE  \A u \in 0..Horizon : Attained(best, points, d, u, setup, holding)
  <1> DEFINE Fine(u) == Attained(best, points, d, u, setup, holding)
             Good == {k \in 0..Horizon : \A u \in 0..k : Fine(u)}
  <1>0. \A u \in 0..Horizon : points[u] = IF u = 0 THEN {} ELSE {best[u].at} \cup points[best[u].at]
    BY Zenon DEF IsWalkBack
  <1>1. 0 \in Good
    <2>1. \A u \in 0..0 : u = 0
      OBVIOUS
    <2>2. 0 \in 0..Horizon
      OBVIOUS
    <2>3. points[0] = {}
      BY <1>0, <2>2
    <2>4. Fine(0)
      BY <2>3, NothingCostsNothing DEF Attained
    <2> QED
      BY <2>1, <2>2, <2>4
  <1>2. ASSUME NEW b \in 1..Horizon, b - 1 \in Good PROVE b \in Good
    <2>1. \A u \in 0..(b - 1) : Fine(u)
      BY <1>2
    <2>2. b \in 0..Horizon /\ b # 0 /\ b \in Nat
      OBVIOUS
    <2>3. \A u \in 0..(b - 1) : Sound(best, u)
      BY BestIsLeast
    <2>a. PICK a : a = best[b].at
      OBVIOUS
    <2>4. /\ a \in 0..(b - 1)
          /\ best[b].cost = best[a].cost + setup + holding * Carry(d, a, b)
      <3>1. Sound(best, b)
        BY <2>2, BestIsLeast
      <3>2. best[b].cost =
              best[best[b].at].cost + setup + holding * Carry(d, best[b].at, b)
        BY <2>3, BestNext
      <3> QED
        BY <2>2, <2>a, <3>1, <3>2 DEF Sound
    <2>q. PICK q, r : q = points[b] /\ r = points[a]
      OBVIOUS
    <2>5. q = {a} \cup r
      BY <1>0, <2>2, <2>a, <2>q
    <2>6. OrdersIn(r, a) /\ CostOf(r, d, a, setup, holding) = best[a].cost
      BY <2>1, <2>4, <2>q DEF Attained
    <2>7. r \in SUBSET (0..(a - 1)) /\ a \notin r /\ a \in Nat
      BY <2>4, <2>6 DEF OrdersIn
    <2>8. q \ {a} = r /\ a \in q /\ \A y \in q : y <= a
      BY <2>5, <2>7
    <2>9. OrdersIn(q, b)
      <3>1. q \in SUBSET (0..(b - 1))
        BY <2>4, <2>5, <2>7
      <3>2. 0 \in q
        BY <2>5, <2>6 DEF OrdersIn
      <3> QED
        BY <3>1, <3>2 DEF OrdersIn
    <2>10. CostOf(q, d, b, setup, holding) =
              CostOf(q \ {a}, d, a, setup, holding) + setup + holding * Carry(d, a, b)
      <3>1. LastOrder(q, a, b)
        BY <2>8, <2>9 DEF LastOrder
      <3>2. Splits(q, a, d, b, setup, holding)
        BY <3>1, CostSplits
      <3> QED
        BY <3>2 DEF Splits
    <2>11. Fine(b)
      BY <2>4, <2>6, <2>8, <2>9, <2>10, <2>q DEF Attained
    <2>12. \A u \in 0..b : u = b \/ u \in 0..(b - 1)
      OBVIOUS
    <2>13. \A u \in 0..b : Fine(u)
      BY <2>1, <2>11, <2>12, Zenon
    <2> QED
      BY <2>2, <2>13, Zenon
  <1>3. Horizon \in Good
    <2>1. Inductive(Good, Horizon)
      BY <1>1, <1>2, Zenon DEF Inductive
    <2>2. 0..Horizon \subseteq Good
      BY <2>1, Along
    <2> QED
      BY <2>2
  <1> QED
    BY <1>3

\* So what Wagner-Whitin orders at is orders, and costs no more than any others.
LEMMA OrderPointsAreCheapest ==
    ASSUME NEW d \in [Bucket -> Nat], NEW setup \in Nat, NEW holding \in Nat
    PROVE  /\ OrdersIn(OrderPoints(d, Horizon, setup, holding), Horizon)
           /\ \A q : OrdersIn(q, Horizon) =>
                CostOf(OrderPoints(d, Horizon, setup, holding), d, Horizon, setup, holding)
                   <= CostOf(q, d, Horizon, setup, holding)
  <1>b. PICK best : best = Best(d, Horizon, setup, holding)
    OBVIOUS
  <1>1. IsBest(best, d, Horizon, setup, holding)
    <2>1. d \in [0..(Horizon - 1) -> Nat]
      BY DEF Bucket
    <2> QED
      BY <1>b, <2>1, BestSolves
  <1>2. \A u \in 1..Horizon : best[u].at \in 0..(u - 1)
    <2>1. \A u \in 1..Horizon : u \in 0..Horizon /\ u # 0
      OBVIOUS
    <2> QED
      BY <1>1, <2>1, BestIsLeast DEF Sound
  <1>p. PICK points : points = CHOOSE p : IsWalkBack(p, best, Horizon)
    OBVIOUS
  <1>3. IsWalkBack(points, best, Horizon)
    BY <1>2, <1>p, WalkBackSolves, Zenon
  <1>4. OrderPoints(d, Horizon, setup, holding) = points[Horizon]
    BY <1>b, <1>p DEF OrderPoints, IsWalkBack
  <1>5. Horizon \in 0..Horizon
    OBVIOUS
  <1>6. /\ OrdersIn(points[Horizon], Horizon)
        /\ CostOf(points[Horizon], d, Horizon, setup, holding) = best[Horizon].cost
    BY <1>1, <1>3, <1>5, WalkBackAttains DEF Attained
  <1>7. \A q : OrdersIn(q, Horizon) => best[Horizon].cost <= CostOf(q, d, Horizon, setup, holding)
    BY <1>1, <1>5, BestIsLeast DEF AtLeast
  <1> QED
    BY <1>4, <1>6, <1>7

\* Wagner-Whitin plans a cover: by every bucket as much has been ordered as was asked for.
LEMMA CoverIsComplete ==
    ASSUME NEW d \in [Bucket -> Nat], NEW setup \in Nat, NEW holding \in Nat, NEW b \in Bucket
    PROVE  SumFunctionOnSet(WagnerWhitinLots(d, Horizon, setup, holding), 0..b)
              >= SumFunctionOnSet(d, 0..b)
  <1> PICK points : points = OrderPoints(d, Horizon, setup, holding)
    OBVIOUS
  <1> PICK lots : lots = WagnerWhitinLots(d, Horizon, setup, holding)
    OBVIOUS
  <1>0. 0..b \in SUBSET Bucket
    BY DEF Bucket
  <1>1. CASE \A k \in 0..(Horizon - 1) : d[k] = 0
    <2>1. lots = [k \in 0..(Horizon - 1) |-> 0]
      BY <1>1 DEF WagnerWhitinLots
    <2>2. Agree(lots, d, 0..b) /\ IsFiniteSet(0..b)
      BY <1>0, <1>1, <2>1, BucketsAreFinite DEF Agree, Bucket
    <2>3. SumFunctionOnSet(lots, 0..b) = SumFunctionOnSet(d, 0..b)
      BY <2>2, SumSame
    <2>4. SumFunctionOnSet(d, 0..b) \in Nat
      BY <1>0, SumOver
    <2> QED
      BY <2>3, <2>4
  <1>2. CASE ~(\A k \in 0..(Horizon - 1) : d[k] = 0)
    <2>1. lots = LotsAt(points, d, Horizon)
      BY <1>2 DEF WagnerWhitinLots
    <2>2. points \in SUBSET Bucket /\ 0 \in points
      <3>1. OrdersIn(points, Horizon) /\ Horizon # 0
        BY OrderPointsAreCheapest DEF Bucket
      <3> QED
        BY <3>1 DEF OrdersIn, Bucket
    <2> QED
      BY <2>1, <2>2, LotsCover
  <1> QED
    BY <1>1, <1>2

\* Every unit of f once for every bucket from its own up to m.
Weight(f, m) == [k \in Bucket |-> (m - k) * f[k]]

\* The running totals of f.
Totals(f) == [u \in Bucket |-> UpTo(f, u)]

LEMMA WeightIs ==
    ASSUME NEW f \in [Bucket -> Nat], NEW m \in Int, NEW k \in Bucket
    PROVE  /\ Weight(f, m)[k] = (m - k) * f[k] /\ Weight(f, m)[k] \in Int
           /\ Weight(f, m + 1)[k] = Weight(f, m)[k] + f[k]
           /\ Weight(f, k)[k] = 0
  <1>n. PICK y \in Int : y = f[k]
    OBVIOUS
  <1>x. PICK x \in Int : x = m - k
    BY DEF Bucket
  <1>1. x * y \in Int /\ y * (x + 1) = y * x + y * 1 /\ y * 1 = y /\ 0 * y = 0
    BY Distributes
  <1>2. y * x = x * y /\ y * (x + 1) = (x + 1) * y
    OBVIOUS
  <1>3. (x + 1) * y = x * y + y
    BY <1>1, <1>2
  <1>4. m + 1 - k = x + 1 /\ k - k = 0
    BY <1>x DEF Bucket
  <1>5. /\ Weight(f, m)[k] = x * y
        /\ Weight(f, m + 1)[k] = (x + 1) * y
        /\ Weight(f, k)[k] = 0 * y
    <2>0. \A c : Weight(f, c)[k] = (c - k) * f[k]
      BY DEF Weight
    <2>c. PICK c \in Int : c = m + 1
      OBVIOUS
    <2>1. Weight(f, c)[k] = (c - k) * f[k]
      BY <2>0
    <2> QED
      <3>1. Weight(f, m)[k] = x * y
        BY <1>n, <1>x, <2>0
      <3>2. Weight(f, c)[k] = (x + 1) * y
        <4>1. c - k = x + 1
          BY <1>x, <2>c DEF Bucket
        <4> QED
          BY <1>n, <2>1, <4>1
      <3>3. Weight(f, k)[k] = 0 * y
        BY <1>n, <1>4, <2>0
      <3> QED
        BY <3>1, <3>2, <3>3, <2>c
  <1> QED
    BY <1>n, <1>x, <1>1, <1>3, <1>5

\* A quantity is in the running total of every bucket from its own on.
LEMMA TotalsAdd ==
    ASSUME NEW f \in [Bucket -> Nat]
    PROVE  SumFunctionOnSet(Totals(f), Bucket) = SumFunctionOnSet(Weight(f, Horizon), Bucket)
  <1> DEFINE Fine(m) == SumFunctionOnSet(Totals(f), 0..(m - 1))
                            = SumFunctionOnSet(Weight(f, m), 0..(m - 1))
             Good == {m \in 0..Horizon : Fine(m)}
  <1>0. \A u \in Bucket : Totals(f)[u] = SumFunctionOnSet(f, 0..u) /\ Totals(f)[u] \in Nat
    <2> SUFFICES ASSUME NEW u \in Bucket
                 PROVE  Totals(f)[u] = SumFunctionOnSet(f, 0..u) /\ Totals(f)[u] \in Nat
      OBVIOUS
    <2>1. 0..u \in SUBSET Bucket
      BY DEF Bucket
    <2> QED
      BY <2>1, SumOver DEF Totals, UpTo
  <1>1. 0 \in Good
    <2>1. 0..(0 - 1) = {} /\ 0 \in 0..Horizon
      OBVIOUS
    <2>2. SumFunctionOnSet(Totals(f), {}) = 0 /\ SumFunctionOnSet(Weight(f, 0), {}) = 0
      BY SumEmpty
    <2> QED
      BY <2>1, <2>2
  <1>2. ASSUME NEW b \in 1..Horizon, b - 1 \in Good PROVE b \in Good
    <2>c. PICK c \in Bucket : c = b - 1
      BY DEF Bucket
    <2>s. PICK S, T : S = 0..(b - 1) /\ T = 0..(c - 1)
      OBVIOUS
    <2>1. /\ S \in SUBSET Bucket /\ T \in SUBSET Bucket /\ c \in S /\ S \ {c} = T
          /\ b = c + 1 /\ S = 0..c /\ c \in Int
      BY <2>c, <2>s DEF Bucket
    <2>2. IsFiniteSet(S) /\ IsFiniteSet(T)
      BY <2>1, BucketsAreFinite
    <2>w. PICK U, V, W : U = Totals(f) /\ V = Weight(f, c) /\ W = Weight(f, b)
      OBVIOUS
    <2>3. SumFunctionOnSet(U, T) = SumFunctionOnSet(V, T)
      BY <1>2, <2>c, <2>s, <2>w
    <2>4. IntOn(U, S) /\ IntOn(V, S) /\ IntOn(f, S)
      <3>1. \A k \in S : U[k] \in Int
        BY <1>0, <2>1, <2>w
      <3>2. \A k \in S : V[k] \in Int
        BY <2>1, <2>w, WeightIs
      <3>3. \A k \in S : f[k] \in Int
        BY <2>1
      <3> QED
        BY <3>1, <3>2, <3>3 DEF IntOn
    <2>5. SumFunctionOnSet(U, S) = U[c] + SumFunctionOnSet(U, T)
      BY <2>1, <2>2, <2>4, SumRemove
    <2>6. SumFunctionOnSet(V, S) = V[c] + SumFunctionOnSet(V, T)
      BY <2>1, <2>2, <2>4, SumRemove
    <2>7. V[c] = 0
      BY <2>1, <2>w, WeightIs
    <2>8. \A k \in S : W[k] = V[k] + f[k]
      BY <2>1, <2>w, WeightIs
    <2>9. SumFunctionOnSet(W, S) = SumFunctionOnSet(V, S) + SumFunctionOnSet(f, S)
      BY <2>2, <2>4, <2>8, SumPlus
    <2>10. U[c] = SumFunctionOnSet(f, S) /\ U[c] \in Int
      BY <1>0, <2>1, <2>w
    <2>11. SumFunctionOnSet(V, T) \in Int
      <3>1. IntOn(V, T)
        BY <2>1, <2>4 DEF IntOn
      <3> QED
        BY <2>2, <3>1, SumInt
    <2>12. SumFunctionOnSet(U, S) = SumFunctionOnSet(W, S)
      BY <2>3, <2>5, <2>6, <2>7, <2>9, <2>10, <2>11
    <2>13. Fine(b)
      BY <2>12, <2>s, <2>w
    <2>14. b \in 0..Horizon
      OBVIOUS
    <2> QED
      BY <2>13, <2>14, Zenon
  <1>3. Horizon \in Good
    <2>1. Inductive(Good, Horizon)
      BY <1>1, <1>2, Zenon DEF Inductive
    <2>2. 0..Horizon \subseteq Good
      BY <2>1, Along
    <2>3. Horizon \in 0..Horizon
      OBVIOUS
    <2> QED
      BY <2>2, <2>3, Zenon
  <1>4. Fine(Horizon)
    BY <1>3
  <1> QED
    BY <1>4 DEF Bucket

LEMMA LotsAtTypes ==
    ASSUME NEW q, NEW d \in [Bucket -> Nat]
    PROVE  LotsAt(q, d, Horizon) \in [Bucket -> Nat]
  <1>1. ASSUME NEW j \in Bucket PROVE LotsAt(q, d, Horizon)[j] \in Nat
    <2>1. Run(q, j) \in SUBSET Bucket
      BY DEF Run, Bucket
    <2>2. SumFunctionOnSet(d, Run(q, j)) \in Nat
      BY <2>1, SumOver
    <2>3. LotsAt(q, d, Horizon)[j] = 0 \/ LotsAt(q, d, Horizon)[j] = SumFunctionOnSet(d, Run(q, j))
      BY LotOf
    <2> QED
      BY <2>2, <2>3
  <1>2. DOMAIN LotsAt(q, d, Horizon) = Bucket
    BY DEF LotsAt, Bucket
  <1>3. LotsAt(q, d, Horizon) = [j \in Bucket |-> LotsAt(q, d, Horizon)[j]]
    BY DEF LotsAt, Bucket
  <1>l. PICK lots : lots = LotsAt(q, d, Horizon)
    OBVIOUS
  <1>4. lots = [j \in Bucket |-> lots[j]] /\ \A j \in Bucket : lots[j] \in Nat
    BY <1>1, <1>3, <1>l
  <1> QED
    BY <1>4, <1>l

\* Every unit of a lot weighs what its order does.
LEMMA LotsWeigh ==
    ASSUME NEW q \in SUBSET Bucket, 0 \in q, NEW d \in [Bucket -> Nat], NEW g,
           \A k \in Bucket : g[k] = (Horizon - OrderFor(q, k)) * d[k]
    PROVE  SumFunctionOnSet(Weight(LotsAt(q, d, Horizon), Horizon), Bucket)
              = SumFunctionOnSet(g, Bucket)
  <1>l. PICK lots : lots = LotsAt(q, d, Horizon)
    OBVIOUS
  <1>h. PICK h, group : h = Weight(lots, Horizon) /\ group = [k \in Bucket |-> OrderFor(q, k)]
    OBVIOUS
  <1>0. IsFiniteSet(Bucket)
    BY BucketsAreFinite
  <1>g. \A k \in Bucket : group[k] = OrderFor(q, k) /\ group[k] \in Bucket
    <2>1. \A k \in Bucket : OrderFor(q, k) \in Bucket
      BY OrderForIs
    <2> QED
      BY <1>h, <2>1
  <1>1. IntOn(g, Bucket)
    <2> SUFFICES ASSUME NEW k \in Bucket PROVE g[k] \in Int
      BY DEF IntOn
    <2>n. PICK x \in Int, y \in Int : x = Horizon - OrderFor(q, k) /\ y = d[k]
      BY OrderForIs
    <2>1. x * y \in Int
      BY Distributes
    <2> QED
      BY <2>n, <2>1
  <1>2. ASSUME NEW p \in Bucket
        PROVE  h[p] = SumFunctionOnSet(g, {k \in Bucket : group[k] = p})
    <2>1. lots \in [Bucket -> Nat]
      BY <1>l, LotsAtTypes
    <2>n. PICK c \in Int : c = Horizon - p
      BY DEF Bucket
    <2>2. h[p] = c * lots[p]
      BY <1>h, <2>1, <2>n, WeightIs
    <2>3. CASE p \notin q
      <3>1. {k \in Bucket : group[k] = p} = {}
        BY <1>g, <2>3, OrderForIs
      <3>2. lots[p] = 0
        BY <1>l, <2>3, LotOf
      <3>3. c * 0 = 0
        OBVIOUS
      <3> QED
        BY <2>2, <3>1, <3>2, <3>3, SumEmpty
    <2>4. CASE p \in q
      <3>r. PICK R : R = Run(q, p)
        OBVIOUS
      <3>1. {k \in Bucket : group[k] = p} = R
        <4>1. {k \in Bucket : group[k] = p} = {k \in Bucket : OrderFor(q, k) = p}
          BY <1>g
        <4> QED
          BY <2>4, <3>r, <4>1, RunIs
      <3>2. R \in SUBSET Bucket /\ \A k \in R : OrderFor(q, k) = p
        BY <3>1, <1>g
      <3>3. IsFiniteSet(R) /\ IntOn(d, R)
        BY <3>2, BucketsAreFinite DEF IntOn
      <3>4. \A k \in R : g[k] = c * d[k]
        BY <2>n, <3>2
      <3>5. SumFunctionOnSet(g, R) = c * SumFunctionOnSet(d, R)
        BY <3>3, <3>4, SumScale
      <3>6. lots[p] = SumFunctionOnSet(d, R)
        BY <1>l, <2>4, <3>r, LotOf
      <3> QED
        BY <2>2, <3>1, <3>5, <3>6
    <2> QED
      BY <2>3, <2>4
  <1>3. Grouped(g, Bucket, Bucket, group, h)
    BY <1>0, <1>1, <1>2, <1>g DEF Grouped
  <1>4. SumFunctionOnSet(h, Bucket) = SumFunctionOnSet(g, Bucket)
    BY <1>3, SumOfGroups
  <1> QED
    BY <1>4, <1>h, <1>l

\* What is in stock at the end of the buckets is what every unit waits.
LEMMA StockIsWait ==
    ASSUME NEW q \in SUBSET Bucket, 0 \in q, NEW d \in [Bucket -> Nat], NEW stock,
           \A u \in Bucket : stock[u] = UpTo(LotsAt(q, d, Horizon), u) - UpTo(d, u)
    PROVE  SumFunctionOnSet(stock, Bucket) = SumFunctionOnSet(Wait(q, d), Bucket)
  <1>l. PICK lots : lots = LotsAt(q, d, Horizon)
    OBVIOUS
  <1>t. lots \in [Bucket -> Nat]
    BY <1>l, LotsAtTypes
  <1>g. PICK g, w, wd, ul, ud :
            /\ g = [k \in Bucket |-> (Horizon - OrderFor(q, k)) * d[k]]
            /\ w = Wait(q, d) /\ wd = Weight(d, Horizon)
            /\ ul = Totals(lots) /\ ud = Totals(d)
    OBVIOUS
  <1>0. IsFiniteSet(Bucket)
    BY BucketsAreFinite
  <1>1. ASSUME NEW f \in [Bucket -> Nat], NEW u \in Bucket
        PROVE  UpTo(f, u) \in Nat /\ Totals(f)[u] = UpTo(f, u)
    <2>1. 0..u \in SUBSET Bucket
      BY DEF Bucket
    <2> QED
      BY <2>1, SumOver DEF UpTo, Totals
  <1>2. \A u \in Bucket : ul[u] = stock[u] + ud[u] /\ stock[u] \in Int /\ ud[u] \in Int
    <2> SUFFICES ASSUME NEW u \in Bucket
                 PROVE  ul[u] = stock[u] + ud[u] /\ stock[u] \in Int /\ ud[u] \in Int
      OBVIOUS
    <2>1. ul[u] \in Nat /\ ul[u] = UpTo(lots, u) /\ ud[u] \in Nat /\ ud[u] = UpTo(d, u)
      BY <1>1, <1>t, <1>g
    <2>2. stock[u] = UpTo(lots, u) - UpTo(d, u)
      BY <1>l
    <2> QED
      BY <2>1, <2>2
  <1>3. SumFunctionOnSet(ul, Bucket) = SumFunctionOnSet(stock, Bucket) + SumFunctionOnSet(ud, Bucket)
    <2>1. IntOn(stock, Bucket) /\ IntOn(ud, Bucket)
      BY <1>2 DEF IntOn
    <2> QED
      BY <1>0, <1>2, <2>1, SumPlus
  <1>4. SumFunctionOnSet(ul, Bucket) = SumFunctionOnSet(g, Bucket)
    <2>1. SumFunctionOnSet(ul, Bucket) = SumFunctionOnSet(Weight(lots, Horizon), Bucket)
      BY <1>t, <1>g, TotalsAdd
    <2>2. \A k \in Bucket : g[k] = (Horizon - OrderFor(q, k)) * d[k]
      BY <1>g
    <2>3. SumFunctionOnSet(Weight(lots, Horizon), Bucket) = SumFunctionOnSet(g, Bucket)
      BY <1>l, <2>2, LotsWeigh
    <2> QED
      BY <2>1, <2>3
  <1>5. SumFunctionOnSet(ud, Bucket) = SumFunctionOnSet(wd, Bucket)
    BY <1>g, TotalsAdd
  <1>6. \A k \in Bucket : g[k] = wd[k] + w[k] /\ wd[k] \in Int /\ w[k] \in Int
    <2> SUFFICES ASSUME NEW k \in Bucket
                 PROVE  g[k] = wd[k] + w[k] /\ wd[k] \in Int /\ w[k] \in Int
      OBVIOUS
    <2>n. PICK x \in Int, y \in Int, z \in Int :
              x = Horizon - k /\ y = k - OrderFor(q, k) /\ z = d[k]
      <3>1. k \in Int /\ OrderFor(q, k) \in Int /\ d[k] \in Int
        BY OrderForIs DEF Bucket
      <3> QED
        BY <3>1
    <2>1. z * (x + y) = z * x + z * y /\ z * x \in Int /\ z * y \in Int
      BY Distributes
    <2>2. (x + y) * z = z * (x + y) /\ x * z = z * x /\ y * z = z * y
      OBVIOUS
    <2>3. Horizon - OrderFor(q, k) = x + y
      <3>1. k \in Int /\ OrderFor(q, k) \in Int
        BY OrderForIs DEF Bucket
      <3> QED
        BY <2>n, <3>1
    <2>4. g[k] = (x + y) * z /\ wd[k] = x * z /\ w[k] = y * z
      BY <1>g, <2>n, <2>3 DEF Weight, Wait
    <2> QED
      BY <2>1, <2>2, <2>4
  <1>7. SumFunctionOnSet(g, Bucket) = SumFunctionOnSet(wd, Bucket) + SumFunctionOnSet(w, Bucket)
    <2>1. IntOn(wd, Bucket) /\ IntOn(w, Bucket)
      BY <1>6 DEF IntOn
    <2> QED
      BY <1>0, <1>6, <2>1, SumPlus
  <1>8. /\ SumFunctionOnSet(stock, Bucket) \in Int /\ SumFunctionOnSet(w, Bucket) \in Int
        /\ SumFunctionOnSet(wd, Bucket) \in Int
    <2>1. IntOn(stock, Bucket) /\ IntOn(w, Bucket) /\ IntOn(wd, Bucket)
      BY <1>2, <1>6 DEF IntOn
    <2> QED
      BY <1>0, <2>1, SumInt
  <1> QED
    BY <1>3, <1>4, <1>5, <1>7, <1>8, <1>g

\* What a plan of whole runs really costs.
Placed(q, d) == {k \in Bucket : LotsAt(q, d, Horizon)[k] # 0}

LEMMA PlanCostIs ==
    ASSUME NEW q \in SUBSET Bucket, 0 \in q, NEW d \in [Bucket -> Nat],
           NEW setup \in Nat, NEW holding \in Nat
    PROVE  PlanCost(LotsAt(q, d, Horizon), d, Horizon, setup, holding)
              = setup * Cardinality(Placed(q, d)) + holding * SumFunctionOnSet(Wait(q, d), Bucket)
  <1>l. PICK lots : lots = LotsAt(q, d, Horizon)
    OBVIOUS
  <1>s. PICK stock : stock = [u \in 0..(Horizon - 1) |-> UpTo(lots, u) - UpTo(d, u)]
    OBVIOUS
  <1>1. SumFunction(stock) = SumFunctionOnSet(stock, Bucket)
    <2>1. DOMAIN stock = Bucket
      BY <1>s DEF Bucket
    <2> QED
      BY <2>1 DEF SumFunction
  <1>2. SumFunctionOnSet(stock, Bucket) = SumFunctionOnSet(Wait(q, d), Bucket)
    <2>1. \A u \in Bucket : stock[u] = UpTo(lots, u) - UpTo(d, u)
      BY <1>s DEF Bucket
    <2> QED
      BY <1>l, <2>1, StockIsWait
  <1>3. {k \in 0..(Horizon - 1) : lots[k] # 0} = Placed(q, d)
    BY <1>l DEF Placed, Bucket
  <1> QED
    BY <1>1, <1>2, <1>3, <1>l, <1>s DEF PlanCost

\* An order that covers something is placed.
LEMMA LotHolds ==
    ASSUME NEW q \in SUBSET Bucket, 0 \in q, NEW d \in [Bucket -> Nat], NEW k \in Bucket
    PROVE  LotsAt(q, d, Horizon)[OrderFor(q, k)] >= d[k]
  <1>p. PICK p : p = OrderFor(q, k)
    OBVIOUS
  <1>1. p \in q /\ p \in Bucket
    BY <1>p, OrderForIs
  <1>2. k \in Run(q, p)
    BY <1>1, <1>p, RunIs
  <1>3. Run(q, p) \in SUBSET Bucket
    BY <1>1, RunIs
  <1>4. IsFiniteSet(Run(q, p)) /\ IntOn(d, Run(q, p))
    BY <1>3, BucketsAreFinite DEF IntOn
  <1>5. SumFunctionOnSet(d, Run(q, p)) = d[k] + SumFunctionOnSet(d, Run(q, p) \ {k})
    BY <1>2, <1>4, SumRemove
  <1>6. SumFunctionOnSet(d, Run(q, p) \ {k}) \in Nat
    <2>1. Run(q, p) \ {k} \in SUBSET Bucket
      BY <1>3
    <2> QED
      BY <2>1, SumOver
  <1>7. LotsAt(q, d, Horizon)[p] = SumFunctionOnSet(d, Run(q, p))
    BY <1>1, LotOf
  <1>8. d[k] \in Nat
    OBVIOUS
  <1> QED
    BY <1>5, <1>6, <1>7, <1>8, <1>p

\* Orders for nothing are not placed, and the others cost what they do without them.
LEMMA PlacedCost ==
    ASSUME NEW q \in SUBSET Bucket, 0 \in q, NEW d \in [Bucket -> Nat],
           0 \in Bucket, d[0] # 0, NEW setup \in Nat, NEW holding \in Nat
    PROVE  /\ OrdersIn(Placed(q, d), Horizon) /\ Placed(q, d) \subseteq q
           /\ PlanCost(LotsAt(q, d, Horizon), d, Horizon, setup, holding)
                 = CostOf(Placed(q, d), d, Horizon, setup, holding)
  <1>r. PICK r : r = Placed(q, d)
    OBVIOUS
  <1>1. r \in SUBSET Bucket /\ r \subseteq q
    BY <1>r, LotOf DEF Placed
  <1>2. \A k \in Bucket : d[k] # 0 => OrderFor(q, k) \in r
    <2> SUFFICES ASSUME NEW k \in Bucket, d[k] # 0 PROVE OrderFor(q, k) \in r
      OBVIOUS
    <2>1. OrderFor(q, k) \in Bucket
      BY OrderForIs
    <2>2. LotsAt(q, d, Horizon)[OrderFor(q, k)] >= d[k] /\ d[k] \in Nat
      BY LotHolds
    <2>3. LotsAt(q, d, Horizon)[OrderFor(q, k)] # 0
      BY <2>2
    <2> QED
      BY <1>r, <2>1, <2>3 DEF Placed
  <1>3. 0 \in r
    <2>1. OrderFor(q, 0) \in Nat /\ OrderFor(q, 0) <= 0
      BY OrderForIs
    <2>2. OrderFor(q, 0) = 0
      BY <2>1
    <2> QED
      BY <1>2, <2>2
  <1>4. Agree(Wait(q, d), Wait(r, d), Bucket)
    <2> SUFFICES ASSUME NEW k \in Bucket PROVE Wait(q, d)[k] = Wait(r, d)[k]
      BY DEF Agree
    <2>1. CASE d[k] # 0
      <3>p. PICK p : p = OrderFor(q, k)
        OBVIOUS
      <3>1. p \in r /\ p <= k /\ \A y \in r : y <= k => y <= p
        BY <1>1, <1>2, <2>1, <3>p, OrderForIs
      <3>2. OrderFor(r, k) = p
        BY <1>1, <3>1, OrderForOnly
      <3> QED
        BY <3>2, <3>p DEF Wait
    <2>2. CASE d[k] = 0
      <3>n. PICK x \in Int, y \in Int : x = k - OrderFor(q, k) /\ y = k - OrderFor(r, k)
        <4>1. k \in Int /\ OrderFor(q, k) \in Int /\ OrderFor(r, k) \in Int
          BY <1>1, <1>3, OrderForIs DEF Bucket
        <4> QED
          BY <4>1
      <3>1. x * 0 = 0 /\ y * 0 = 0
        OBVIOUS
      <3>2. Wait(q, d)[k] = x * 0 /\ Wait(r, d)[k] = y * 0
        BY <2>2, <3>n DEF Wait
      <3> QED
        BY <3>1, <3>2
    <2> QED
      BY <2>1, <2>2
  <1>5. SumFunctionOnSet(Wait(q, d), Bucket) = SumFunctionOnSet(Wait(r, d), Bucket)
    BY <1>4, BucketsAreFinite, SumSame
  <1>6. OrdersIn(r, Horizon)
    BY <1>1, <1>3 DEF OrdersIn, Bucket
  <1>7. CostOf(r, d, Horizon, setup, holding)
          = setup * Cardinality(r) + holding * SumFunctionOnSet(Wait(r, d), Bucket)
    BY DEF CostOf, Bucket
  <1>8. PlanCost(LotsAt(q, d, Horizon), d, Horizon, setup, holding)
          = setup * Cardinality(r) + holding * SumFunctionOnSet(Wait(q, d), Bucket)
    BY <1>r, PlanCostIs
  <1> QED
    BY <1>1, <1>5, <1>6, <1>7, <1>8, <1>r

\* An order that is not placed would cost its setup.
LEMMA PlacedCostsLess ==
    ASSUME NEW q, OrdersIn(q, Horizon), NEW d \in [Bucket -> Nat],
           0 \in Bucket, d[0] # 0, NEW setup \in Nat, NEW holding \in Nat
    PROVE  /\ PlanCost(LotsAt(q, d, Horizon), d, Horizon, setup, holding)
                 <= CostOf(q, d, Horizon, setup, holding)
           /\ PlanCost(LotsAt(q, d, Horizon), d, Horizon, setup, holding) \in Int
           /\ CostOf(q, d, Horizon, setup, holding) \in Int
  <1>0. q \in SUBSET Bucket /\ 0 \in q
    BY DEF OrdersIn, Bucket
  <1>1. Placed(q, d) \subseteq q
    BY <1>0, PlacedCost
  <1>2. IsFiniteSet(q)
    BY <1>0, BucketsAreFinite
  <1>3. /\ Cardinality(Placed(q, d)) <= Cardinality(q)
        /\ Cardinality(Placed(q, d)) \in Nat /\ Cardinality(q) \in Nat
    <2>1. IsFiniteSet(Placed(q, d)) /\ Cardinality(Placed(q, d)) <= Cardinality(q)
      BY <1>1, <1>2, FS_Subset
    <2> QED
      BY <1>2, <2>1, FS_CardinalityType
  <1>4. SumFunctionOnSet(Wait(q, d), Bucket) \in Nat
    BY <1>0, WaitIs, SumOver
  <1>n. PICK c \in Nat, e \in Nat, w \in Nat :
            /\ c = Cardinality(Placed(q, d)) /\ e = Cardinality(q)
            /\ w = SumFunctionOnSet(Wait(q, d), Bucket)
    BY <1>3, <1>4
  <1>5. setup * c \in Nat /\ setup * e \in Nat /\ holding * w \in Nat
    BY ProductNat, Zenon
  <1>6. setup * c <= setup * e
    <2>n. PICK y \in Nat : y = e - c
      BY <1>3, <1>n
    <2>1. e = c + y
      BY <2>n
    <2>2. setup * (c + y) = setup * c + setup * y
      BY Distributes
    <2>3. setup * y \in Nat
      BY ProductNat, Zenon
    <2> QED
      BY <1>5, <2>1, <2>2, <2>3
  <1>7. PlanCost(LotsAt(q, d, Horizon), d, Horizon, setup, holding) = setup * c + holding * w
    BY <1>0, <1>n, PlanCostIs
  <1>8. CostOf(q, d, Horizon, setup, holding) = setup * e + holding * w
    BY <1>n DEF CostOf, Bucket
  <1> QED
    BY <1>5, <1>6, <1>7, <1>8

LEMMA CoverOrdersFirst ==
    ASSUME NEW q \in SUBSET Bucket, NEW d \in [Bucket -> Nat], 0 \in Bucket, d[0] # 0,
           Covers(LotsAt(q, d, Horizon), d, Horizon)
    PROVE  0 \in q
  <1>l. PICK lots \in [Bucket -> Nat] : lots = LotsAt(q, d, Horizon)
    BY LotsAtTypes
  <1>1. UpTo(lots, 0) >= UpTo(d, 0)
    <2>1. 0 \in 0..(Horizon - 1)
      BY DEF Bucket
    <2> QED
      BY <1>l, <2>1 DEF Covers
  <1>2. ASSUME NEW f \in [Bucket -> Nat] PROVE UpTo(f, 0) = f[0]
    <2>1. 0..0 = {0} /\ {0} \in SUBSET Bucket
      OBVIOUS
    <2>2. UpTo(f, 0) = SumFunctionOnSet(f, {0})
      BY <2>1, SumOver DEF UpTo
    <2>3. IsFiniteSet({0}) /\ IntOn(f, {0}) /\ {0} \ {0} = {}
      BY <2>1, BucketsAreFinite DEF IntOn
    <2>4. SumFunctionOnSet(f, {0}) = f[0] + SumFunctionOnSet(f, {0} \ {0})
      BY <2>3, SumRemove
    <2>5. SumFunctionOnSet(f, {}) = 0 /\ f[0] \in Nat
      BY SumEmpty
    <2> QED
      BY <2>2, <2>3, <2>4, <2>5
  <1>3. lots[0] >= d[0] /\ d[0] \in Nat
    BY <1>1, <1>2
  <1>4. lots[0] # 0
    BY <1>3
  <1> QED
    BY <1>4, <1>l, LotOf

\* No plan that orders whole runs of buckets and covers what is asked for costs less.
LEMMA WagnerWhitinIsCheapest ==
    ASSUME NEW d \in [Bucket -> Nat], NEW setup \in Nat, NEW holding \in Nat,
           0 \in Bucket, d[0] # 0
    PROVE  PlanCost(WagnerWhitinLots(d, Horizon, setup, holding), d, Horizon, setup, holding)
              = CheapestCost(d, Horizon, setup, holding)
  <1>p. PICK points : points = OrderPoints(d, Horizon, setup, holding)
    OBVIOUS
  <1>c. PICK costs : costs = {PlanCost(LotsAt(p, d, Horizon), d, Horizon, setup, holding) :
                    p \in {q \in SUBSET (0..(Horizon - 1)) : Covers(LotsAt(q, d, Horizon), d, Horizon)}}
    OBVIOUS
  <1>m. PICK m : m = PlanCost(LotsAt(points, d, Horizon), d, Horizon, setup, holding)
    OBVIOUS
  <1>1. WagnerWhitinLots(d, Horizon, setup, holding) = LotsAt(points, d, Horizon)
    <2>1. 0 \in 0..(Horizon - 1)
      BY DEF Bucket
    <2> QED
      BY <1>p, <2>1 DEF WagnerWhitinLots
  <1>2. /\ OrdersIn(points, Horizon)
        /\ \A q : OrdersIn(q, Horizon) =>
             CostOf(points, d, Horizon, setup, holding) <= CostOf(q, d, Horizon, setup, holding)
    BY <1>p, OrderPointsAreCheapest
  <1>3. /\ m <= CostOf(points, d, Horizon, setup, holding) /\ m \in Int
        /\ CostOf(points, d, Horizon, setup, holding) \in Int
    BY <1>2, <1>m, PlacedCostsLess
  <1>4. m \in costs
    <2>1. points \in SUBSET (0..(Horizon - 1)) /\ points \in SUBSET Bucket /\ 0 \in points
      BY <1>2 DEF OrdersIn, Bucket
    <2>2. Covers(LotsAt(points, d, Horizon), d, Horizon)
      <3>1. ASSUME NEW u \in 0..(Horizon - 1)
            PROVE  UpTo(LotsAt(points, d, Horizon), u) >= UpTo(d, u)
        <4>1. u \in Bucket /\ 0..u \in SUBSET Bucket
          BY <2>1 DEF Bucket
        <4>2. UpTo(d, u) = SumFunctionOnSet(d, 0..u)
          BY <4>1, SumOver DEF UpTo
        <4>3. UpTo(LotsAt(points, d, Horizon), u) = SumFunctionOnSet(LotsAt(points, d, Horizon), 0..u)
          BY <4>1, LotsAtTypes, SumOver DEF UpTo
        <4> QED
          BY <2>1, <4>1, <4>2, <4>3, LotsCover
      <3> QED
        BY <3>1 DEF Covers
    <2> QED
      BY <1>c, <1>m, <2>1, <2>2
  <1>5. ASSUME NEW e \in costs PROVE m <= e /\ e \in Int
    <2>1. PICK q \in SUBSET (0..(Horizon - 1)) :
              /\ Covers(LotsAt(q, d, Horizon), d, Horizon)
              /\ e = PlanCost(LotsAt(q, d, Horizon), d, Horizon, setup, holding)
      BY <1>c
    <2>2. q \in SUBSET Bucket
      BY DEF Bucket
    <2>3. 0 \in q
      BY <2>1, <2>2, CoverOrdersFirst
    <2>4. OrdersIn(Placed(q, d), Horizon) /\ e = CostOf(Placed(q, d), d, Horizon, setup, holding)
      BY <2>1, <2>2, <2>3, PlacedCost
    <2>5. CostOf(points, d, Horizon, setup, holding) <= e
      BY <1>2, <2>4
    <2>6. e \in Int
      BY <2>4, PlacedCostsLess
    <2> QED
      BY <1>3, <2>5, <2>6
  <1>6. \A c \in costs : (\A e \in costs : c <= e) => c = m
    <2> SUFFICES ASSUME NEW c \in costs, \A e \in costs : c <= e PROVE c = m
      OBVIOUS
    <2>1. c <= m /\ m <= c /\ c \in Int
      BY <1>4, <1>5
    <2> QED
      BY <1>3, <2>1
  <1>7. (CHOOSE c \in costs : \A e \in costs : c <= e) = m
    BY <1>4, <1>5, <1>6, Zenon
  <1> QED
    BY <1>1, <1>7, <1>c, <1>m DEF CheapestCost

\* A plan over no buckets costs nothing, whatever it is.
LEMMA NothingToPlan ==
    ASSUME NEW lots, NEW d, NEW setup \in Nat, NEW holding \in Nat
    PROVE  PlanCost(lots, d, 0, setup, holding) = CheapestCost(d, 0, setup, holding)
  <1>0. 0..(0 - 1) = {}
    OBVIOUS
  <1>1. ASSUME NEW x PROVE PlanCost(x, d, 0, setup, holding) = 0
    <2>s. PICK stock : stock = [u \in 0..(0 - 1) |-> UpTo(x, u) - UpTo(d, u)]
      OBVIOUS
    <2>1. DOMAIN stock = {}
      BY <1>0, <2>s
    <2>2. SumFunction(stock) = 0
      BY <2>1, SumEmpty DEF SumFunction
    <2>3. {k \in 0..(0 - 1) : x[k] # 0} = {} /\ Cardinality({}) = 0
      BY <1>0, FS_EmptySet
    <2>4. setup * 0 + holding * 0 = 0
      OBVIOUS
    <2>5. PlanCost(x, d, 0, setup, holding)
            = setup * Cardinality({k \in 0..(0 - 1) : x[k] # 0}) + holding * SumFunction(stock)
      BY <2>s DEF PlanCost
    <2> QED
      BY <2>2, <2>3, <2>4, <2>5
  <1>c. PICK costs : costs = {PlanCost(LotsAt(p, d, 0), d, 0, setup, holding) :
                    p \in {q \in SUBSET (0..(0 - 1)) : Covers(LotsAt(q, d, 0), d, 0)}}
    OBVIOUS
  <1>2. costs = {0}
    <2>1. {} \in SUBSET (0..(0 - 1)) /\ Covers(LotsAt({}, d, 0), d, 0)
      BY <1>0 DEF Covers
    <2>2. PlanCost(LotsAt({}, d, 0), d, 0, setup, holding) \in costs
      BY <1>c, <2>1
    <2>3. \A c \in costs : c = 0
      BY <1>1, <1>c
    <2> QED
      BY <1>1, <2>2, <2>3
  <1>3. (CHOOSE c \in costs : \A e \in costs : c <= e) = 0
    BY <1>2
  <1> QED
    BY <1>1, <1>3, <1>c DEF CheapestCost

(***************************************************************************)
(* Netting ahead of Wagner-Whitin.                                         *)
(***************************************************************************)
\* What the engine asks Wagner-Whitin for in bucket b.
ToOrder(b) == IF Firm(b) THEN 0 ELSE net[b]

\* f has the opening balances of the buckets up to n, were exactly what is asked for ordered.
Course(f, n) ==
    /\ f \in [0..Horizon -> Int]
    /\ f[0] = item.onHand
    /\ \A b \in Bucket : b < n =>
          f[b + 1] = f[b] + item.sched[b] + item.firm[b] - item.gross[b] + ToOrder(b)

Kept(f, n) == \A b \in Bucket : b < n /\ ~Firm(b) => f[b + 1] >= item.safety

\* What lots order before bucket n beyond what was asked for.
Before(h, n) == SumFunctionOnSet(h, {c \in Bucket : c < n})
Ahead(lots, n) == Before(lots, n) - Before(Masked, n)

Ordered(lots) ==
    /\ lots \in [Bucket -> Nat]
    /\ \A b \in Bucket : receipts[b] = lots[b] + item.firm[b]
    /\ \A b \in Bucket : Ahead(lots, b + 1) >= 0

\* The projection is the course, and what has been ordered ahead.
Projected(f, lots) ==
    /\ phase = "project" => balance = f[t] + Ahead(lots, t)
    /\ \A b \in Bucket :
          (phase = "project" => b < t) => projected[b] = f[b + 1] + Ahead(lots, b + 1)

WholeInv ==
    WholeHorizon =>
        /\ phase = "net" =>
              /\ \A b \in Bucket : b >= t => net[b] = 0
              /\ \E f : Course(f, t) /\ Kept(f, t) /\ f[t] = balance
        /\ phase = "lots" =>
              /\ t = 0 /\ balance = item.onHand
              /\ \E f : Course(f, Horizon) /\ Kept(f, Horizon)
        /\ phase \in {"project", "offset", "done"} =>
              \E f, lots : /\ Course(f, Horizon) /\ Kept(f, Horizon)
                           /\ Ordered(lots) /\ Projected(f, lots)

LEMMA InitWholeInv == IsItem(item) /\ Fresh => WholeInv
  <1> SUFFICES ASSUME IsItem(item), Fresh PROVE WholeInv
    OBVIOUS
  <1> DEFINE f == [b \in 0..Horizon |-> item.onHand]
  <1>1. Course(f, 0) /\ Kept(f, 0) /\ f[0] = balance
    BY ItemTypes DEF Fresh, Course, Kept, Bucket
  <1> HIDE DEF f
  <1> QED
    BY <1>1 DEF Fresh, WholeInv, Zeros

LEMMA MaskedTypes ==
    ASSUME TypeInv
    PROVE  Masked \in [Bucket -> Nat] /\ \A b \in Bucket : Masked[b] = ToOrder(b)
  BY DEF Masked, ToOrder, TypeInv, TypeOK

LEMMA BeforeNext ==
    ASSUME NEW h \in [Bucket -> Nat], NEW b \in Bucket
    PROVE  /\ Before(h, b + 1) = Before(h, b) + h[b]
           /\ Before(h, b) \in Nat /\ Before(h, 0) = 0
           /\ Before(h, b + 1) = SumFunctionOnSet(h, 0..b)
  <1>b. b \in Nat /\ h[b] \in Nat /\ \A c \in Bucket : c \in Nat
    BY DEF Bucket
  <1>p. PICK S, T : S = {c \in Bucket : c < b + 1} /\ T = {c \in Bucket : c < b}
    OBVIOUS
  <1>1. b \in S /\ S \ {b} = T
    BY <1>p DEF Bucket
  <1>2. S \in SUBSET Bucket /\ T \in SUBSET Bucket
    BY <1>p
  <1>3. IsFiniteSet(S) /\ IntOn(h, S)
    BY <1>2, BucketsAreFinite DEF IntOn
  <1>4. SumFunctionOnSet(h, S) = h[b] + SumFunctionOnSet(h, S \ {b})
    BY <1>1, <1>3, SumRemove
  <1>5. SumFunctionOnSet(h, T) \in Nat
    BY <1>2, SumOver
  <1>6. Before(h, b + 1) = SumFunctionOnSet(h, S) /\ Before(h, b) = SumFunctionOnSet(h, T)
    BY <1>p DEF Before
  <1>7. Before(h, 0) = 0
    <2>1. {c \in Bucket : c < 0} = {}
      BY DEF Bucket
    <2> QED
      BY <2>1, SumEmpty DEF Before
  <1>8. S = 0..b
    BY <1>p DEF Bucket
  <1>9. Before(h, b + 1) = h[b] + Before(h, b)
    BY <1>1, <1>4, <1>6
  <1>10. Before(h, b) \in Nat
    BY <1>5, <1>6
  <1>11. Before(h, b + 1) = Before(h, b) + h[b]
    BY <1>b, <1>9, <1>10
  <1> QED
    BY <1>6, <1>7, <1>8, <1>10, <1>11

\* What one bucket of the netting pass adds to the course.
LEMMA WholeNet ==
    ASSUME TypeInv, WholeInv, WholeHorizon, NetFirm \/ NetShort \/ NetEnough
    PROVE  WholeInv'
  <1>1. /\ phase = "net" /\ phase' = "net" /\ t \in Bucket /\ t' = t + 1
        /\ item' = item
    BY DEF NetFirm, NetShort, NetEnough, Netting, TypeInv, TypeOK, Bucket
  <1>i. /\ item.sched[t] \in Nat /\ item.firm[t] \in Nat /\ item.gross[t] \in Nat
        /\ item.safety \in Nat /\ net \in [Bucket -> Nat] /\ balance \in Int
    BY <1>1, ItemTypes DEF TypeInv, TypeOK
  <1>2. net[t] = 0
    BY <1>1 DEF WholeInv, Bucket
  <1>3. /\ \A b \in Bucket : b # t => net'[b] = net[b]
        /\ balance' \in Int
        /\ balance' = balance + item.sched[t] + item.firm[t] - item.gross[t]
                        + (IF Firm(t) THEN 0 ELSE net'[t])
        /\ ~Firm(t) => balance' >= item.safety
    <2>1. CASE NetFirm
      BY <1>1, <1>i, <2>1 DEF NetFirm, Netting, Opened
    <2>2. CASE NetShort
      BY <1>1, <1>i, <2>2 DEF NetShort, Netting, Opened, Shortfall
    <2>3. CASE NetEnough
      BY <1>1, <1>i, <1>2, <2>3 DEF NetEnough, Netting, Opened, Shortfall
    <2> QED
      BY <2>1, <2>2, <2>3
  <1>4. PICK f : Course(f, t) /\ Kept(f, t) /\ f[t] = balance
    BY <1>1 DEF WholeInv
  <1>t. t \in 0..(Horizon - 1) /\ t \in 0..t /\ 0 \in 0..t
    BY <1>1 DEF Bucket
  <1>f. f \in [0..Horizon -> Int] /\ balance' \in Int
    BY <1>3, <1>4 DEF Course
  <1>5. PICK g \in [0..Horizon -> Int] :
            g[t + 1] = balance' /\ \A b \in 0..t : g[b] = f[b]
    BY <1>1, <1>f, Extended, ZenonT(60)
  <1>6. Course(g, t)'
    <2>1. ASSUME NEW b \in Bucket, b < t + 1
          PROVE  g[b + 1] = g[b] + item.sched[b] + item.firm[b] - item.gross[b]
                              + (IF Firm(b) THEN 0 ELSE net'[b])
      <3>1. CASE b = t
        BY <1>3, <1>4, <1>5, <1>t, <3>1
      <3>2. CASE b # t
        <4>1. b \in 0..t /\ b + 1 \in 0..t /\ b < t
          BY <1>t, <2>1, <3>2 DEF Bucket
        <4>2. f[b + 1] = f[b] + item.sched[b] + item.firm[b] - item.gross[b] + ToOrder(b)
          BY <1>4, <4>1 DEF Course
        <4>3. net'[b] = net[b]
          BY <1>3, <3>2
        <4> QED
          BY <1>5, <4>1, <4>2, <4>3 DEF ToOrder
      <3> QED
        BY <3>1, <3>2
    <2>2. g[0] = item.onHand
      BY <1>4, <1>5, <1>t DEF Course
    <2> QED
      BY <1>1, <1>5, <2>1, <2>2 DEF Course, ToOrder, Firm
  <1>7. Kept(g, t)'
    <2>1. ASSUME NEW b \in Bucket, b < t + 1, ~Firm(b)
          PROVE  g[b + 1] >= item.safety
      <3>1. CASE b = t
        BY <1>3, <1>5, <2>1, <3>1
      <3>2. CASE b # t
        <4>1. b + 1 \in 0..t /\ b < t
          BY <1>t, <2>1, <3>2 DEF Bucket
        <4> QED
          BY <1>4, <1>5, <2>1, <4>1 DEF Kept
      <3> QED
        BY <3>1, <3>2
    <2> QED
      BY <1>1, <2>1 DEF Kept, Firm
  <1>8. \A b \in Bucket : b >= t + 1 => net'[b] = 0
    <2>1. \A b \in Bucket : b >= t + 1 => b # t /\ b >= t
      BY <1>t DEF Bucket
    <2> QED
      BY <1>1, <1>3, <2>1 DEF WholeInv
  <1>9. (g[t] = balance)'
    BY <1>1, <1>5
  <1> QED
    BY <1>1, <1>6, <1>7, <1>8, <1>9 DEF WholeInv

\* The same course, however the plan goes on.
LEMMA SameCourse ==
    ASSUME NEW f, NEW n, Course(f, n), Kept(f, n), item' = item, net' = net
    PROVE  Course(f, n)' /\ Kept(f, n)'
  <1>1. \A b : Firm(b)' = Firm(b) /\ ToOrder(b)' = ToOrder(b)
    BY DEF Firm, ToOrder
  <1> QED
    BY <1>1 DEF Course, Kept

LEMMA WholeChoice ==
    ASSUME TypeInv, WholeInv, WholeHorizon, EndNetting \/ ChooseLots
    PROVE  WholeInv'
  <1>1. CASE EndNetting
    <2>1. /\ phase = "net" /\ phase' = "lots" /\ t = Horizon /\ t' = 0
          /\ item' = item /\ net' = net /\ balance' = item.onHand
      BY <1>1 DEF EndNetting, StartPass
    <2>2. PICK f : Course(f, Horizon) /\ Kept(f, Horizon)
      BY <2>1 DEF WholeInv
    <2>3. Course(f, Horizon)' /\ Kept(f, Horizon)'
      BY <2>1, <2>2, SameCourse
    <2> QED
      BY <2>1, <2>3 DEF WholeInv
  <1>2. CASE ChooseLots
    <2>1. /\ phase = "lots" /\ phase' = "project"
          /\ receipts' = [b \in Bucket |-> Lots[b] + item.firm[b]]
          /\ UNCHANGED <<item, t, balance, net>>
      BY <1>2 DEF ChooseLots
    <2>2. PICK f : Course(f, Horizon) /\ Kept(f, Horizon)
      BY <2>1 DEF WholeInv
    <2>3. t = 0 /\ balance = item.onHand
      BY <2>1 DEF WholeInv
    <2>4. Course(f, Horizon)' /\ Kept(f, Horizon)'
      BY <2>1, <2>2, SameCourse
    <2>m. PICK m \in [Bucket -> Nat] : m = Masked
      BY MaskedTypes
    <2>l. PICK lots : lots = Lots
      OBVIOUS
    <2>5. lots \in [Bucket -> Nat]
      BY <2>m, <2>l, LotsAreQuantities DEF Lots, Bucket
    <2>6. Masked' = m
      BY <2>1, <2>m DEF Masked, Firm
    <2>c. item.lot.setup \in Nat /\ item.lot.holding \in Nat
      BY ItemTypes DEF TypeInv, IsLot, WholeHorizon
    <2>7. ASSUME NEW b \in Bucket
          PROVE  Before(lots, b + 1) - Before(m, b + 1) >= 0
      <3>1. SumFunctionOnSet(lots, 0..b) >= SumFunctionOnSet(m, 0..b)
        BY <2>m, <2>l, <2>c, CoverIsComplete DEF Lots
      <3>2. /\ Before(lots, b + 1) = SumFunctionOnSet(lots, 0..b)
            /\ Before(m, b + 1) = SumFunctionOnSet(m, 0..b)
        BY <2>5, BeforeNext
      <3>3. SumFunctionOnSet(lots, 0..b) \in Nat /\ SumFunctionOnSet(m, 0..b) \in Nat
        <4>1. 0..b \in SUBSET Bucket
          BY DEF Bucket
        <4> QED
          BY <2>5, <4>1, SumOver
      <3> QED
        BY <3>1, <3>2, <3>3
    <2>8. Ordered(lots)'
      BY <2>1, <2>5, <2>6, <2>7, <2>l DEF Ordered, Ahead
    <2>9. Projected(f, lots)'
      <3>1. Before(lots, 0) = 0 /\ Before(m, 0) = 0
        <4>1. {c \in Bucket : c < 0} = {}
          BY DEF Bucket
        <4> QED
          BY <4>1, SumEmpty DEF Before
      <3>2. f[0] = item.onHand /\ item.onHand \in Nat
        BY <2>2, ItemTypes DEF Course, TypeInv
      <3>3. \A b \in Bucket : ~(b < 0)
        BY DEF Bucket
      <3> QED
        BY <2>1, <2>3, <2>6, <3>1, <3>2, <3>3 DEF Projected, Ahead
    <2> QED
      BY <2>1, <2>4, <2>8, <2>9 DEF WholeInv
  <1> QED
    BY <1>1, <1>2

LEMMA WholeProject ==
    ASSUME TypeInv, WholeInv, WholeHorizon, Project
    PROVE  WholeInv'
  <1>1. /\ phase = "project" /\ phase' = "project" /\ t \in Bucket /\ t' = t + 1
        /\ item' = item /\ net' = net /\ receipts' = receipts
        /\ balance' = balance + item.sched[t] + receipts[t] - item.gross[t]
        /\ projected' = [projected EXCEPT ![t] = balance']
    BY DEF Project, TypeInv, TypeOK, Bucket
  <1>2. PICK f, lots : /\ Course(f, Horizon) /\ Kept(f, Horizon)
                       /\ Ordered(lots) /\ Projected(f, lots)
    BY <1>1 DEF WholeInv
  <1>3. Course(f, Horizon)' /\ Kept(f, Horizon)'
    BY <1>1, <1>2, SameCourse
  <1>m. PICK m \in [Bucket -> Nat] : m = Masked
    BY MaskedTypes
  <1>4. Masked' = m /\ lots \in [Bucket -> Nat]
    BY <1>1, <1>2, <1>m DEF Masked, Firm, Ordered
  <1>5. Ordered(lots)'
    BY <1>1, <1>2, <1>4, <1>m DEF Ordered, Ahead
  <1>t. t \in Nat /\ t < Horizon /\ t + 1 \in 0..Horizon /\ t \in 0..Horizon
    BY <1>1 DEF Bucket
  <1>6. balance' = f[t + 1] + (Before(lots, t + 1) - Before(m, t + 1))
    <2>1. f[t + 1] = f[t] + item.sched[t] + item.firm[t] - item.gross[t] + m[t]
      BY <1>1, <1>2, <1>m, <1>t, MaskedTypes DEF Course
    <2>2. balance = f[t] + (Before(lots, t) - Before(m, t))
      BY <1>1, <1>2, <1>m DEF Projected, Ahead
    <2>3. /\ Before(lots, t + 1) = Before(lots, t) + lots[t] /\ Before(lots, t) \in Nat
          /\ Before(m, t + 1) = Before(m, t) + m[t] /\ Before(m, t) \in Nat
      BY <1>1, <1>4, BeforeNext
    <2>4. receipts[t] = lots[t] + item.firm[t]
      BY <1>1, <1>2 DEF Ordered
    <2>5. /\ f[t] \in Int /\ f[t + 1] \in Int /\ lots[t] \in Nat /\ m[t] \in Nat
          /\ item.sched[t] \in Nat /\ item.firm[t] \in Nat /\ item.gross[t] \in Nat
      BY <1>1, <1>2, <1>4, <1>t, ItemTypes DEF Course, TypeInv
    <2> QED
      BY <1>1, <2>1, <2>2, <2>3, <2>4, <2>5
  <1>7. ASSUME NEW b \in Bucket, b < t + 1
        PROVE  projected'[b] = f[b + 1] + (Before(lots, b + 1) - Before(m, b + 1))
    <2>1. CASE b = t
      BY <1>1, <1>6, <2>1 DEF TypeInv, TypeOK
    <2>2. CASE b # t
      <3>1. b < t
        BY <1>7, <1>t, <2>2 DEF Bucket
      <3>2. projected'[b] = projected[b]
        BY <1>1, <2>2 DEF TypeInv, TypeOK
      <3> QED
        BY <1>2, <1>m, <3>1, <3>2 DEF Projected, Ahead
    <2> QED
      BY <2>1, <2>2
  <1>8. Projected(f, lots)'
    BY <1>1, <1>4, <1>6, <1>7 DEF Projected, Ahead
  <1> QED
    BY <1>1, <1>3, <1>5, <1>8 DEF WholeInv

\* From the end of the projection on, nothing the plan consists of changes.
LEMMA WholeSettled ==
    ASSUME TypeInv, WholeInv, WholeHorizon,
           EndProject \/ OffsetNothing \/ OffsetInTime \/ OffsetPastDue \/ EndOffset
    PROVE  WholeInv'
  <1>1. /\ phase \in {"project", "offset"} /\ phase' \in {"offset", "done"}
        /\ phase = "project" => t = Horizon
        /\ item' = item /\ receipts' = receipts /\ net' = net /\ projected' = projected
    BY DEF EndProject, OffsetNothing, OffsetInTime, OffsetPastDue, EndOffset,
           StartPass, Offsetting
  <1>2. PICK f, lots : /\ Course(f, Horizon) /\ Kept(f, Horizon)
                       /\ Ordered(lots) /\ Projected(f, lots)
    BY <1>1 DEF WholeInv
  <1>3. Course(f, Horizon)' /\ Kept(f, Horizon)'
    BY <1>1, <1>2, SameCourse
  <1>4. Masked' = Masked
    BY <1>1 DEF Masked, Firm
  <1>5. Ordered(lots)'
    BY <1>1, <1>2, <1>4 DEF Ordered, Ahead
  <1>6. Projected(f, lots)'
    <2>1. \A b \in Bucket : projected[b] = f[b + 1] + Ahead(lots, b + 1)
      BY <1>1, <1>2 DEF Projected, Bucket
    <2> QED
      BY <1>1, <1>4, <2>1 DEF Projected, Ahead
  <1> QED
    BY <1>1, <1>3, <1>5, <1>6 DEF WholeInv

LEMMA StepWholeInv == TypeInv /\ WholeInv /\ [Next]_vars => WholeInv'
  <1> SUFFICES ASSUME TypeInv, WholeInv, [Next]_vars PROVE WholeInv'
    OBVIOUS
  <1>1. item' = item
    BY DEF Next, vars, NetFirm, NetShort, NetEnough, Netting, EndNetting, StartPass,
           ChooseLots, Project, EndProject, OffsetNothing, OffsetInTime, OffsetPastDue,
           Offsetting, EndOffset
  <1>2. CASE ~WholeHorizon
    BY <1>1, <1>2 DEF WholeInv, WholeHorizon
  <1>3. CASE WholeHorizon /\ UNCHANGED vars
    <2>1. UNCHANGED <<item, phase, t, balance, net, receipts, projected>>
      BY <1>3 DEF vars
    <2>2. Masked' = Masked
      BY <2>1 DEF Masked, Firm
    <2>3. ASSUME NEW f, NEW n, Course(f, n) /\ Kept(f, n)
          PROVE  (Course(f, n) /\ Kept(f, n))'
      BY <2>1, <2>3, SameCourse
    <2>4. ASSUME NEW f, NEW lots, Ordered(lots) /\ Projected(f, lots)
          PROVE  (Ordered(lots) /\ Projected(f, lots))'
      BY <2>1, <2>2, <2>4 DEF Ordered, Projected, Ahead
    <2>5. CASE phase = "net"
      <3>1. PICK f : Course(f, t) /\ Kept(f, t) /\ f[t] = balance
        BY <1>3, <2>5 DEF WholeInv
      <3>2. (Course(f, t) /\ Kept(f, t) /\ f[t] = balance)'
        BY <2>1, <2>3, <3>1
      <3> QED
        BY <1>3, <2>1, <2>5, <3>2 DEF WholeInv
    <2>6. CASE phase = "lots"
      BY <1>3, <2>1, <2>3, <2>6 DEF WholeInv
    <2>7. CASE phase \in {"project", "offset", "done"}
      BY <1>3, <2>1, <2>3, <2>4, <2>7 DEF WholeInv
    <2> QED
      BY <2>1, <2>5, <2>6, <2>7 DEF WholeInv
  <1> QED
    BY <1>2, <1>3, WholeNet, WholeChoice, WholeProject, WholeSettled DEF Next

\* The lots stay what Wagner-Whitin answered.
LotsInv ==
    WholeHorizon /\ phase \in {"project", "offset", "done"} =>
        receipts = [b \in Bucket |-> Lots[b] + item.firm[b]]

LEMMA InitLotsInv == Fresh => LotsInv
  BY DEF Fresh, LotsInv

LEMMA StepLotsInv == LotsInv /\ [Next]_vars => LotsInv'
  <1> SUFFICES ASSUME LotsInv, [Next]_vars PROVE LotsInv'
    OBVIOUS
  <1>1. item' = item
    BY DEF Next, vars, NetFirm, NetShort, NetEnough, Netting, EndNetting, StartPass,
           ChooseLots, Project, EndProject, OffsetNothing, OffsetInTime, OffsetPastDue,
           Offsetting, EndOffset
  <1>2. CASE ChooseLots
    <2>1. net' = net /\ receipts' = [b \in Bucket |-> Lots[b] + item.firm[b]]
      BY <1>2 DEF ChooseLots
    <2>2. Lots' = Lots
      BY <1>1, <2>1 DEF Lots, Masked, Firm
    <2> QED
      BY <1>1, <2>1, <2>2 DEF LotsInv
  <1>3. CASE \/ Project \/ EndProject \/ OffsetNothing \/ OffsetInTime \/ OffsetPastDue
             \/ EndOffset \/ UNCHANGED vars
    <2>1. /\ net' = net /\ receipts' = receipts
          /\ phase' \in {"project", "offset", "done"} => phase \in {"project", "offset", "done"}
      BY <1>3 DEF vars, StartPass, Project, EndProject, OffsetNothing, OffsetInTime,
                  OffsetPastDue, Offsetting, EndOffset
    <2>2. Lots' = Lots
      BY <1>1, <2>1 DEF Lots, Masked, Firm
    <2> QED
      BY <1>1, <2>1, <2>2 DEF LotsInv, WholeHorizon
  <1>4. CASE NetFirm \/ NetShort \/ NetEnough \/ EndNetting
    <2>1. WholeHorizon => phase' \in {"net", "lots"}
      BY <1>4 DEF NetFirm, NetShort, NetEnough, Netting, EndNetting, StartPass
    <2> QED
      BY <1>1, <2>1 DEF LotsInv, WholeHorizon
  <1> QED
    BY <1>2, <1>3, <1>4 DEF Next

LEMMA CheapestLots == TypeInv /\ LotsInv => LotsAreCheapest
  <1> SUFFICES ASSUME TypeInv, LotsInv, Planned, WholeHorizon, \A b \in Bucket : ~Firm(b),
                      net[0] # 0
               PROVE  PlanCost(receipts, net, Horizon, item.lot.setup, item.lot.holding)
                        = CheapestCost(net, Horizon, item.lot.setup, item.lot.holding)
    BY DEF LotsAreCheapest
  <1>1. Masked = net
    <2>1. net \in [Bucket -> Nat]
      BY DEF TypeInv, TypeOK
    <2>2. Masked = [b \in Bucket |-> net[b]]
      BY DEF Masked
    <2> QED
      BY <2>1, <2>2
  <1>2. net \in [Bucket -> Nat]
    BY DEF TypeInv, TypeOK
  <1>3. item.lot.setup \in Nat /\ item.lot.holding \in Nat
    BY ItemTypes DEF TypeInv, IsLot, WholeHorizon
  <1>4. receipts = Lots
    <2>1. Lots \in [Bucket -> Nat]
      BY <1>1, <1>2, LotsAreQuantities DEF Lots, Bucket
    <2>l. PICK lots \in [Bucket -> Nat] : lots = Lots
      BY <2>1
    <2>2. \A b \in Bucket : item.firm[b] = 0
      BY DEF Firm
    <2>3. receipts = [b \in Bucket |-> lots[b] + item.firm[b]]
      BY <2>l DEF LotsInv, Planned
    <2>4. receipts = [b \in Bucket |-> lots[b]]
      BY <2>2, <2>3
    <2> QED
      BY <2>4, <2>l
  <1>5. CASE 0 \in Bucket
    BY <1>1, <1>2, <1>3, <1>4, <1>5, WagnerWhitinIsCheapest DEF Lots
  <1>6. CASE 0 \notin Bucket
    <2>1. Horizon = 0
      BY <1>6 DEF Bucket
    <2> QED
      BY <1>3, <2>1, NothingToPlan
  <1> QED
    BY <1>5, <1>6

\* The plan in the making, under every lot rule.
EnoughInv == PlanInv /\ TypeInv /\ WholeInv

LEMMA JustEnough == EnoughInv => StockIsJustEnough
  <1> SUFFICES ASSUME EnoughInv, Planned, NEW b \in Bucket, ~Firm(b)
               PROVE  /\ projected[b] >= item.safety
                      /\ ~WholeHorizon /\ receipts[b] # 0 =>
                            projected[b] < item.safety + Granularity
    BY DEF StockIsJustEnough
  <1>1. CASE PerBucket
    <2>1. PICK f : Enough(f, Horizon) /\ projected[b] = f[b + 1]
      BY <1>1 DEF EnoughInv, PlanInv, PassInv, ProjectInv, Planned
    <2>2. b < Horizon
      BY DEF Bucket
    <2> QED
      BY <2>1, <2>2 DEF Enough
  <1>2. CASE WholeHorizon
    <2>1. PICK f, lots : /\ Course(f, Horizon) /\ Kept(f, Horizon)
                         /\ Ordered(lots) /\ Projected(f, lots)
      BY <1>2 DEF EnoughInv, WholeInv, Planned
    <2>2. projected[b] = f[b + 1] + Ahead(lots, b + 1)
      BY <2>1 DEF Projected, Planned
    <2>3. f[b + 1] \in Int /\ f[b + 1] >= item.safety /\ b < Horizon
      BY <2>1 DEF Course, Kept, Bucket
    <2>4. Ahead(lots, b + 1) >= 0 /\ Ahead(lots, b + 1) \in Int
      <3>m. PICK m \in [Bucket -> Nat] : m = Masked
        BY MaskedTypes DEF EnoughInv
      <3>1. lots \in [Bucket -> Nat]
        BY <2>1 DEF Ordered
      <3>2. Before(lots, b + 1) \in Int /\ Before(m, b + 1) \in Int
        BY <3>1, BeforeNext
      <3> QED
        BY <2>1, <3>m, <3>2 DEF Ordered, Ahead
    <2>5. item.safety \in Nat
      BY ItemTypes DEF EnoughInv, TypeInv
    <2> QED
      BY <1>2, <2>2, <2>3, <2>4, <2>5
  <1> QED
    BY <1>1, <1>2 DEF PerBucket

LEMMA StepEnoughInv == EnoughInv /\ [Next]_vars => EnoughInv'
  BY StepPlanInv, StepTypeInv, StepWholeInv DEF EnoughInv

\* Every free bucket of the finished plan ends at safety stock or above under every lot
\* rule, and under the three that size lots bucket by bucket a lot placed in one leaves
\* less than a lot too much: over any horizon, whatever the planner fixed.
THEOREM PlansBuyJustEnough == Spec => []StockIsJustEnough
  <1>1. Init => EnoughInv
    BY InitItem, InitPlanInv, InitTypeInv, InitWholeInv DEF EnoughInv
  <1> QED
    BY <1>1, StepEnoughInv, JustEnough, PTL DEF Spec

\* And where Wagner-Whitin chooses the lots for all buckets, the first of which needs
\* something, no plan that orders whole runs of buckets and covers what is needed costs
\* less, in setups and in what is held: over any horizon, demand and costs.
THEOREM LotsAreAlwaysCheapest == Spec => []LotsAreCheapest
  <1>1. Init => TypeInv /\ LotsInv
    BY InitItem, InitTypeInv, InitLotsInv
  <1> QED
    BY <1>1, StepTypeInv, StepLotsInv, CheapestLots, PTL DEF Spec

------------------------------------------------------------------------------
(***************************************************************************)
(* Product structures: what stays as the dataset has it.                   *)
(***************************************************************************)
BomEdge == [parent : Nat, child : Nat, qty : Nat]

PlantInv ==
    /\ Skus \subseteq Nat /\ Skus # {} /\ IsFiniteSet(Skus)
    /\ \A s \in Skus : IsItem(plant.parts[s])
    /\ plant.cost \in [Skus -> Nat]
    /\ plant.bom \in Seq(BomEdge)
    /\ \A s \in DOMAIN plant.setup : plant.setup[s] \in Nat

LotInv == \A s \in DOMAIN costed : IsLot(costed[s])

LEMMA InitPlantInv == ExplodeInit => PlantInv /\ LotInv /\ IsItem(item)
  <1> SUFFICES ASSUME ExplodeInit PROVE PlantInv /\ LotInv /\ IsItem(item)
    OBVIOUS
  <1>1. PICK p \in Plant : \E f \in p.parts, h \in p.shop : plant = [p EXCEPT !.parts = f, !.shop = h]
    BY DEF ExplodeInit
  <1>2. PICK f \in p.parts : \E h \in p.shop : plant = [p EXCEPT !.parts = f, !.shop = h]
    BY <1>1
  <1>3. PICK h \in p.shop : plant = [p EXCEPT !.parts = f, !.shop = h]
    BY <1>2
  <1>4. {"parts", "shop", "cost", "setup", "bom", "costBased"} \subseteq DOMAIN p
    BY PlantAssumption
  <1>5. /\ plant.parts = f /\ plant.cost = p.cost /\ plant.bom = p.bom /\ plant.setup = p.setup
    BY <1>3, <1>4
  <1>6. /\ DOMAIN f \subseteq Nat /\ DOMAIN f # {} /\ IsFiniteSet(DOMAIN f)
        /\ \A s \in DOMAIN f : IsItem(f[s])
        /\ p.cost \in [DOMAIN f -> Nat]
        /\ p.bom \in Seq(BomEdge)
        /\ \A s \in DOMAIN p.setup : p.setup[s] \in Nat
    BY PlantAssumption DEF BomEdge
  <1>7. PlantInv
    BY <1>5, <1>6 DEF PlantInv, Skus
  <1>8. LotInv
    BY DEF ExplodeInit, LotInv
  <1>9. IsItem(item)
    <2>1. (CHOOSE s \in Skus : TRUE) \in Skus
      BY <1>7 DEF PlantInv
    <2> QED
      BY <2>1, <1>7 DEF ExplodeInit, PlantInv
  <1> QED
    BY <1>7, <1>8, <1>9

LEMMA StepPlantInv == PlantInv /\ LotInv /\ [ExplodeNext]_<<vars, explodeVars>> => PlantInv' /\ LotInv'
  <1> SUFFICES ASSUME PlantInv, LotInv, [ExplodeNext]_<<vars, explodeVars>> PROVE PlantInv' /\ LotInv'
    OBVIOUS
  <1>1. plant' = plant
    BY DEF ExplodeNext, explodeVars, AsMaster, PriceLots, RefuseRouting, Pricing,
           RefuseEdge, RelaxEdge, Relaxing, NextRound, RefuseCycle, StartPlanning, PlanItem, HandDown
  <1>2. PlantInv'
    BY <1>1 DEF PlantInv, Skus
  <1>3. costed' = costed \/ PriceLots
    BY DEF ExplodeNext, explodeVars, levelVars, AsMaster, RefuseRouting, Pricing,
           RefuseEdge, RelaxEdge, Relaxing, NextRound, RefuseCycle, StartPlanning, PlanItem, HandDown
  <1>4. CASE costed' = costed
    BY <1>2, <1>4 DEF LotInv
  <1>5. CASE PriceLots
    <2>1. costed' = [s \in {c \in Changeovers : plant.cost[c] > 0} |->
                    [policy |-> "wagner_whitin",
                     setup |-> plant.setup[s], holding |-> plant.cost[s]]]
          /\ Changeovers \subseteq Skus
      BY <1>5 DEF PriceLots
    <2>2. ASSUME NEW s \in Changeovers, plant.cost[s] > 0
          PROVE  plant.setup[s] \in Nat \ {0} /\ plant.cost[s] \in Nat \ {0}
      <3>1. /\ s \in Skus /\ s \in DOMAIN plant.setup /\ plant.setup[s] > 0
        BY <2>1 DEF Changeovers
      <3>2. plant.setup[s] \in Nat /\ plant.cost[s] \in Nat
        BY <3>1 DEF PlantInv
      <3> QED
        BY <2>2, <3>1, <3>2
    <2>3. ASSUME NEW s \in DOMAIN costed' PROVE IsLot(costed'[s])
      <3>1. s \in Changeovers /\ plant.cost[s] > 0
        BY <2>1
      <3> PICK l : l = [policy |-> "wagner_whitin",
                     setup |-> plant.setup[s], holding |-> plant.cost[s]]
        OBVIOUS
      <3>2. costed'[s] = l
        BY <2>1, <3>1
      <3>3. IsLot(l)
        BY <2>2, <3>1 DEF IsLot
      <3> QED
        BY <3>2, <3>3
    <2> QED
      BY <1>2, <2>3 DEF LotInv
  <1> QED
    BY <1>2, <1>3, <1>4, <1>5

\* An item keeps of its part what demand and pricing do not change.
KeepsPart(i, part) ==
    /\ i.onHand = part.onHand /\ i.safety = part.safety
    /\ i.sched = part.sched /\ i.firm = part.firm

\* An item asked for its own and for dependent demand is an item.
LEMMA ItemForIsItem ==
    ASSUME PlantInv, LotInv, NEW s \in Skus, NEW d \in [Bucket -> Nat]
    PROVE  /\ IsItem(ItemFor(s, d))
           /\ \A b \in Bucket : ItemFor(s, d).gross[b] = plant.parts[s].gross[b] + d[b]
           /\ ItemFor(s, d).gross \in [Bucket -> Nat]
           /\ KeepsPart(ItemFor(s, d), plant.parts[s])
  <1> PICK p : p = plant.parts[s]
    OBVIOUS
  <1>1. IsItem(p)
    BY DEF PlantInv
  <1> PICK l : l = LotSizingFor(s)
    OBVIOUS
  <1>2. IsLot(l)
    BY <1>1 DEF LotInv, LotSizingFor, IsItem
  <1> PICK g : g = [b \in Bucket |-> p.gross[b] + d[b]]
    OBVIOUS
  <1>3. g \in [Bucket -> Nat]
    BY <1>1 DEF IsItem
  <1>4. ItemFor(s, d) = [p EXCEPT !.lot = l, !.gross = g]
    BY DEF ItemFor
  <1>5. IsItem([p EXCEPT !.lot = l, !.gross = g]) /\ [p EXCEPT !.lot = l, !.gross = g].gross = g
    BY <1>1, <1>2, <1>3 DEF IsItem
  <1>6. KeepsPart([p EXCEPT !.lot = l, !.gross = g], p)
    BY <1>1 DEF IsItem, KeepsPart
  <1> QED
    BY <1>3, <1>4, <1>5, <1>6

(***************************************************************************)
(* The graph of a BOM.                                                     *)
(***************************************************************************)
Graph(bom, skus) ==
    /\ IsFiniteSet(skus)
    /\ \A i \in DOMAIN bom : bom[i].parent \in skus /\ bom[i].child \in skus

Kids(bom, S) == {bom[i].child : i \in {j \in DOMAIN bom : bom[j].parent \in S}}

\* g tells what is reached from a set, edge by edge.
Reaching(g, bom, from, n) ==
    g = [k \in 0..n |-> IF k = 0 THEN from ELSE g[k - 1] \cup Kids(bom, g[k - 1])]

Reach(bom, from, n) == (CHOOSE g : Reaching(g, bom, from, n))[n]

Grown(g, bom, from, n) ==
    /\ g[0] = from
    /\ \A k \in 1..n : g[k] = g[k - 1] \cup Kids(bom, g[k - 1])

Reaches(bom, skus, from, n) ==
    \E g \in [0..n -> SUBSET skus] : Grown(g, bom, from, n) /\ Reach(bom, from, n) = g[n]

LEMMA KidsKnown ==
    ASSUME NEW bom, NEW skus, Graph(bom, skus), NEW S
    PROVE  Kids(bom, S) \subseteq skus
  BY DEF Graph, Kids

LEMMA ReachExists ==
    ASSUME NEW bom, NEW skus, Graph(bom, skus), NEW from \in SUBSET skus, NEW n \in Nat
    PROVE  Reaches(bom, skus, from, n)
  <1> PICK step : step = [p \in (1..n) \X SUBSET skus |-> p[2] \cup Kids(bom, p[2])]
    OBVIOUS
  <1>1. ASSUME NEW b \in 1..n, NEW x \in SUBSET skus
        PROVE  step[<<b, x>>] = x \cup Kids(bom, x) /\ step[<<b, x>>] \in SUBSET skus
    <2>1. step[<<b, x>>] = x \cup Kids(bom, x)
      OBVIOUS
    <2> QED
      BY <2>1, KidsKnown, Zenon
  <1>2. Stepping(step, n, SUBSET skus)
    BY <1>1, Zenon DEF Stepping
  <1>3. PICK f \in [0..n -> SUBSET skus] : Walks(f, step, from, n)
    BY <1>2, Walk, Zenon
  <1>4. \A k \in 1..n : k - 1 \in 0..n
    OBVIOUS
  <1>5. Grown(f, bom, from, n)
    <2>1. \A k \in 1..n : f[k] = f[k - 1] \cup Kids(bom, f[k - 1])
      <3>1. ASSUME NEW k \in 1..n PROVE f[k] = f[k - 1] \cup Kids(bom, f[k - 1])
        <4>1. f[k - 1] \in SUBSET skus
          BY <1>4
        <4>2. f[k] = step[<<k, f[k - 1]>>]
          BY <1>3, Zenon DEF Walks
        <4> QED
          BY <1>1, <4>1, <4>2, Zenon
      <3> QED
        BY <3>1
    <2> QED
      BY <1>3, <2>1, Zenon DEF Walks, Grown
  <1>6. Reaching(f, bom, from, n)
    <2>1. \A k \in 0..n : f[k] = IF k = 0 THEN from ELSE f[k - 1] \cup Kids(bom, f[k - 1])
      <3>1. \A k \in 0..n : k = 0 \/ k \in 1..n
        OBVIOUS
      <3> QED
        BY <3>1, <1>5, Zenon DEF Grown
    <2> QED
      BY <2>1, Zenon DEF Reaching
  <1> PICK g : g = CHOOSE h : Reaching(h, bom, from, n)
    OBVIOUS
  <1>7. Reaching(g, bom, from, n)
    BY <1>6, Zenon
  <1>8. g = [k \in 0..n |-> IF k = 0 THEN from ELSE g[k - 1] \cup Kids(bom, g[k - 1])]
    BY <1>7, Zenon DEF Reaching
  <1>9. Grown(g, bom, from, n)
    <2>1. \A k \in 0..n : g[k] = IF k = 0 THEN from ELSE g[k - 1] \cup Kids(bom, g[k - 1])
      BY <1>8, Zenon
    <2>2. 0 \in 0..n /\ \A k \in 1..n : k \in 0..n /\ k # 0
      OBVIOUS
    <2> QED
      BY <2>1, <2>2, Zenon DEF Grown
  <1>10. g \in [0..n -> SUBSET skus]
    <2> DEFINE Good == {k \in 0..n : g[k] \in SUBSET skus}
    <2>0. g[0] = from /\ \A k \in 1..n : g[k] = g[k - 1] \cup Kids(bom, g[k - 1])
      BY <1>9, Zenon DEF Grown
    <2>1. 0 \in Good
      <3>1. 0 \in 0..n
        OBVIOUS
      <3> QED
        BY <2>0, <3>1, Zenon
    <2>2. ASSUME NEW b \in 1..n, b - 1 \in Good PROVE b \in Good
      <3>1. g[b] = g[b - 1] \cup Kids(bom, g[b - 1])
        BY <2>0
      <3>2. g[b - 1] \in SUBSET skus /\ b \in 0..n
        BY <2>2
      <3>3. Kids(bom, g[b - 1]) \subseteq skus
        BY KidsKnown, Zenon
      <3> QED
        BY <3>1, <3>2, <3>3
    <2>3. Inductive(Good, n)
      BY <2>1, <2>2, Zenon DEF Inductive
    <2>4. \A k \in 0..n : g[k] \in SUBSET skus
      BY <2>3, Along
    <2> QED
      BY <1>8, <2>4
  <1>11. Reach(bom, from, n) = g[n]
    BY DEF Reach
  <1> QED
    BY <1>9, <1>10, <1>11 DEF Reaches

\* As many steps as there are SKUs reach all that any number would.
LEMMA ReachCloses ==
    ASSUME NEW bom, NEW skus, Graph(bom, skus), NEW from \in SUBSET skus
    PROVE  LET all == Reach(bom, from, Cardinality(skus))
           IN from \subseteq all /\ all \subseteq skus /\ Kids(bom, all) \subseteq all
  <1>0. IsFiniteSet(skus) /\ Cardinality(skus) \in Nat
    BY FS_CardinalityType DEF Graph
  <1> PICK n \in Nat : n = Cardinality(skus)
    BY <1>0
  <1>1. PICK g \in [0..n -> SUBSET skus] : Grown(g, bom, from, n) /\ Reach(bom, from, n) = g[n]
    BY ReachExists DEF Reaches
  <1>2. \A k \in 0..n : IsFiniteSet(g[k]) /\ Cardinality(g[k]) \in Nat /\ Cardinality(g[k]) <= n
    BY <1>0, FS_Subset, FS_CardinalityType
  <1> DEFINE Good == {k \in 0..n : from \subseteq g[k] /\ (Kids(bom, g[k]) \subseteq g[k] \/ Cardinality(g[k]) >= k)}
  <1>3. 0 \in Good
    BY <1>1, <1>2 DEF Grown
  <1>4. ASSUME NEW b \in 1..n, b - 1 \in Good PROVE b \in Good
    <2>1. g[b] = g[b - 1] \cup Kids(bom, g[b - 1]) /\ b - 1 \in 0..n /\ b \in 0..n
      BY <1>1 DEF Grown
    <2>2. CASE Kids(bom, g[b - 1]) \subseteq g[b - 1]
      <3>1. g[b] = g[b - 1]
        BY <2>1, <2>2
      <3> QED
        BY <1>4, <2>1, <2>2, <3>1
    <2>3. CASE ~ Kids(bom, g[b - 1]) \subseteq g[b - 1]
      <3>1. g[b - 1] \subseteq g[b] /\ g[b - 1] # g[b]
        BY <2>1, <2>3
      <3>2. Cardinality(g[b - 1]) < Cardinality(g[b])
        <4>1. /\ IsFiniteSet(g[b]) /\ Cardinality(g[b]) \in Nat
              /\ Cardinality(g[b - 1]) \in Nat
          BY <1>2, <2>1, Zenon
        <4>2. /\ Cardinality(g[b - 1]) <= Cardinality(g[b])
              /\ Cardinality(g[b]) = Cardinality(g[b - 1]) => g[b] = g[b - 1]
          BY <3>1, <4>1, FS_Subset, Zenon
        <4> QED
          BY <3>1, <4>1, <4>2
      <3>3. Cardinality(g[b - 1]) >= b - 1
        BY <1>4, <2>3
      <3>4. Cardinality(g[b]) >= b
        <4>1. Cardinality(g[b]) \in Nat /\ Cardinality(g[b - 1]) \in Nat
          BY <1>2, <2>1, Zenon
        <4> QED
          BY <3>2, <3>3, <4>1
      <3> QED
        BY <1>4, <2>1, <3>1, <3>4
    <2> QED
      BY <2>2, <2>3
  <1>5. n \in Good
    <2>1. Inductive(Good, n)
      BY <1>3, <1>4, Zenon DEF Inductive
    <2>2. 0..n \subseteq Good
      BY <2>1, Along
    <2> QED
      BY <2>2
  <1>6. CASE Cardinality(g[n]) >= n
    <2>1. g[n] = skus
      BY <1>0, <1>2, <1>6, FS_Subset
    <2>2. Kids(bom, g[n]) \subseteq g[n]
      BY <2>1, KidsKnown
    <2> QED
      BY <1>1, <1>5, <2>1, <2>2
  <1>7. CASE Kids(bom, g[n]) \subseteq g[n]
    BY <1>1, <1>5, <1>7
  <1> QED
    BY <1>5, <1>6, <1>7

Loops(bom, skus) == \E s \in skus : s \in Reach(bom, Kids(bom, {s}), Cardinality(skus))

Above(bom, skus, s) == {r \in skus : s \in Reach(bom, Kids(bom, {r}), Cardinality(skus))}

\* Without a loop, a component has more SKUs above it than its parent has.
LEMMA MoreAbove ==
    ASSUME NEW bom, NEW skus, Graph(bom, skus), ~Loops(bom, skus), NEW i \in DOMAIN bom
    PROVE  /\ Cardinality(Above(bom, skus, bom[i].parent)) \in Nat
           /\ Cardinality(Above(bom, skus, bom[i].child)) \in Nat
           /\ Cardinality(Above(bom, skus, bom[i].parent)) + 1
                <= Cardinality(Above(bom, skus, bom[i].child))
  <1> PICK p, c : p = bom[i].parent /\ c = bom[i].child
    OBVIOUS
  <1>1. p \in skus /\ c \in skus /\ IsFiniteSet(skus)
    BY DEF Graph
  <1>2. ASSUME NEW r \in skus
        PROVE  /\ Kids(bom, {r}) \subseteq Reach(bom, Kids(bom, {r}), Cardinality(skus))
               /\ Kids(bom, Reach(bom, Kids(bom, {r}), Cardinality(skus)))
                    \subseteq Reach(bom, Kids(bom, {r}), Cardinality(skus))
    <2>1. Kids(bom, {r}) \in SUBSET skus
      BY KidsKnown
    <2> QED
      BY <2>1, ReachCloses, Zenon
  <1>3. \A S : p \in S => c \in Kids(bom, S)
    BY DEF Kids
  <1>4. p \in Above(bom, skus, c)
    <2>1. c \in Kids(bom, {p})
      BY <1>3
    <2>2. c \in Reach(bom, Kids(bom, {p}), Cardinality(skus))
      BY <1>1, <1>2, <2>1, Zenon
    <2> QED
      BY <1>1, <2>2, Zenon DEF Above
  <1>5. Above(bom, skus, p) \subseteq Above(bom, skus, c)
    <2> SUFFICES ASSUME NEW r \in skus, p \in Reach(bom, Kids(bom, {r}), Cardinality(skus))
                 PROVE  c \in Reach(bom, Kids(bom, {r}), Cardinality(skus))
      BY Zenon DEF Above
    <2>1. c \in Kids(bom, Reach(bom, Kids(bom, {r}), Cardinality(skus)))
      BY <1>3, Zenon
    <2> QED
      BY <1>2, <2>1, Zenon
  <1>6. p \notin Above(bom, skus, p)
    BY <1>1, Zenon DEF Above, Loops
  <1> PICK A, B : A = Above(bom, skus, p) /\ B = Above(bom, skus, c)
    OBVIOUS
  <1>7. A \subseteq skus /\ B \subseteq skus
    BY DEF Above
  <1>8. /\ IsFiniteSet(A) /\ IsFiniteSet(B) /\ Cardinality(A) \in Nat /\ Cardinality(B) \in Nat
    <2>1. IsFiniteSet(A) /\ IsFiniteSet(B)
      BY <1>1, <1>7, FS_Subset, Zenon
    <2> QED
      BY <2>1, FS_CardinalityType, Zenon
  <1>9. Cardinality(A \cup {p}) = Cardinality(A) + 1 /\ A \cup {p} \subseteq B
    <2>1. p \notin A
      BY <1>6
    <2>2. A \cup {p} \subseteq B
      BY <1>4, <1>5
    <2> QED
      BY <1>8, <2>1, <2>2, FS_AddElement
  <1>10. Cardinality(A \cup {p}) <= Cardinality(B)
    BY <1>8, <1>9, FS_Subset, Zenon
  <1> QED
    BY <1>8, <1>9, <1>10

LEMMA FewAbove ==
    ASSUME NEW bom, NEW skus, IsFiniteSet(skus), NEW s
    PROVE  /\ Cardinality(Above(bom, skus, s)) \in Nat
           /\ Cardinality(Above(bom, skus, s)) <= Cardinality(skus)
  <1> PICK A : A = Above(bom, skus, s)
    OBVIOUS
  <1>1. A \in SUBSET skus
    BY DEF Above
  <1>2. IsFiniteSet(A) /\ Cardinality(A) <= Cardinality(skus)
    BY <1>1, FS_Subset, Zenon
  <1>3. Cardinality(A) \in Nat
    BY <1>2, FS_CardinalityType, Zenon
  <1> QED
    BY <1>2, <1>3

\* Codes that rise along every edge leave no room for a loop.
LEMMA RisingCodes ==
    ASSUME NEW bom, NEW skus, Graph(bom, skus), NEW cs \in [skus -> Nat],
           \A i \in DOMAIN bom : cs[bom[i].child] >= cs[bom[i].parent] + 1
    PROVE  ~Loops(bom, skus)
  <1> SUFFICES ASSUME NEW s \in skus, s \in Reach(bom, Kids(bom, {s}), Cardinality(skus))
               PROVE  FALSE
    BY Zenon DEF Loops
  <1>0. Cardinality(skus) \in Nat
    BY FS_CardinalityType DEF Graph
  <1> PICK n \in Nat : n = Cardinality(skus)
    BY <1>0
  <1>1. Kids(bom, {s}) \in SUBSET skus
    BY KidsKnown
  <1> PICK from \in SUBSET skus : from = Kids(bom, {s})
    BY <1>1
  <1>2. PICK g \in [0..n -> SUBSET skus] : Grown(g, bom, from, n) /\ Reach(bom, from, n) = g[n]
    <2>1. Reaches(bom, skus, from, n)
      BY ReachExists, Zenon
    <2> QED
      BY <2>1, Zenon DEF Reaches
  <1>3. /\ g[0] = from
        /\ \A k \in 1..n : g[k] = g[k - 1] \cup Kids(bom, g[k - 1])
    BY <1>2, Zenon DEF Grown
  <1> DEFINE High == {r \in skus : cs[r] >= cs[s] + 1}
  <1>4. ASSUME NEW S \in SUBSET skus, \A r \in S : cs[r] >= cs[s]
        PROVE  Kids(bom, S) \subseteq High
    <2> SUFFICES ASSUME NEW i \in DOMAIN bom, bom[i].parent \in S
                 PROVE  bom[i].child \in High
      BY DEF Kids
    <2> PICK p, c : p = bom[i].parent /\ c = bom[i].child
      OBVIOUS
    <2>1. p \in skus /\ c \in skus /\ p \in S
      BY DEF Graph
    <2>2. cs[p] \in Nat /\ cs[c] \in Nat /\ cs[s] \in Nat /\ cs[c] >= cs[p] + 1 /\ cs[p] >= cs[s]
      BY <1>4, <2>1
    <2>3. cs[c] >= cs[s] + 1
      BY <2>2
    <2> QED
      BY <2>1, <2>3
  <1> DEFINE Good == {k \in 0..n : g[k] \subseteq High}
  <1>5. 0 \in Good
    <2>1. Kids(bom, {s}) \subseteq High
      <3>1. \A r \in {s} : cs[r] >= cs[s]
        OBVIOUS
      <3> QED
        BY <1>4, <3>1, Zenon
    <2>2. 0 \in 0..n /\ g[0] \subseteq High
      <3>1. 0 \in 0..n
        OBVIOUS
      <3> QED
        BY <1>3, <2>1, <3>1, Zenon
    <2> QED
      BY <2>2, Zenon
  <1>6. ASSUME NEW b \in 1..n, b - 1 \in Good PROVE b \in Good
    <2>1. g[b] = g[b - 1] \cup Kids(bom, g[b - 1]) /\ g[b - 1] \in SUBSET skus /\ b \in 0..n
      BY <1>3, <1>6
    <2>2. \A r \in g[b - 1] : cs[r] >= cs[s]
      <3> SUFFICES ASSUME NEW r \in g[b - 1] PROVE cs[r] >= cs[s]
        OBVIOUS
      <3>1. r \in skus /\ cs[r] >= cs[s] + 1
        BY <1>6
      <3>2. cs[r] \in Nat /\ cs[s] \in Nat
        BY <3>1
      <3> QED
        BY <3>1, <3>2
    <2>3. Kids(bom, g[b - 1]) \subseteq High
      BY <1>4, <2>1, <2>2, Zenon
    <2> QED
      BY <1>6, <2>1, <2>3
  <1>7. n \in Good
    <2>1. Inductive(Good, n)
      BY <1>5, <1>6, Zenon DEF Inductive
    <2>2. 0..n \subseteq Good
      BY <2>1, Along
    <2> QED
      BY <2>2
  <1>8. s \in High
    BY <1>2, <1>7
  <1>9. cs[s] \in Nat /\ cs[s] >= cs[s] + 1
    BY <1>8
  <1> QED
    BY <1>9

\* Codes that stay below the number of SKUs above: none exceeds the number of SKUs.
Bounded(cs, bom, skus) ==
    Graph(bom, skus) /\ ~Loops(bom, skus) =>
        \A s \in skus : cs[s] <= Cardinality(Above(bom, skus, s))

(***************************************************************************)
(* Relaxing the edges.                                                     *)
(***************************************************************************)
\* An edge whose component is not yet below its parent.
Slack(bom, skus, cs, i) ==
    /\ bom[i].parent \in skus /\ bom[i].child \in skus
    /\ cs[bom[i].child] < cs[bom[i].parent] + 1

\* In round r, before edge e: the edges behind are known and, unless something
\* changed, settled; what is not has a parent raised since the edge was relaxed.
Walked(bom, skus, cs, e, chg, r) ==
    /\ \A i \in DOMAIN bom : i < e => bom[i].parent \in skus /\ bom[i].child \in skus
    /\ \A i \in DOMAIN bom : Slack(bom, skus, cs, i) =>
          /\ cs[bom[i].parent] >= r - 1
          /\ i < e => chg /\ cs[bom[i].parent] >= r
    /\ chg => \E s \in skus : cs[s] >= r

LEMMA RelaxSettled ==
    ASSUME NEW bom \in Seq(BomEdge), NEW skus, NEW cs \in [skus -> Nat], NEW e \in DOMAIN bom,
           NEW chg \in BOOLEAN, NEW r \in Nat, Walked(bom, skus, cs, e, chg, r),
           bom[e].parent \in skus, bom[e].child \in skus, ~Slack(bom, skus, cs, e)
    PROVE  Walked(bom, skus, cs, e + 1, chg, r)
  <1>1. \A i \in DOMAIN bom : i < e + 1 => i < e \/ i = e
    BY LenProperties
  <1> QED
    BY <1>1 DEF Walked

\* The codes n are cs after edge e, which was slack, has been relaxed.
Lowers(bom, skus, cs, n, e, r) ==
    /\ bom \in Seq(BomEdge) /\ e \in DOMAIN bom /\ cs \in [skus -> Nat] /\ r \in Nat
    /\ Slack(bom, skus, cs, e)
    /\ n = [cs EXCEPT ![bom[e].child] = cs[bom[e].parent] + 1]

LEMMA RelaxSlack ==
    ASSUME NEW bom, NEW skus, NEW cs, NEW e, NEW chg, NEW r, NEW n,
           Lowers(bom, skus, cs, n, e, r), Walked(bom, skus, cs, e, chg, r)
    PROVE  /\ n \in [skus -> Nat]
           /\ Walked(bom, skus, n, e + 1, TRUE, r)
           /\ Bounded(cs, bom, skus) => Bounded(n, bom, skus)
  <1>0. /\ bom \in Seq(BomEdge) /\ e \in DOMAIN bom /\ cs \in [skus -> Nat] /\ r \in Nat
        /\ Slack(bom, skus, cs, e)
        /\ n = [cs EXCEPT ![bom[e].child] = cs[bom[e].parent] + 1]
    BY DEF Lowers
  <1> PICK p, c : p = bom[e].parent /\ c = bom[e].child
    OBVIOUS
  <1>1. p \in skus /\ c \in skus /\ cs[p] \in Nat /\ cs[c] \in Nat /\ cs[c] < cs[p] + 1
    BY <1>0 DEF Slack
  <1>2. n \in [skus -> Nat] /\ n[c] = cs[p] + 1 /\ \A s \in skus : s # c => n[s] = cs[s]
    BY <1>0, <1>1
  <1>3. \A s \in skus : cs[s] \in Nat /\ n[s] \in Nat /\ n[s] >= cs[s]
    BY <1>1, <1>2
  <1>4. cs[p] >= r - 1
    BY <1>0 DEF Walked
  <1>5. n[c] >= r
    BY <1>0, <1>1, <1>2, <1>4
  <1>6. \A i \in DOMAIN bom : i < e + 1 => i < e \/ i = e
    BY <1>0, LenProperties
  <1>7. ASSUME NEW i \in DOMAIN bom, Slack(bom, skus, n, i)
        PROVE  n[bom[i].parent] >= r - 1 /\ (i < e + 1 => n[bom[i].parent] >= r)
    <2> PICK q, d : q = bom[i].parent /\ d = bom[i].child
      OBVIOUS
    <2>1. q \in skus /\ d \in skus /\ n[d] < n[q] + 1
      BY <1>7 DEF Slack
    <2>2. CASE q = c
      BY <1>0, <1>3, <1>5, <2>1, <2>2
    <2>3. CASE q # c
      <3>1. n[q] = cs[q] /\ cs[d] < cs[q] + 1
        BY <1>2, <1>3, <2>1, <2>3
      <3>2. Slack(bom, skus, cs, i)
        BY <2>1, <3>1 DEF Slack
      <3>3. cs[q] >= r - 1 /\ (i < e => cs[q] >= r)
        BY <3>2 DEF Walked
      <3>4. i # e
        <4>1. ASSUME i = e PROVE n[d] = n[q] + 1
          BY <1>2, <3>1, <4>1
        <4> QED
          BY <1>3, <2>1, <4>1
      <3> QED
        BY <1>6, <3>1, <3>3, <3>4
    <2> QED
      BY <2>2, <2>3
  <1>8. Walked(bom, skus, n, e + 1, TRUE, r)
    <2>1. \A i \in DOMAIN bom : i < e + 1 => bom[i].parent \in skus /\ bom[i].child \in skus
      BY <1>1, <1>6 DEF Walked
    <2>2. \E s \in skus : n[s] >= r
      BY <1>1, <1>5
    <2> QED
      BY <1>7, <2>1, <2>2 DEF Walked
  <1>9. ASSUME Bounded(cs, bom, skus) PROVE Bounded(n, bom, skus)
    <2> SUFFICES ASSUME Graph(bom, skus), ~Loops(bom, skus), NEW s \in skus
                 PROVE  n[s] <= Cardinality(Above(bom, skus, s))
      BY Zenon DEF Bounded
    <2>1. cs[s] <= Cardinality(Above(bom, skus, s)) /\ cs[p] <= Cardinality(Above(bom, skus, p))
      BY <1>1, <1>9, Zenon DEF Bounded
    <2>2. CASE s # c
      BY <1>2, <2>1, <2>2
    <2>3. CASE s = c
      <3>1. /\ Cardinality(Above(bom, skus, p)) \in Nat
            /\ Cardinality(Above(bom, skus, c)) \in Nat
            /\ Cardinality(Above(bom, skus, p)) + 1 <= Cardinality(Above(bom, skus, c))
        BY <1>0, MoreAbove, Zenon
      <3>2. n[s] = cs[p] + 1
        BY <1>2, <2>3
      <3> QED
        BY <1>1, <2>1, <2>3, <3>1, <3>2
    <2> QED
      BY <2>2, <2>3
  <1> QED
    BY <1>2, <1>8, <1>9

\* A round that changed something is followed by one that looks again.
LEMMA LookAgain ==
    ASSUME NEW bom \in Seq(BomEdge), NEW skus, NEW cs \in [skus -> Nat],
           NEW chg \in BOOLEAN, NEW r \in Nat, Walked(bom, skus, cs, Len(bom) + 1, chg, r)
    PROVE  Walked(bom, skus, cs, 1, FALSE, r + 1)
  <1>1. \A i \in DOMAIN bom : i < Len(bom) + 1 /\ ~(i < 1)
    BY LenProperties
  <1>2. r + 1 - 1 = r
    OBVIOUS
  <1> QED
    BY <1>1, <1>2 DEF Walked

LevelTypes ==
    /\ stage \in {"costs", "uncosted", "levels", "unknown_sku", "cycle", "plan", "planned"}
    /\ codes \in [Skus -> Nat]
    /\ edge \in 1..(Len(plant.bom) + 1) /\ round \in Nat /\ changed \in BOOLEAN
    /\ stage \in {"cycle", "plan", "planned"} => edge = Len(plant.bom) + 1
    /\ stage \in {"plan", "planned"} => ~changed
    /\ stage = "cycle" => changed /\ round >= Rounds
    /\ stage = "unknown_sku" => \E i \in Edges : ~Known(i)

LevelInv ==
    /\ LevelTypes
    /\ Walked(plant.bom, Skus, codes, edge, changed, round)
    /\ Bounded(codes, plant.bom, Skus)

LEMMA InitLevelInv == PlantInv /\ ExplodeInit => LevelInv
  <1> SUFFICES ASSUME PlantInv, ExplodeInit PROVE LevelInv
    OBVIOUS
  <1> PICK bom \in Seq(BomEdge) : bom = plant.bom
    BY DEF PlantInv
  <1> PICK skus, cs : skus = Skus /\ cs = codes
    OBVIOUS
  <1>1. /\ stage = "costs" /\ edge = 1 /\ round = 1 /\ changed = FALSE
        /\ cs = [s \in skus |-> 0] /\ IsFiniteSet(skus) /\ Len(bom) \in Nat
    BY LenProperties DEF ExplodeInit, PlantInv
  <1>2. LevelTypes
    <2>1. codes \in [Skus -> Nat]
      BY <1>1
    <2>2. edge \in 1..(Len(plant.bom) + 1)
      BY <1>1
    <2> QED
      BY <1>1, <2>1, <2>2 DEF LevelTypes
  <1>3. Walked(bom, skus, cs, 1, FALSE, 1)
    <2>1. \A i \in DOMAIN bom : ~(i < 1)
      BY LenProperties
    <2>2. \A i \in DOMAIN bom : bom[i].parent \in skus => cs[bom[i].parent] >= 1 - 1
      BY <1>1
    <2> QED
      BY <2>1, <2>2 DEF Walked, Slack
  <1>4. Bounded(cs, bom, skus)
    <2>1. ASSUME NEW s \in skus PROVE cs[s] <= Cardinality(Above(bom, skus, s))
      <3>1. Cardinality(Above(bom, skus, s)) \in Nat
        BY <1>1, FewAbove, Zenon
      <3> QED
        BY <1>1, <3>1
    <2> QED
      BY <2>1, Zenon DEF Bounded
  <1> QED
    BY <1>1, <1>2, <1>3, <1>4 DEF LevelInv

LEMMA RelaxStep ==
    ASSUME PlantInv, LevelInv, RelaxEdge
    PROVE  LevelInv'
  <1> PICK bom \in Seq(BomEdge) : bom = plant.bom
    BY DEF PlantInv
  <1> PICK skus, cs : skus = Skus /\ cs = codes
    OBVIOUS
  <1>1. /\ cs \in [skus -> Nat] /\ edge \in Int /\ edge \in 1..(Len(bom) + 1)
        /\ round \in Nat /\ changed \in BOOLEAN
        /\ Len(bom) \in Nat /\ DOMAIN bom = 1..Len(bom)
    BY LenProperties DEF LevelInv, LevelTypes
  <1>2. /\ stage = "levels" /\ edge <= Len(bom) /\ bom[edge].parent \in skus
        /\ bom[edge].child \in skus
        /\ edge' = edge + 1 /\ UNCHANGED <<plant, stage, round>>
    BY DEF RelaxEdge, Relaxing, Known, Parent, Child
  <1>3. PICK e \in DOMAIN bom : e = edge
    BY <1>1, <1>2
  <1>4. edge' \in 1..(Len(bom) + 1) /\ Skus' = skus /\ plant' = plant
    BY <1>1, <1>2 DEF Skus
  <1>5. Walked(bom, skus, cs, e, changed, round) /\ Bounded(cs, bom, skus)
    BY <1>3 DEF LevelInv
  <1>6. Below(edge) <=> Slack(bom, skus, cs, e)
    BY <1>2, <1>3 DEF Below, Slack, Parent, Child
  <1>7. CASE ~Slack(bom, skus, cs, e)
    <2>1. codes' = cs /\ changed' = changed
      BY <1>1, <1>6, <1>7 DEF RelaxEdge
    <2>2. Walked(bom, skus, cs, e + 1, changed, round)
      BY <1>1, <1>2, <1>3, <1>5, <1>7, RelaxSettled
    <2>3. LevelTypes'
      BY <1>1, <1>2, <1>4, <2>1 DEF LevelTypes
    <2> QED
      BY <1>2, <1>3, <1>4, <1>5, <2>1, <2>2, <2>3 DEF LevelInv
  <1>8. CASE Slack(bom, skus, cs, e)
    <2>1. PICK n : n = [cs EXCEPT ![bom[e].child] = cs[bom[e].parent] + 1]
      OBVIOUS
    <2>2. codes' = n /\ changed' = TRUE /\ Lowers(bom, skus, cs, n, e, round)
      <3>1. codes' = n /\ changed' = TRUE
        BY <1>1, <1>3, <1>6, <1>8, <2>1 DEF RelaxEdge, Parent, Child
      <3>2. Lowers(bom, skus, cs, n, e, round)
        BY <1>1, <1>8, <2>1 DEF Lowers
      <3> QED
        BY <3>1, <3>2
    <2>4. Walked(bom, skus, n, e + 1, TRUE, round) /\ Bounded(n, bom, skus) /\ n \in [skus -> Nat]
      BY <1>5, <2>2, RelaxSlack, Zenon
    <2>3. LevelTypes'
      BY <1>1, <1>2, <1>4, <2>2, <2>4 DEF LevelTypes
    <2> QED
      BY <1>2, <1>3, <1>4, <2>2, <2>3, <2>4 DEF LevelInv
  <1> QED
    BY <1>7, <1>8

LEMMA NextRoundStep ==
    ASSUME PlantInv, LevelInv, NextRound
    PROVE  LevelInv'
  <1> PICK bom \in Seq(BomEdge) : bom = plant.bom
    BY DEF PlantInv
  <1> PICK skus, cs : skus = Skus /\ cs = codes
    OBVIOUS
  <1>1. /\ stage = "levels" /\ edge = Len(bom) + 1 /\ round' = round + 1 /\ edge' = 1
        /\ changed' = FALSE /\ codes' = cs /\ UNCHANGED <<plant, stage>>
    BY DEF NextRound, RoundOver
  <1>2. cs \in [skus -> Nat] /\ round \in Nat /\ changed \in BOOLEAN /\ Len(bom) \in Nat
    BY LenProperties DEF LevelInv, LevelTypes
  <1>3. Skus' = skus /\ 1 \in 1..(Len(bom) + 1) /\ round + 1 \in Nat
    BY <1>1, <1>2 DEF Skus
  <1>4. Walked(bom, skus, cs, 1, FALSE, round + 1)
    BY <1>1, <1>2, LookAgain DEF LevelInv
  <1>5. LevelTypes'
    BY <1>1, <1>2, <1>3 DEF LevelTypes
  <1> QED
    BY <1>1, <1>3, <1>4, <1>5 DEF LevelInv

LEMMA StepLevelInv ==
    PlantInv /\ LevelInv /\ [ExplodeNext]_<<vars, explodeVars>> => LevelInv'
  <1> SUFFICES ASSUME PlantInv, LevelInv, [ExplodeNext]_<<vars, explodeVars>> PROVE LevelInv'
    OBVIOUS
  <1>1. CASE RelaxEdge
    BY <1>1, RelaxStep
  <1>2. CASE NextRound
    BY <1>2, NextRoundStep
  <1> DEFINE Still == UNCHANGED <<plant, codes, edge, round, changed>>
  <1>3. ASSUME Still, LevelTypes' PROVE LevelInv'
    BY <1>3 DEF LevelInv, Skus
  <1>4. CASE AsMaster \/ PriceLots \/ RefuseRouting
    <2>1. Still /\ stage' \in {"levels", "uncosted"}
      BY <1>4 DEF AsMaster, PriceLots, RefuseRouting, Pricing
    <2>2. LevelTypes'
      BY <2>1 DEF LevelInv, LevelTypes, Skus
    <2> QED
      BY <1>3, <2>1, <2>2
  <1>5. CASE RefuseEdge
    <2>1. Still /\ stage' = "unknown_sku" /\ ~Known(edge) /\ edge <= Len(plant.bom)
      BY <1>5 DEF RefuseEdge, Relaxing, levelVars
    <2>2. edge \in Edges
      BY <2>1, LenProperties DEF LevelInv, LevelTypes, Edges, PlantInv
    <2> PICK e : e = edge
      OBVIOUS
    <2>3. e \in Edges' /\ ~Known(e)'
      BY <2>1, <2>2 DEF Edges, Known, Parent, Child, Skus
    <2>4. (\E i \in Edges : ~Known(i))'
      BY <2>3
    <2>5. LevelTypes'
      BY <2>1, <2>4 DEF LevelInv, LevelTypes, Skus
    <2> QED
      BY <1>3, <2>1, <2>5
  <1>6. CASE RefuseCycle
    <2>1. Still /\ stage' = "cycle" /\ changed /\ round >= Rounds /\ edge = Len(plant.bom) + 1
      BY <1>6 DEF RefuseCycle, RoundOver, levelVars
    <2>2. LevelTypes'
      BY <2>1 DEF LevelInv, LevelTypes, Skus, Rounds
    <2> QED
      BY <1>3, <2>1, <2>2
  <1>7. CASE StartPlanning
    <2>1. Still /\ stage' = "plan" /\ ~changed /\ edge = Len(plant.bom) + 1
      BY <1>7 DEF StartPlanning, RoundOver, levelVars
    <2>2. LevelTypes'
      BY <2>1 DEF LevelInv, LevelTypes, Skus
    <2> QED
      BY <1>3, <2>1, <2>2
  <1>8. CASE PlanItem \/ HandDown \/ UNCHANGED <<vars, explodeVars>>
    <2>1. /\ Still
          /\ stage' = stage \/ (stage = "plan" /\ stage' = "planned")
      BY <1>8 DEF PlanItem, HandDown, levelVars, explodeVars
    <2>2. LevelTypes'
      BY <2>1 DEF LevelInv, LevelTypes, Skus, Rounds, Edges, Known, Parent, Child
    <2> QED
      BY <1>3, <2>1, <2>2
  <1> QED
    BY <1>1, <1>2, <1>4, <1>5, <1>6, <1>7, <1>8 DEF ExplodeNext

LEMMA ReachedIs ==
    ASSUME NEW from, NEW n
    PROVE  Reached(from, n) = Reach(plant.bom, from, n)
  BY DEF Reached, Reach, Reaching, Kids, Child, Parent, Edges

LEMMA CyclicIs == Cyclic <=> Loops(plant.bom, Skus)
  <1> PICK bom : bom = plant.bom
    OBVIOUS
  <1>1. ASSUME NEW s PROVE {Child(i) : i \in {j \in Edges : Parent(j) = s}} = Kids(bom, {s})
    <2>1. {j \in Edges : Parent(j) = s} = {j \in DOMAIN bom : bom[j].parent \in {s}}
      BY DEF Edges, Parent
    <2> QED
      BY <2>1 DEF Kids, Child
  <1>2. ASSUME NEW s
        PROVE  Reached({Child(i) : i \in {j \in Edges : Parent(j) = s}}, Cardinality(Skus))
                 = Reach(bom, Kids(bom, {s}), Cardinality(Skus))
    BY <1>1, ReachedIs
  <1> QED
    BY <1>2 DEF Cyclic, Loops

LEMMA RefusalsHaveCause == PlantInv /\ LevelInv => RefusedForCause
  <1> SUFFICES ASSUME PlantInv, LevelInv PROVE RefusedForCause
    OBVIOUS
  <1> PICK bom \in Seq(BomEdge) : bom = plant.bom
    BY DEF PlantInv
  <1> PICK skus, cs : skus = Skus /\ cs = codes
    OBVIOUS
  <1>1. /\ IsFiniteSet(skus) /\ Cardinality(skus) \in Nat /\ cs \in [skus -> Nat]
        /\ Len(bom) \in Nat /\ DOMAIN bom = 1..Len(bom)
    BY LenProperties, FS_CardinalityType DEF PlantInv, LevelInv, LevelTypes
  <1>2. /\ Walked(bom, skus, cs, edge, changed, round) /\ Bounded(cs, bom, skus)
        /\ Cyclic <=> Loops(bom, skus)
    BY CyclicIs DEF LevelInv
  <1>3. ASSUME stage \in {"cycle", "plan", "planned"}
        PROVE  Graph(bom, skus) /\ \A i \in Edges : Known(i)
    <2>1. edge = Len(bom) + 1
      BY <1>3 DEF LevelInv, LevelTypes
    <2>2. \A i \in DOMAIN bom : i < edge
      BY <1>1, <2>1
    <2>3. \A i \in DOMAIN bom : bom[i].parent \in skus /\ bom[i].child \in skus
      BY <1>2, <2>2, Zenon DEF Walked
    <2> QED
      BY <1>1, <2>2, <2>3 DEF Graph, Known, Edges, Parent, Child
  <1>4. stage = "unknown_sku" => \E i \in Edges : ~Known(i)
    BY DEF LevelInv, LevelTypes
  <1>5. ASSUME stage = "cycle" PROVE Cyclic
    <2>1. changed /\ round >= Cardinality(skus) + 1 /\ round \in Nat
      BY <1>5 DEF LevelInv, LevelTypes, Rounds
    <2>2. PICK s \in skus : cs[s] >= round
      BY <1>2, <2>1 DEF Walked
    <2>3. /\ Cardinality(Above(bom, skus, s)) \in Nat
          /\ Cardinality(Above(bom, skus, s)) <= Cardinality(skus)
      BY <1>1, FewAbove, Zenon
    <2>4. cs[s] \in Nat
      BY <1>1
    <2>5. ~(cs[s] <= Cardinality(Above(bom, skus, s)))
      BY <1>1, <2>1, <2>2, <2>3, <2>4
    <2>6. Graph(bom, skus)
      BY <1>3, <1>5
    <2> QED
      BY <1>2, <2>5, <2>6, Zenon DEF Bounded
  <1>6. ASSUME stage \in {"plan", "planned"} PROVE ~Cyclic
    <2>1. edge = Len(bom) + 1 /\ ~changed
      BY <1>6 DEF LevelInv, LevelTypes
    <2>2. \A i \in DOMAIN bom : i < edge
      BY <1>1, <2>1
    <2>3. Graph(bom, skus)
      BY <1>3, <1>6
    <2>4. ASSUME NEW i \in DOMAIN bom PROVE cs[bom[i].child] >= cs[bom[i].parent] + 1
      <3>1. ~Slack(bom, skus, cs, i)
        BY <1>2, <2>1, <2>2 DEF Walked
      <3>2. bom[i].parent \in skus /\ bom[i].child \in skus
        BY <2>3 DEF Graph
      <3>3. cs[bom[i].parent] \in Nat /\ cs[bom[i].child] \in Nat
        BY <1>1, <3>2
      <3> QED
        BY <3>1, <3>2, <3>3 DEF Slack
    <2>5. ~Loops(bom, skus)
      BY <1>1, <2>3, <2>4, RisingCodes, Zenon
    <2> QED
      BY <1>2, <2>5
  <1> QED
    BY <1>3, <1>4, <1>5, <1>6 DEF RefusedForCause

(***************************************************************************)
(* Planning and handing down.                                              *)
(***************************************************************************)
First(cs, S) == CHOOSE s \in S : \A r \in S : cs[s] < cs[r] \/ (cs[s] = cs[r] /\ s <= r)

LEMMA FirstIsLeast ==
    ASSUME NEW skus \in SUBSET Nat, NEW cs \in [skus -> Nat], NEW S \in SUBSET skus, S # {}
    PROVE  First(cs, S) \in S /\ \A r \in S : cs[First(cs, S)] <= cs[r]
  <1> DEFINE V == {cs[s] : s \in S}
  <1>1. V \in SUBSET Nat /\ V # {}
    OBVIOUS
  <1>2. PICK v \in V : \A w \in V : v <= w
    BY <1>1, LeastNat
  <1> DEFINE T == {s \in S : cs[s] = v}
  <1>3. T \in SUBSET Nat /\ T # {}
    BY <1>2
  <1>4. PICK x \in T : \A y \in T : x <= y
    BY <1>3, LeastNat
  <1>5. \A r \in S : cs[r] \in Nat /\ cs[r] >= v
    BY <1>2
  <1>6. \A r \in S : cs[x] < cs[r] \/ (cs[x] = cs[r] /\ x <= r)
    <2> SUFFICES ASSUME NEW r \in S PROVE cs[x] < cs[r] \/ (cs[x] = cs[r] /\ x <= r)
      OBVIOUS
    <2>1. cs[x] = v /\ cs[r] \in Nat /\ cs[r] >= v /\ v \in Nat
      BY <1>1, <1>5
    <2>2. cs[r] = v => r \in T
      OBVIOUS
    <2> QED
      BY <1>4, <2>1, <2>2
  <1>7. \E s \in S : \A r \in S : cs[s] < cs[r] \/ (cs[s] = cs[r] /\ s <= r)
    BY <1>6
  <1> PICK f : f = First(cs, S)
    OBVIOUS
  <1>8. f \in S /\ \A r \in S : cs[f] < cs[r] \/ (cs[f] = cs[r] /\ f <= r)
    BY <1>7, Zenon DEF First
  <1>9. \A r \in S : cs[r] \in Nat /\ cs[f] \in Nat
    BY <1>8
  <1> QED
    BY <1>8, <1>9

IsSeq(ps) == ps \in Seq({ps[n] : n \in DOMAIN ps})
Done(ps) == {ps[n].sku : n \in DOMAIN ps}
Distinct(ps) == \A m, n \in DOMAIN ps : ps[m].sku = ps[n].sku => m = n
Rel(ps, s) == ps[CHOOSE m \in DOMAIN ps : ps[m].sku = s].releases

LEMMA Appended ==
    ASSUME NEW ps, NEW row, IsSeq(ps), Distinct(ps), row.sku \notin Done(ps)
    PROVE  LET q == Append(ps, row)
           IN /\ IsSeq(q) /\ Distinct(q) /\ Done(q) = Done(ps) \cup {row.sku}
              /\ \A n \in DOMAIN ps : n \in DOMAIN q /\ q[n] = ps[n]
              /\ \A n \in DOMAIN q : n \in DOMAIN ps \/ q[n] = row
              /\ \E n \in DOMAIN q : q[n] = row
  <1> DEFINE S == {ps[n] : n \in DOMAIN ps} \cup {row}
  <1>1. ps \in Seq(S) /\ Len(ps) \in Nat /\ DOMAIN ps = 1..Len(ps)
    BY LenProperties DEF IsSeq
  <1> PICK q : q = Append(ps, row)
    OBVIOUS
  <1>2. /\ q \in Seq(S) /\ Len(q) = Len(ps) + 1 /\ DOMAIN q = 1..(Len(ps) + 1)
        /\ \A n \in 1..Len(ps) : q[n] = ps[n]
        /\ q[Len(ps) + 1] = row
    BY <1>1, AppendProperties
  <1>3. IsSeq(q)
    <2> PICK R : R = {q[n] : n \in DOMAIN q}
      OBVIOUS
    <2>1. \A n \in 1..Len(q) : q[n] \in R
      BY <1>1, <1>2
    <2>2. q \in Seq(R)
      BY <1>1, <1>2, <2>1
    <2> QED
      BY <2>2 DEF IsSeq
  <1>4. /\ \A n \in DOMAIN ps : n \in DOMAIN q /\ q[n] = ps[n]
        /\ \A n \in DOMAIN q : n \in DOMAIN ps \/ n = Len(ps) + 1
        /\ Len(ps) + 1 \in DOMAIN q
    BY <1>1, <1>2
  <1>5. Done(q) = Done(ps) \cup {row.sku}
    <2>1. \A n \in DOMAIN q : q[n].sku \in Done(ps) \/ q[n].sku = row.sku
      BY <1>2, <1>4, Zenon DEF Done
    <2>2. \A n \in DOMAIN ps : q[n].sku = ps[n].sku /\ n \in DOMAIN q
      BY <1>2, <1>4
    <2>3. q[Len(ps) + 1].sku = row.sku /\ Len(ps) + 1 \in DOMAIN q
      BY <1>2, <1>4
    <2>4. Done(q) \subseteq Done(ps) \cup {row.sku}
      <3> SUFFICES ASSUME NEW n \in DOMAIN q PROVE q[n].sku \in Done(ps) \cup {row.sku}
        BY Zenon DEF Done
      <3> QED
        BY <2>1
    <2>5. Done(ps) \subseteq Done(q)
      <3> SUFFICES ASSUME NEW n \in DOMAIN ps PROVE ps[n].sku \in Done(q)
        BY Zenon DEF Done
      <3>1. q[n].sku \in Done(q)
        BY <2>2, Zenon DEF Done
      <3> QED
        BY <2>2, <3>1
    <2>6. row.sku \in Done(q)
      <3>1. q[Len(ps) + 1].sku \in Done(q)
        BY <2>3, Zenon DEF Done
      <3> QED
        BY <2>3, <3>1
    <2> QED
      BY <2>4, <2>5, <2>6
  <1>6. Distinct(q)
    <2> SUFFICES ASSUME NEW m \in DOMAIN q, NEW n \in DOMAIN q, q[m].sku = q[n].sku
                 PROVE  m = n
      BY DEF Distinct
    <2>1. \A k \in DOMAIN ps : q[k].sku # row.sku
      BY <1>4, Zenon DEF Done
    <2> QED
      BY <1>2, <1>4, <2>1, Zenon DEF Distinct
  <1> QED
    BY <1>2, <1>3, <1>4, <1>5, <1>6

\* What a planned SKU releases is looked up by its name.
LEMMA RelIs ==
    ASSUME NEW ps, Distinct(ps), NEW n \in DOMAIN ps
    PROVE  Rel(ps, ps[n].sku) = ps[n].releases
  <1> PICK m : m = CHOOSE k \in DOMAIN ps : ps[k].sku = ps[n].sku
    OBVIOUS
  <1>1. m \in DOMAIN ps /\ ps[m].sku = ps[n].sku
    BY Zenon
  <1>2. m = n
    BY <1>1, Zenon DEF Distinct
  <1> QED
    BY <1>2, Zenon DEF Rel

LEMMA RelKept ==
    ASSUME NEW ps, NEW row, IsSeq(ps), Distinct(ps), row.sku \notin Done(ps)
    PROVE  /\ \A s \in Done(ps) : Rel(Append(ps, row), s) = Rel(ps, s)
           /\ Rel(Append(ps, row), row.sku) = row.releases
  <1> PICK q : q = Append(ps, row)
    OBVIOUS
  <1>1. /\ Distinct(q)
        /\ \A n \in DOMAIN ps : n \in DOMAIN q /\ q[n] = ps[n]
        /\ \E n \in DOMAIN q : q[n] = row
    BY Appended
  <1>2. ASSUME NEW s \in Done(ps) PROVE Rel(q, s) = Rel(ps, s)
    <2>1. PICK n \in DOMAIN ps : s = ps[n].sku
      BY DEF Done
    <2>2. n \in DOMAIN q /\ q[n] = ps[n]
      BY <1>1
    <2>3. Rel(ps, s) = ps[n].releases
      BY <2>1, RelIs, Zenon
    <2>4. Rel(q, q[n].sku) = q[n].releases
      BY <1>1, <2>2, RelIs, Zenon
    <2> QED
      BY <2>1, <2>2, <2>3, <2>4
  <1>3. Rel(q, row.sku) = row.releases
    BY <1>1, RelIs, Zenon
  <1> QED
    BY <1>2, <1>3

\* What every edge asks of its component in bucket b when its parent is planned.
Pulls(bom, ps, b) == [i \in DOMAIN bom |-> Rel(ps, bom[i].parent)[b] * bom[i].qty]

\* The edges into s, and those whose parent is planned.
Into(bom, s) == {i \in DOMAIN bom : bom[i].child = s}
Feeds(bom, s, done) == {i \in DOMAIN bom : bom[i].child = s /\ bom[i].parent \in done}

PlanRows(ps, skus) ==
    /\ IsSeq(ps) /\ Distinct(ps)
    /\ \A n \in DOMAIN ps : ps[n].sku \in skus /\ ps[n].releases \in [Bucket -> Nat]

InOrder(cs, ps, skus) == \A s \in Done(ps), r \in skus \ Done(ps) : cs[s] <= cs[r]

\* What has been handed down is what the planned parents' releases consume.
HandedDown(bom, skus, ps, dep) ==
    /\ dep \in [skus -> [Bucket -> Nat]]
    /\ \A s \in skus, b \in Bucket :
          dep[s][b] = SumFunctionOnSet(Pulls(bom, ps, b), Feeds(bom, s, Done(ps)))

\* What a planned SKU was netted against is what all its parents' releases consume.
Complete(bom, parts, ps) ==
    \A n \in DOMAIN ps : \A b \in Bucket :
        ps[n].gross[b] = parts[ps[n].sku].gross[b]
                           + SumFunctionOnSet(Pulls(bom, ps, b), Into(bom, ps[n].sku))

Rising(bom, cs) == \A i \in DOMAIN bom : cs[bom[i].child] >= cs[bom[i].parent] + 1

\* A BOM whose edges are known and settled.
Levelled(bom, skus, cs) ==
    /\ bom \in Seq(BomEdge) /\ skus \subseteq Nat /\ cs \in [skus -> Nat]
    /\ Graph(bom, skus) /\ Rising(bom, cs)

LEMMA EdgesAreFinite ==
    ASSUME NEW bom \in Seq(BomEdge), NEW S \in SUBSET DOMAIN bom
    PROVE  IsFiniteSet(S)
  <1>1. Len(bom) \in Nat /\ DOMAIN bom = 1..Len(bom)
    BY LenProperties
  <1>2. IsFiniteSet(DOMAIN bom)
    BY <1>1, FS_Interval
  <1> QED
    BY <1>2, FS_Subset

\* When s is next, or done, all its parents are done.
LEMMA ParentsAreDone ==
    ASSUME NEW bom, NEW skus, NEW cs, Levelled(bom, skus, cs), NEW D \in SUBSET skus,
           NEW s \in skus, \A r \in skus \ D : cs[s] <= cs[r]
    PROVE  Feeds(bom, s, D) = Into(bom, s)
  <1> SUFFICES ASSUME NEW i \in DOMAIN bom, bom[i].child = s, bom[i].parent \notin D PROVE FALSE
    BY Zenon DEF Feeds, Into
  <1> PICK p : p = bom[i].parent
    OBVIOUS
  <1>1. p \in skus /\ cs[p] \in Nat /\ cs[s] \in Nat /\ cs[s] >= cs[p] + 1
    BY DEF Levelled, Graph, Rising
  <1>2. cs[s] <= cs[p]
    BY <1>1
  <1> QED
    BY <1>1, <1>2

LEMMA PullsAdd ==
    ASSUME NEW bom \in Seq(BomEdge), NEW skus, NEW ps, PlanRows(ps, skus), NEW b \in Bucket,
           NEW S \in SUBSET {i \in DOMAIN bom : bom[i].parent \in Done(ps)}
    PROVE  /\ IntOn(Pulls(bom, ps, b), S) /\ NatOn(Pulls(bom, ps, b), S)
           /\ SumFunctionOnSet(Pulls(bom, ps, b), S) \in Nat
  <1>1. ASSUME NEW i \in S PROVE Pulls(bom, ps, b)[i] \in Nat
    <2>1. i \in DOMAIN bom /\ bom[i].parent \in Done(ps) /\ bom[i].qty \in Nat
      <3>1. i \in DOMAIN bom /\ bom[i].parent \in Done(ps)
        OBVIOUS
      <3>2. bom[i] \in BomEdge
        BY <3>1, LenProperties
      <3> QED
        BY <3>1, <3>2 DEF BomEdge
    <2>2. PICK n \in DOMAIN ps : bom[i].parent = ps[n].sku
      BY <2>1 DEF Done
    <2>3. Rel(ps, bom[i].parent) = ps[n].releases
      BY <2>2, RelIs, Zenon DEF PlanRows
    <2>4. Rel(ps, bom[i].parent)[b] \in Nat
      BY <2>3 DEF PlanRows
    <2> PICK x \in Nat, q \in Nat : x = Rel(ps, bom[i].parent)[b] /\ q = bom[i].qty
      BY <2>1, <2>4
    <2>5. Pulls(bom, ps, b)[i] = x * q
      BY <2>1 DEF Pulls
    <2>6. x * q \in Nat
      OBVIOUS
    <2> QED
      BY <2>5, <2>6
  <1>2. IntOn(Pulls(bom, ps, b), S) /\ NatOn(Pulls(bom, ps, b), S)
    BY <1>1 DEF IntOn, NatOn
  <1>3. IsFiniteSet(S)
    BY EdgesAreFinite
  <1> QED
    BY <1>2, <1>3, SumInt

\* Before anything is planned nothing is handed down.
LEMMA NothingHanded ==
    ASSUME NEW bom, NEW skus, NEW cs, NEW parts
    PROVE  /\ PlanRows(<<>>, skus) /\ InOrder(cs, <<>>, skus) /\ Complete(bom, parts, <<>>)
           /\ HandedDown(bom, skus, <<>>, [s \in skus |-> Zeros])
           /\ Done(<<>>) = {}
  <1> PICK e : e = <<>>
    OBVIOUS
  <1>1. DOMAIN e = {} /\ e \in Seq({e[n] : n \in DOMAIN e})
    BY EmptySeq
  <1>2. Done(e) = {}
    BY <1>1 DEF Done
  <1>3. \A s : Feeds(bom, s, {}) = {}
    BY DEF Feeds
  <1>4. PlanRows(e, skus)
    BY <1>1 DEF PlanRows, IsSeq, Distinct
  <1>5. InOrder(cs, e, skus)
    BY <1>2 DEF InOrder
  <1>6. Complete(bom, parts, e)
    BY <1>1 DEF Complete
  <1>7. HandedDown(bom, skus, e, [s \in skus |-> Zeros])
    <2> PICK d : d = [s \in skus |-> Zeros]
      OBVIOUS
    <2>1. d \in [skus -> [Bucket -> Nat]] /\ \A s \in skus, b \in Bucket : d[s][b] = 0
      BY DEF Zeros
    <2>2. \A s \in skus, b \in Bucket :
            SumFunctionOnSet(Pulls(bom, e, b), Feeds(bom, s, Done(e))) = 0
      BY <1>2, <1>3, SumEmpty, Zenon
    <2> QED
      BY <2>1, <2>2 DEF HandedDown
  <1> QED
    BY <1>2, <1>4, <1>5, <1>6, <1>7

\* How far planning has come.
Progress(bom, skus, cs, parts, ps, dep) ==
    /\ PlanRows(ps, skus) /\ InOrder(cs, ps, skus)
    /\ HandedDown(bom, skus, ps, dep) /\ Complete(bom, parts, ps)

\* What row hands to s.
Share(bom, row, s, b) ==
    SumFunction([i \in {j \in DOMAIN bom : bom[j].parent = row.sku /\ bom[j].child = s} |->
                    row.releases[b] * bom[i].qty])

\* row is the next to be planned and was netted against what was handed down.
Follows(row, skus, cs, parts, ps, dep) ==
    /\ row.sku \in skus \ Done(ps)
    /\ \A r \in skus \ Done(ps) : cs[row.sku] <= cs[r]
    /\ row.releases \in [Bucket -> Nat]
    /\ \A b \in Bucket : row.gross[b] = parts[row.sku].gross[b] + dep[row.sku][b]

LEMMA PullsKept ==
    ASSUME NEW bom \in Seq(BomEdge), NEW skus, NEW ps, NEW row, NEW b \in Bucket,
           PlanRows(ps, skus), row.sku \notin Done(ps),
           NEW S \in SUBSET {i \in DOMAIN bom : bom[i].parent \in Done(ps)}
    PROVE  SumFunctionOnSet(Pulls(bom, Append(ps, row), b), S)
             = SumFunctionOnSet(Pulls(bom, ps, b), S)
  <1>1. \A s \in Done(ps) : Rel(Append(ps, row), s) = Rel(ps, s)
    BY RelKept DEF PlanRows
  <1>2. \A i \in S : Pulls(bom, Append(ps, row), b)[i] = Pulls(bom, ps, b)[i]
    BY <1>1 DEF Pulls
  <1>3. IsFiniteSet(S)
    BY EdgesAreFinite
  <1> QED
    BY <1>2, <1>3, SumSame DEF Agree

LEMMA ShareIs ==
    ASSUME NEW bom \in Seq(BomEdge), NEW skus, NEW ps, NEW row, NEW s, NEW b \in Bucket,
           PlanRows(ps, skus), row.sku \notin Done(ps)
    PROVE  Share(bom, row, s, b)
             = SumFunctionOnSet(Pulls(bom, Append(ps, row), b), Feeds(bom, s, {row.sku}))
  <1> PICK F : F = Feeds(bom, s, {row.sku})
    OBVIOUS
  <1>1. F = {j \in DOMAIN bom : bom[j].parent = row.sku /\ bom[j].child = s}
    BY DEF Feeds
  <1> PICK h : h = [i \in F |-> row.releases[b] * bom[i].qty]
    OBVIOUS
  <1>2. Share(bom, row, s, b) = SumFunctionOnSet(h, F)
    BY <1>1 DEF Share, SumFunction
  <1>3. Rel(Append(ps, row), row.sku) = row.releases
    BY RelKept DEF PlanRows
  <1> PICK f : f = Pulls(bom, Append(ps, row), b)
    OBVIOUS
  <1>4. \A i \in F : f[i] = h[i]
    BY <1>1, <1>3 DEF Pulls
  <1>5. IsFiniteSet(F)
    BY <1>1, EdgesAreFinite
  <1>6. Agree(f, h, F)
    BY <1>4 DEF Agree
  <1>7. SumFunctionOnSet(f, F) = SumFunctionOnSet(h, F)
    BY <1>5, <1>6, SumSame
  <1> QED
    BY <1>2, <1>7

Adds(more, bom, skus, dep, row) ==
    more = [s \in skus |-> [b \in Bucket |-> dep[s][b] + Share(bom, row, s, b)]]

LEMMA PlanOne ==
    ASSUME NEW bom, NEW skus, NEW cs, NEW parts, NEW ps, NEW dep, NEW row,
           Levelled(bom, skus, cs), Progress(bom, skus, cs, parts, ps, dep),
           Follows(row, skus, cs, parts, ps, dep),
           NEW more, Adds(more, bom, skus, dep, row)
    PROVE  Progress(bom, skus, cs, parts, Append(ps, row), more)
  <1> PICK q, c, D : q = Append(ps, row) /\ c = row.sku /\ D = Done(ps)
    OBVIOUS
  <1>0. /\ bom \in Seq(BomEdge) /\ PlanRows(ps, skus) /\ c \in skus /\ c \notin D
        /\ D \subseteq skus /\ cs \in [skus -> Nat]
    BY DEF Levelled, Progress, Follows, PlanRows, Done
  <1>1. /\ IsSeq(q) /\ Distinct(q) /\ Done(q) = D \cup {c}
        /\ \A n \in DOMAIN ps : n \in DOMAIN q /\ q[n] = ps[n]
        /\ \A n \in DOMAIN q : n \in DOMAIN ps \/ q[n] = row
    BY <1>0, Appended DEF PlanRows
  <1>2. PlanRows(q, skus)
    <2>1. ASSUME NEW n \in DOMAIN q
          PROVE  q[n].sku \in skus /\ q[n].releases \in [Bucket -> Nat]
      <3>1. CASE n \in DOMAIN ps
        BY <1>0, <1>1, <3>1 DEF PlanRows
      <3>2. CASE q[n] = row
        BY <3>2 DEF Follows
      <3> QED
        BY <1>1, <3>1, <3>2
    <2> QED
      BY <1>1, <2>1 DEF PlanRows
  <1>3. InOrder(cs, q, skus)
    <2> SUFFICES ASSUME NEW s \in D \cup {c}, NEW r \in skus \ (D \cup {c}) PROVE cs[s] <= cs[r]
      BY <1>1, Zenon DEF InOrder
    <2>1. CASE s \in D
      BY <2>1 DEF Progress, InOrder
    <2>2. CASE s = c
      BY <2>2 DEF Follows
    <2> QED
      BY <2>1, <2>2
  <1>4. ASSUME NEW b \in Bucket, NEW S \in SUBSET {i \in DOMAIN bom : bom[i].parent \in D}
        PROVE  SumFunctionOnSet(Pulls(bom, q, b), S) = SumFunctionOnSet(Pulls(bom, ps, b), S)
    <2>1. row.sku \notin Done(ps) /\ S \in SUBSET {i \in DOMAIN bom : bom[i].parent \in Done(ps)}
      BY <1>0
    <2> QED
      BY <1>0, <2>1, PullsKept
  <1>5. \A s : Feeds(bom, s, D) \in SUBSET {i \in DOMAIN bom : bom[i].parent \in D}
    BY DEF Feeds
  <1>6. HandedDown(bom, skus, q, more)
    <2>1. ASSUME NEW s \in skus, NEW b \in Bucket
          PROVE  /\ more[s][b] \in Nat
                 /\ more[s][b] = SumFunctionOnSet(Pulls(bom, q, b), Feeds(bom, s, Done(q)))
      <3> PICK f : f = Pulls(bom, q, b)
        OBVIOUS
      <3> PICK A, B : A = Feeds(bom, s, D) /\ B = Feeds(bom, s, {c})
        OBVIOUS
      <3>1. Feeds(bom, s, Done(q)) = A \cup B /\ A \cap B = {}
        BY <1>0, <1>1 DEF Feeds
      <3>2. A \cup B \subseteq {i \in DOMAIN bom : bom[i].parent \in Done(q)}
        BY <1>1 DEF Feeds
      <3>3. IntOn(f, A \cup B) /\ SumFunctionOnSet(f, A \cup B) \in Nat
        BY <1>0, <1>2, <3>2, PullsAdd
      <3>4. IsFiniteSet(A) /\ IsFiniteSet(B)
        BY <1>0, EdgesAreFinite DEF Feeds
      <3>5. SumFunctionOnSet(f, A \cup B) = SumFunctionOnSet(f, A) + SumFunctionOnSet(f, B)
        <4>1. A \cap B = {} /\ IntOn(f, A \cup B)
          BY <3>1, <3>3
        <4> QED
          BY <3>4, <4>1, SumUnion, ZenonT(30)
      <3>6. SumFunctionOnSet(f, A) = dep[s][b]
        <4>1. dep[s][b] = SumFunctionOnSet(Pulls(bom, ps, b), A)
          BY DEF Progress, HandedDown
        <4>2. SumFunctionOnSet(f, A) = SumFunctionOnSet(Pulls(bom, ps, b), A)
          BY <1>4, <1>5, Zenon
        <4> QED
          BY <4>1, <4>2
      <3>7. SumFunctionOnSet(f, B) = Share(bom, row, s, b)
        <4>1. row.sku \notin Done(ps)
          BY <1>0
        <4> QED
          BY <1>0, <4>1, ShareIs
      <3>8. more[s][b] = dep[s][b] + Share(bom, row, s, b)
        BY DEF Adds
      <3> QED
        BY <3>1, <3>3, <3>5, <3>6, <3>7, <3>8
    <2>2. more \in [skus -> [Bucket -> Nat]]
      <3>1. \A s \in skus, b \in Bucket : dep[s][b] + Share(bom, row, s, b) \in Nat
        BY <2>1 DEF Adds
      <3> QED
        BY <3>1 DEF Adds
    <2> QED
      BY <2>1, <2>2 DEF HandedDown
  <1>7. Complete(bom, parts, q)
    <2> SUFFICES ASSUME NEW n \in DOMAIN q, NEW b \in Bucket
                 PROVE  q[n].gross[b] = parts[q[n].sku].gross[b]
                          + SumFunctionOnSet(Pulls(bom, q, b), Into(bom, q[n].sku))
      BY DEF Complete
    <2>1. ASSUME NEW s \in skus, \A r \in skus \ D : cs[s] <= cs[r]
          PROVE  /\ Into(bom, s) = Feeds(bom, s, D)
                 /\ SumFunctionOnSet(Pulls(bom, q, b), Into(bom, s))
                      = SumFunctionOnSet(Pulls(bom, ps, b), Into(bom, s))
      <3>1. Feeds(bom, s, D) = Into(bom, s)
        BY <1>0, <2>1, ParentsAreDone
      <3> QED
        BY <1>4, <1>5, <3>1
    <2>2. CASE n \in DOMAIN ps
      <3> PICK s : s = ps[n].sku
        OBVIOUS
      <3>1. s \in D /\ s \in skus /\ q[n] = ps[n]
        BY <1>0, <1>1, <2>2 DEF Done
      <3>2. \A r \in skus \ D : cs[s] <= cs[r]
        BY <3>1 DEF Progress, InOrder
      <3>3. ps[n].gross[b] = parts[s].gross[b] + SumFunctionOnSet(Pulls(bom, ps, b), Into(bom, s))
        BY <2>2 DEF Progress, Complete
      <3>4. SumFunctionOnSet(Pulls(bom, q, b), Into(bom, s))
                      = SumFunctionOnSet(Pulls(bom, ps, b), Into(bom, s))
        BY <2>1, <3>1, <3>2, Zenon
      <3> QED
        BY <3>1, <3>3, <3>4
    <2>3. CASE q[n] = row
      <3>1. \A r \in skus \ D : cs[c] <= cs[r]
        BY DEF Follows
      <3>2. /\ Into(bom, c) = Feeds(bom, c, D)
            /\ SumFunctionOnSet(Pulls(bom, q, b), Into(bom, c))
                      = SumFunctionOnSet(Pulls(bom, ps, b), Into(bom, c))
        BY <1>0, <2>1, <3>1, Zenon
      <3>3. dep[c][b] = SumFunctionOnSet(Pulls(bom, ps, b), Feeds(bom, c, D))
        BY <1>0 DEF Progress, HandedDown
      <3>4. row.gross[b] = parts[c].gross[b] + dep[c][b]
        BY DEF Follows
      <3> QED
        BY <2>3, <3>2, <3>3, <3>4
    <2> QED
      BY <1>1, <2>2, <2>3
  <1> QED
    BY <1>2, <1>3, <1>6, <1>7 DEF Progress

PlanningInv ==
    /\ stage \notin {"plan", "planned"} => plans = <<>> /\ dependent = [s \in Skus |-> Zeros]
    /\ stage \in {"plan", "planned"} =>
          Progress(plant.bom, Skus, codes, plant.parts, plans, dependent)
    /\ stage = "plan" =>
          /\ ToPlan # {}
          /\ \A b \in Bucket :
               item.gross[b] = plant.parts[Current].gross[b] + dependent[Current][b]
          /\ KeepsPart(item, plant.parts[Current])
    /\ stage = "planned" => ToPlan = {}

\* The pass over the item at hand is in the order Netting has it, in every stage.
NettingInv == PlanInv /\ TypeInv /\ OffsetInv /\ ReleaseInv /\ WholeInv /\ LotsInv

BomInv == PlantInv /\ LotInv /\ LevelInv /\ PlanningInv /\ NettingInv

LEMMA FreshNetting == IsItem(item) /\ Fresh => NettingInv
  BY InitPlanInv, InitTypeInv, InitOffsetInv, InitReleaseInv, InitWholeInv, InitLotsInv
  DEF NettingInv

LEMMA StepNetting == NettingInv /\ [Next]_vars => NettingInv'
  BY StepPlanInv, StepTypeInv, StepOffsetInv, StepReleaseInv, StepWholeInv, StepLotsInv
  DEF NettingInv

LEMMA BeginsNetting ==
    ASSUME NEW i, IsItem(i), Begin(i)
    PROVE  NettingInv'
  <1>1. (IsItem(item) /\ Fresh)'
    BY DEF Begin, Fresh
  <1>2. (IsItem(item) /\ Fresh => NettingInv)'
    BY FreshNetting, PTL
  <1> QED
    BY <1>1, <1>2

LEMMA CurrentIs == Current = First(codes, ToPlan) /\ ToPlan = Skus \ Done(plans)
  BY DEF Current, Foremost, First, ToPlan, Done

\* The SKU to begin with, and what it is asked for.
LEMMA PlanStarts ==
    ASSUME PlantInv, LotInv, LevelInv, PlanningInv, StartPlanning
    PROVE  PlanningInv' /\ \E i : IsItem(i) /\ Begin(i)
  <1> PICK skus, cs, d, bom, parts : /\ skus = Skus /\ cs = codes /\ d = dependent
                                     /\ bom = plant.bom /\ parts = plant.parts
    OBVIOUS
  <1>1. /\ stage' = "plan" /\ stage = "levels" /\ Begin(ItemFor(Current, dependent[Current]))
        /\ UNCHANGED <<plant, codes, dependent, plans>>
    BY DEF StartPlanning, RoundOver, levelVars
  <1>2. plans = <<>> /\ d = [s \in skus |-> Zeros]
    BY <1>1 DEF PlanningInv
  <1>3. Progress(bom, skus, cs, parts, <<>>, d) /\ Done(<<>>) = {}
    BY <1>2, NothingHanded DEF Progress
  <1>4. skus \in SUBSET Nat /\ skus # {} /\ cs \in [skus -> Nat]
    BY DEF PlantInv, LevelInv, LevelTypes
  <1>5. ToPlan = skus /\ Current = First(cs, skus)
    BY <1>2, <1>3, CurrentIs
  <1> PICK c : c = First(cs, skus)
    OBVIOUS
  <1>6. c \in skus
    BY <1>4, FirstIsLeast
  <1>7. d[c] \in [Bucket -> Nat]
    BY <1>2, <1>6 DEF Zeros
  <1>8. /\ IsItem(ItemFor(c, d[c]))
        /\ \A b \in Bucket : ItemFor(c, d[c]).gross[b] = parts[c].gross[b] + d[c][b]
        /\ KeepsPart(ItemFor(c, d[c]), parts[c])
    BY <1>6, <1>7, ItemForIsItem
  <1>9. item' = ItemFor(c, d[c]) /\ Begin(ItemFor(c, d[c]))
    BY <1>1, <1>5 DEF Begin
  <1>10. (ToPlan = Skus \ Done(plans))' /\ (Current = First(codes, ToPlan))'
    BY CurrentIs, PTL
  <1>11. Skus' = skus /\ plans' = <<>> /\ codes' = cs /\ dependent' = d /\ plant' = plant
    BY <1>1, <1>2 DEF Skus
  <1>12. ToPlan' = skus /\ Current' = c
    BY <1>3, <1>10, <1>11
  <1>13. PlanningInv'
    BY <1>1, <1>3, <1>4, <1>8, <1>9, <1>11, <1>12 DEF PlanningInv
  <1> QED
    BY <1>8, <1>9, <1>13

\* What the plan says when planning goes on.
LEMMA SettledCodes ==
    ASSUME PlantInv, LevelInv, stage \in {"plan", "planned"}
    PROVE  Levelled(plant.bom, Skus, codes)
  <1> PICK bom \in Seq(BomEdge) : bom = plant.bom
    BY DEF PlantInv
  <1> PICK skus, cs : skus = Skus /\ cs = codes
    OBVIOUS
  <1>1. /\ IsFiniteSet(skus) /\ skus \subseteq Nat /\ cs \in [skus -> Nat]
        /\ Len(bom) \in Nat /\ DOMAIN bom = 1..Len(bom)
        /\ edge = Len(bom) + 1 /\ ~changed
    BY LenProperties DEF PlantInv, LevelInv, LevelTypes
  <1>2. Walked(bom, skus, cs, edge, changed, round)
    BY DEF LevelInv
  <1>3. \A i \in DOMAIN bom : i < edge
    BY <1>1
  <1>4. Graph(bom, skus)
    BY <1>1, <1>2, <1>3 DEF Walked, Graph
  <1>5. ASSUME NEW i \in DOMAIN bom PROVE cs[bom[i].child] >= cs[bom[i].parent] + 1
    <2>1. ~Slack(bom, skus, cs, i)
      BY <1>1, <1>2, <1>3 DEF Walked
    <2>2. bom[i].parent \in skus /\ bom[i].child \in skus
      BY <1>4 DEF Graph
    <2>3. cs[bom[i].parent] \in Nat /\ cs[bom[i].child] \in Nat
      BY <1>1, <2>2
    <2> QED
      BY <2>1, <2>2, <2>3 DEF Slack
  <1> QED
    BY <1>1, <1>4, <1>5 DEF Levelled, Rising

LEMMA HandDownStep ==
    ASSUME BomInv, HandDown
    PROVE  PlanningInv' /\ (UNCHANGED vars \/ \E i : IsItem(i) /\ Begin(i))
  <1> PICK skus, cs, dep, bom, parts, ps : /\ skus = Skus /\ cs = codes /\ dep = dependent
                                     /\ bom = plant.bom /\ parts = plant.parts /\ ps = plans
    OBVIOUS
  <1> PICK D : D = skus \ Done(ps)
    OBVIOUS
  <1> PICK c : c = First(cs, D)
    OBVIOUS
  <1>1. /\ stage = "plan" /\ UNCHANGED <<plant, codes>> /\ Skus' = skus
    BY DEF HandDown, levelVars, Skus
  <1>2. ToPlan = D /\ Current = c
    BY CurrentIs
  <1>3. /\ Levelled(bom, skus, cs) /\ Progress(bom, skus, cs, parts, ps, dep)
        /\ D # {} /\ \A b \in Bucket : item.gross[b] = parts[c].gross[b] + dep[c][b]
    BY <1>1, <1>2, SettledCodes DEF BomInv, PlanningInv
  <1>4. skus \in SUBSET Nat /\ cs \in [skus -> Nat] /\ D \in SUBSET skus
    BY <1>3 DEF Levelled
  <1>5. c \in D /\ \A r \in D : cs[c] <= cs[r]
    BY <1>3, <1>4, FirstIsLeast
  <1>r. PICK row : row = [sku |-> c, gross |-> item.gross, releases |-> releases,
                             projected |-> projected, pastDue |-> pastDue]
    OBVIOUS
  <1>6. row.sku = c /\ row.gross = item.gross /\ row.releases = releases
    BY <1>r
  <1>7. releases \in [Bucket -> Nat]
    BY DEF BomInv, NettingInv, TypeInv, TypeOK
  <1>8. Follows(row, skus, cs, parts, ps, dep)
    BY <1>3, <1>5, <1>6, <1>7 DEF Follows
  <1> PICK more : more = [s \in skus |-> [b \in Bucket |-> dep[s][b] + Share(bom, row, s, b)]]
    OBVIOUS
  <1>9. Progress(bom, skus, cs, parts, Append(ps, row), more)
    <2>1. Adds(more, bom, skus, dep, row)
      BY DEF Adds
    <2> QED
      BY <1>3, <1>8, <2>1, PlanOne
  <1>10. plans' = Append(ps, row)
    BY <1>2, <1>r DEF HandDown
  <1>11. dependent' = more
    <2>1. ASSUME NEW s \in skus, NEW b \in Bucket
          PROVE  SumFunction([i \in {j \in Edges : Parent(j) = Current /\ Child(j) = s} |-> Pulled(i)[b]])
                   = Share(bom, row, s, b)
      <3> PICK E : E = {j \in DOMAIN bom : bom[j].parent = c /\ bom[j].child = s}
        OBVIOUS
      <3>1. {j \in Edges : Parent(j) = Current /\ Child(j) = s} = E
        BY <1>2 DEF Edges, Parent, Child
      <3>2. \A i \in E : Pulled(i)[b] = row.releases[b] * bom[i].qty
        BY <1>6 DEF Pulled
      <3>3. [i \in E |-> Pulled(i)[b]] = [i \in E |-> row.releases[b] * bom[i].qty]
        BY <3>2
      <3>4. Share(bom, row, s, b) = SumFunction([i \in E |-> row.releases[b] * bom[i].qty])
        BY <1>6 DEF Share
      <3> QED
        BY <3>1, <3>3, <3>4
    <2>2. dependent' = [s \in Skus |-> [b \in Bucket |->
           dependent[s][b]
           + SumFunction([i \in {j \in Edges : Parent(j) = Current /\ Child(j) = s} |-> Pulled(i)[b]])]]
      BY DEF HandDown
    <2> QED
      BY <2>1, <2>2
  <1>12. /\ Done(Append(ps, row)) = Done(ps) \cup {c}
    <2>1. row.sku \notin Done(ps) /\ IsSeq(ps) /\ Distinct(ps)
      BY <1>3, <1>5, <1>6 DEF Progress, PlanRows
    <2> PICK q : q = Append(ps, row)
      OBVIOUS
    <2>2. Done(q) = Done(ps) \cup {row.sku}
      BY <2>1, Appended
    <2> QED
      BY <1>6, <2>2
  <1>s. PICK rest : rest = D \ {c}
    OBVIOUS
  <1>13. (ToPlan = Skus \ Done(plans))' /\ (Current = First(codes, ToPlan))'
    BY CurrentIs, PTL
  <1>14. ToPlan' = rest /\ Current' = First(cs, rest)
    BY <1>1, <1>10, <1>12, <1>13, <1>s
  <1>15. Progress(bom, skus, cs, parts, plans', dependent')
    BY <1>9, <1>10, <1>11
  <1>16. CASE rest = {}
    <2>1. stage' = "planned" /\ UNCHANGED vars
      BY <1>2, <1>16, <1>s DEF HandDown
    <2> QED
      BY <1>1, <1>14, <1>15, <1>16, <2>1 DEF PlanningInv
  <1>17. CASE rest # {}
    <2> PICK n : n = First(cs, rest)
      OBVIOUS
    <2>1. n \in skus
      <3>1. rest \in SUBSET skus
        BY <1>4, <1>s
      <3>2. n \in rest
        BY <1>4, <1>17, <3>1, FirstIsLeast
      <3> QED
        BY <3>1, <3>2
    <2>d. PICK d : d = more[n]
      OBVIOUS
    <2>2. d \in [Bucket -> Nat]
      BY <1>9, <2>1, <2>d DEF Progress, HandedDown
    <2>3. /\ IsItem(ItemFor(n, d))
          /\ \A b \in Bucket : ItemFor(n, d).gross[b] = parts[n].gross[b] + d[b]
          /\ KeepsPart(ItemFor(n, d), parts[n])
      BY <2>1, <2>2, ItemForIsItem DEF BomInv
    <2>4. Foremost(rest) = n
      BY DEF Foremost, First
    <2>5. stage' = stage /\ Begin(ItemFor(n, d))
      BY <1>2, <1>11, <1>17, <1>s, <2>4, <2>d DEF HandDown
    <2>6. item' = ItemFor(n, d)
      BY <2>5 DEF Begin
    <2>8. /\ \A b \in Bucket : item'.gross[b] = plant'.parts[Current'].gross[b] + dependent'[Current'][b]
          /\ KeepsPart(item', plant'.parts[Current'])
      <3>1. /\ plant'.parts = parts /\ Current' = n /\ dependent'[n] = d /\ item' = ItemFor(n, d)
        BY <1>1, <1>11, <1>14, <2>6, <2>d
      <3> QED
        BY <2>3, <3>1
    <2>7. PlanningInv'
      BY <1>1, <1>14, <1>15, <1>17, <2>5, <2>8 DEF PlanningInv
    <2> QED
      BY <2>3, <2>5, <2>7
  <1> QED
    BY <1>16, <1>17

LEMMA InitBomInv == ExplodeInit => BomInv
  <1> SUFFICES ASSUME ExplodeInit PROVE BomInv
    OBVIOUS
  <1>1. PlantInv /\ LotInv /\ IsItem(item)
    BY InitPlantInv
  <1>2. LevelInv
    BY <1>1, InitLevelInv
  <1>3. PlanningInv
    BY DEF ExplodeInit, PlanningInv
  <1>4. NettingInv
    BY <1>1, FreshNetting DEF ExplodeInit
  <1> QED
    BY <1>1, <1>2, <1>3, <1>4 DEF BomInv

\* Progress is of the plan's variables alone.
LEMMA SamePlan ==
    ASSUME PlanningInv, UNCHANGED <<plant, stage, codes, dependent, plans, item>>
    PROVE  PlanningInv'
  <1>1. (ToPlan = Skus \ Done(plans))' /\ (Current = First(codes, ToPlan))'
    BY CurrentIs, PTL
  <1>2. Skus' = Skus
    BY DEF Skus
  <1>3. ToPlan' = ToPlan
    BY <1>1, <1>2, CurrentIs
  <1>4. Current' = Current
    BY <1>1, <1>3, CurrentIs
  <1> QED
    BY <1>2, <1>3, <1>4 DEF PlanningInv

LEMMA StepBomInv == BomInv /\ [ExplodeNext]_<<vars, explodeVars>> => BomInv'
  <1> SUFFICES ASSUME BomInv, [ExplodeNext]_<<vars, explodeVars>> PROVE BomInv'
    OBVIOUS
  <1>0. PlantInv /\ LotInv /\ LevelInv /\ PlanningInv /\ NettingInv
    BY DEF BomInv
  <1>1. PlantInv' /\ LotInv'
    BY <1>0, StepPlantInv
  <1>2. LevelInv'
    BY <1>0, StepLevelInv
  <1>3. CASE StartPlanning
    BY <1>0, <1>1, <1>2, <1>3, PlanStarts, BeginsNetting DEF BomInv
  <1>4. CASE HandDown
    <2>1. PlanningInv' /\ (UNCHANGED vars \/ \E i : IsItem(i) /\ Begin(i))
      BY <1>4, HandDownStep
    <2>2. NettingInv'
      BY <1>0, <2>1, BeginsNetting, StepNetting
    <2> QED
      BY <1>1, <1>2, <2>1, <2>2 DEF BomInv
  <1>5. CASE PlanItem
    <2>1. Next /\ UNCHANGED explodeVars
      BY <1>5 DEF PlanItem
    <2>2. NettingInv'
      BY <1>0, <2>1, StepNetting
    <2>3. item' = item
      BY <2>1 DEF Next, NetFirm, NetShort, NetEnough, Netting, EndNetting, StartPass, ChooseLots,
                  Project, EndProject, OffsetNothing, OffsetInTime, OffsetPastDue, Offsetting,
                  EndOffset
    <2>4. PlanningInv'
      BY <1>0, <2>1, <2>3, SamePlan DEF explodeVars
    <2> QED
      BY <1>1, <1>2, <2>2, <2>4 DEF BomInv
  <1>6. CASE \/ AsMaster \/ PriceLots \/ RefuseRouting \/ RefuseEdge \/ RelaxEdge \/ NextRound
             \/ RefuseCycle \/ UNCHANGED <<vars, explodeVars>>
    <2>1. /\ UNCHANGED <<vars, plant, dependent, plans>>
          /\ \/ stage \notin {"plan", "planned"} /\ stage' \notin {"plan", "planned"}
             \/ UNCHANGED <<stage, codes>>
      BY <1>6 DEF AsMaster, PriceLots, RefuseRouting, Pricing, RefuseEdge, RelaxEdge, Relaxing,
                  NextRound, RefuseCycle, RoundOver, explodeVars
    <2>2. NettingInv'
      BY <1>0, <2>1, StepNetting
    <2>3. item' = item
      BY <2>1 DEF vars
    <2>4. PlanningInv'
      <3>1. CASE UNCHANGED <<stage, codes>>
        BY <1>0, <2>1, <2>3, <3>1, SamePlan
      <3>2. CASE stage \notin {"plan", "planned"} /\ stage' \notin {"plan", "planned"}
        BY <1>0, <2>1, <3>2 DEF PlanningInv, Skus
      <3> QED
        BY <2>1, <3>1, <3>2
    <2> QED
      BY <1>1, <1>2, <2>2, <2>4 DEF BomInv
  <1> QED
    BY <1>3, <1>4, <1>5, <1>6 DEF ExplodeNext

\* Loading, explaining and showing a plan leave it as it is.
LEMMA StepScreensBomInv ==
    BomInv /\ [ScreensNext]_<<vars, explodeVars, capacityVars, page>> => BomInv'
  <1> SUFFICES ASSUME BomInv, [ScreensNext]_<<vars, explodeVars, capacityVars, page>>
               PROVE  BomInv'
    OBVIOUS
  <1>1. [ExplodeNext]_<<vars, explodeVars>>
    <2>1. CASE ExplodeNext
      BY <2>1
    <2>2. CASE CapacityNext
      BY <2>2 DEF CapacityNext, RefuseEmptyPlan, LoadRouting, Judge, Loading,
                  RefuseRelief, AttributeRouting, Explain, Explaining
    <2>3. CASE UNCHANGED <<vars, explodeVars>>
      BY <2>3
    <2> QED
      BY <2>1, <2>2, <2>3 DEF ScreensNext
  <1> QED
    BY <1>1, StepBomInv

LEMMA BomInvariant == ScreensSpec => []BomInv
  <1>1. ScreensInitAll => BomInv
    BY InitBomInv DEF ScreensInitAll
  <1> QED
    BY <1>1, StepScreensBomInv, PTL DEF ScreensSpec

\* Every BOM is refused exactly for the cause the message names, whatever the order of its
\* edges, and every other one is planned.
THEOREM BomsAreRefusedForCause == ScreensSpec => []RefusedForCause
  <1>1. BomInv => RefusedForCause
    BY RefusalsHaveCause DEF BomInv
  <1> QED
    BY <1>1, BomInvariant, PTL

\* Nothing a plan needs is lost between levels: every planned SKU is asked for its own
\* demand and for what every planned parent releases, bucket by bucket, however many
\* parents a component has and in whatever order the edges stand.
THEOREM RequirementsAreAlwaysComplete == ScreensSpec => []RequirementsAreComplete
  <1>1. BomInv => RequirementsAreComplete
    <2> SUFFICES ASSUME BomInv, stage = "planned", NEW n \in DOMAIN plans, NEW b \in Bucket
                 PROVE
            LET s == plans[n].sku
                pull(i) == LET m == CHOOSE m \in DOMAIN plans : plans[m].sku = Parent(i)
                           IN plans[m].releases[b] * plant.bom[i].qty
            IN plans[n].gross[b] =
                 plant.parts[s].gross[b]
                 + SumFunction([i \in {j \in Edges : Child(j) = s} |-> pull(i)])
      BY DEF RequirementsAreComplete
    <2> PICK bom, ps, s : bom = plant.bom /\ ps = plans /\ s = plans[n].sku
      OBVIOUS
    <2>1. /\ ps[n].gross[b] = plant.parts[s].gross[b]
                                + SumFunctionOnSet(Pulls(bom, ps, b), Into(bom, s))
          /\ bom \in Seq(BomEdge)
      BY DEF BomInv, PlanningInv, Progress, Complete, PlantInv
    <2>2. {j \in Edges : Child(j) = s} = Into(bom, s)
      BY DEF Edges, Child, Into
    <2> DEFINE pull(i) == LET m == CHOOSE m \in DOMAIN plans : plans[m].sku = Parent(i)
                          IN plans[m].releases[b] * plant.bom[i].qty
    <2> PICK h : h = [i \in Into(bom, s) |-> pull(i)]
      OBVIOUS
    <2>3. DOMAIN h = Into(bom, s) /\ \A i \in Into(bom, s) : h[i] = Pulls(bom, ps, b)[i]
      BY DEF Pulls, Rel, Into, Parent
    <2>4. SumFunction(h) = SumFunctionOnSet(Pulls(bom, ps, b), Into(bom, s))
      <3>1. IsFiniteSet(Into(bom, s))
        BY <2>1, EdgesAreFinite DEF Into
      <3>2. SumFunctionOnSet(h, Into(bom, s)) = SumFunctionOnSet(Pulls(bom, ps, b), Into(bom, s))
        BY <2>3, <3>1, SumSame DEF Agree
      <3> QED
        BY <2>3, <3>2 DEF SumFunction
    <2> QED
      BY <2>1, <2>2, <2>4
  <1> QED
    BY <1>1, BomInvariant, PTL

\* What holds of the plan of one item holds of every item a run over a product structure
\* plans, its dependent demand included: what it buys is enough and no more ...
THEOREM EveryItemBuysJustEnough == ScreensSpec => []StockIsJustEnough
  <1>1. BomInv => EnoughInv
    BY DEF BomInv, NettingInv, EnoughInv
  <1> QED
    BY <1>1, JustEnough, BomInvariant, PTL

\* ... the lots Wagner-Whitin chooses for it are the cheapest ...
THEOREM EveryItemsLotsAreCheapest == ScreensSpec => []LotsAreCheapest
  <1>1. BomInv => LotsAreCheapest
    BY CheapestLots DEF BomInv, NettingInv
  <1> QED
    BY <1>1, BomInvariant, PTL

\* ... and what it buys is released in time, or reported.
THEOREM EveryItemIsReleasedInTime == ScreensSpec => []ReleasedInTime
  <1>1. BomInv => ReleasedInTime
    BY InTime DEF BomInv, NettingInv
  <1> QED
    BY <1>1, BomInvariant, PTL

------------------------------------------------------------------------------
(***************************************************************************)
(* Capacity: the loop over the routings loads what they all ask for.       *)
(***************************************************************************)
Task == [sku : Nat, res : Nat, perUnit : Nat, setup : Nat]

IsShop(h) ==
    /\ h.routings \in Seq(Task)
    /\ \A r \in DOMAIN h.hours : h.hours[r] \in [Bucket -> Nat]
    /\ h.growth \in [Bucket -> Nat \ {0}]

\* What a list of plans releases of a SKU.
Out(ps, s) ==
    LET mine == {n \in DOMAIN ps : ps[n].sku = s}
    IN IF mine = {} THEN Zeros ELSE ps[CHOOSE n \in mine : TRUE].releases

\* The hours every routing of a list adds to a slot, a resource and a bucket.
Work(tasks, ps, s) ==
    [i \in DOMAIN tasks |->
        IF tasks[i].res = s[1] /\ Out(ps, tasks[i].sku)[s[2]] > 0
        THEN Out(ps, tasks[i].sku)[s[2]] * tasks[i].perUnit + tasks[i].setup ELSE 0]

\* The slots of a list of routings, and what its first n routings load on each.
Places(tasks) == {tasks[i].res : i \in DOMAIN tasks} \X Bucket
Loads(tasks, ps, n) ==
    [s \in Places(tasks) |-> SumFunctionOnSet(Work(tasks, ps, s), 1..n)]

ShopInv == IsShop(plant.shop)

\* The loop over the routings, before it, in it and after it.
LoadInv ==
    /\ stage # "planned" => at = 1 /\ verdict = NoAnswer /\ load = Loads(Shop.routings, plans, 0)
    /\ verdict = NoAnswer =>
          /\ at \in 1..(Len(Shop.routings) + 1)
          /\ load = Loads(Shop.routings, plans, at - 1)
    /\ verdict.status = "loaded" =>
          /\ stage = "planned"
          /\ load = Loads(Shop.routings, plans, Len(Shop.routings))
          /\ verdict.overloaded = {s \in Slots : TooMuch(load[s], Available(s[1], s[2]))}
          /\ verdict.feasible <=> verdict.overloaded = {}

FitInv == BomInv /\ ShopInv /\ LoadInv

LEMMA ReleasedIs == \A s : Released(s) = Out(plans, s)
  BY DEF Released, Out

LEMMA OutTypes ==
    ASSUME NEW ps, \A n \in DOMAIN ps : ps[n].releases \in [Bucket -> Nat], NEW s
    PROVE  Out(ps, s) \in [Bucket -> Nat]
  <1> PICK mine : mine = {n \in DOMAIN ps : ps[n].sku = s}
    OBVIOUS
  <1>1. CASE mine = {}
    <2>1. Out(ps, s) = Zeros
      BY <1>1 DEF Out
    <2> QED
      BY <2>1 DEF Zeros
  <1>2. CASE mine # {}
    <2>1. Out(ps, s) = ps[CHOOSE n \in mine : TRUE].releases
      BY <1>2 DEF Out
    <2>2. (CHOOSE n \in mine : TRUE) \in mine
      BY <1>2
    <2>3. (CHOOSE n \in mine : TRUE) \in DOMAIN ps
      BY <2>2
    <2> QED
      BY <2>1, <2>3
  <1> QED
    BY <1>1, <1>2

LEMMA PlansAreTyped ==
    ASSUME BomInv
    PROVE  \A n \in DOMAIN plans : plans[n].releases \in [Bucket -> Nat]
  <1>1. CASE stage \in {"plan", "planned"}
    BY <1>1 DEF BomInv, PlanningInv, Progress, PlanRows
  <1>2. CASE stage \notin {"plan", "planned"}
    <2>1. plans = <<>>
      BY <1>2 DEF BomInv, PlanningInv
    <2> QED
      BY <2>1
  <1> QED
    BY <1>1, <1>2

LEMMA WorkTypes ==
    ASSUME NEW tasks \in Seq(Task), NEW ps, \A n \in DOMAIN ps : ps[n].releases \in [Bucket -> Nat],
           NEW s, s[2] \in Bucket
    PROVE  /\ DOMAIN tasks = 1..Len(tasks) /\ Len(tasks) \in Nat
           /\ \A i \in 1..Len(tasks) :
                /\ tasks[i].sku \in Nat /\ tasks[i].res \in Nat
                /\ tasks[i].perUnit \in Nat /\ tasks[i].setup \in Nat
                /\ Out(ps, tasks[i].sku)[s[2]] \in Nat
                /\ Out(ps, tasks[i].sku)[s[2]] * tasks[i].perUnit \in Nat
                /\ Work(tasks, ps, s)[i] \in Nat
  <1>1. DOMAIN tasks = 1..Len(tasks) /\ Len(tasks) \in Nat
    BY LenProperties
  <1>2. ASSUME NEW i \in 1..Len(tasks)
        PROVE  /\ tasks[i].sku \in Nat /\ tasks[i].res \in Nat
               /\ tasks[i].perUnit \in Nat /\ tasks[i].setup \in Nat
    <2>1. tasks[i] \in Task
      BY <1>1, ElementOfSeq
    <2> QED
      BY <2>1 DEF Task
  <1>3. ASSUME NEW i \in 1..Len(tasks)
        PROVE  /\ Out(ps, tasks[i].sku)[s[2]] \in Nat
               /\ Out(ps, tasks[i].sku)[s[2]] * tasks[i].perUnit \in Nat
               /\ Work(tasks, ps, s)[i] \in Nat
    <2> PICK o, u : o = Out(ps, tasks[i].sku)[s[2]] /\ u = tasks[i].perUnit
      OBVIOUS
    <2>1. o \in Nat /\ u \in Nat /\ tasks[i].setup \in Nat
      BY <1>2, OutTypes
    <2>2. o * u \in Nat
      BY <2>1, ProductNat
    <2>3. Work(tasks, ps, s)[i] = IF tasks[i].res = s[1] /\ o > 0 THEN o * u + tasks[i].setup ELSE 0
      BY <1>1 DEF Work
    <2> QED
      BY <2>1, <2>2, <2>3
  <1> QED
    BY <1>1, <1>2, <1>3

\* The routings that work in a slot, the hours of their units and their setups.
UnitsAndSetups(tasks, ps, s, used, units, setups) ==
    /\ used = {i \in 1..Len(tasks) : tasks[i].res = s[1] /\ Out(ps, tasks[i].sku)[s[2]] > 0}
    /\ DOMAIN units = used /\ DOMAIN setups = used
    /\ \A i \in used : /\ units[i] = Out(ps, tasks[i].sku)[s[2]] * tasks[i].perUnit
                       /\ setups[i] = tasks[i].setup

\* The load of a slot is every unit's hours and every used routing's setup.
LEMMA WorkSplits ==
    ASSUME NEW tasks \in Seq(Task), NEW ps, \A n \in DOMAIN ps : ps[n].releases \in [Bucket -> Nat],
           NEW s, s[2] \in Bucket,
           NEW used, NEW units, NEW setups, UnitsAndSetups(tasks, ps, s, used, units, setups)
    PROVE  /\ SumFunctionOnSet(Work(tasks, ps, s), 1..Len(tasks)) = SumFunction(units) + SumFunction(setups)
           /\ SumFunctionOnSet(Work(tasks, ps, s), 1..Len(tasks)) \in Nat
  <1> PICK f, L : f = Work(tasks, ps, s) /\ L = Len(tasks)
    OBVIOUS
  <1> PICK idle : idle = (1..L) \ used
    OBVIOUS
  <1>0. /\ used = {i \in 1..L : tasks[i].res = s[1] /\ Out(ps, tasks[i].sku)[s[2]] > 0}
        /\ DOMAIN units = used /\ DOMAIN setups = used
        /\ \A i \in used : /\ units[i] = Out(ps, tasks[i].sku)[s[2]] * tasks[i].perUnit
                           /\ setups[i] = tasks[i].setup
    BY DEF UnitsAndSetups
  <1>1. /\ DOMAIN tasks = 1..L /\ L \in Nat
        /\ \A i \in 1..L : f[i] \in Nat /\ Out(ps, tasks[i].sku)[s[2]] * tasks[i].perUnit \in Nat
                             /\ tasks[i].setup \in Nat
    BY WorkTypes
  <1>2. IsFiniteSet(1..L) /\ IsFiniteSet(used) /\ IsFiniteSet(idle)
    <2>1. IsFiniteSet(1..L)
      BY <1>1, FS_Interval
    <2>2. used \subseteq 1..L /\ idle \subseteq 1..L
      BY <1>0
    <2> QED
      BY <2>1, <2>2, FS_Subset
  <1>3. used \cup idle = 1..L /\ used \cap idle = {}
    BY <1>0
  <1>4. IntOn(f, used \cup idle) /\ NatOn(f, 1..L) /\ IntOn(f, 1..L)
    BY <1>1, <1>3 DEF IntOn, NatOn
  <1>5. SumFunctionOnSet(f, used \cup idle) = SumFunctionOnSet(f, used) + SumFunctionOnSet(f, idle)
    BY <1>2, <1>3, <1>4, SumUnion
  <1>6. SumFunctionOnSet(f, idle) = 0
    <2>1. \A i \in idle : f[i] = 0
      BY <1>0, <1>1 DEF Work
    <2> QED
      BY <1>2, <2>1, SumOfZeros
  <1>7. SumFunctionOnSet(f, used) = SumFunctionOnSet(units, used) + SumFunctionOnSet(setups, used)
    <2>1. IntOn(units, used) /\ IntOn(setups, used)
      <3>1. \A i \in used : units[i] \in Nat /\ setups[i] \in Nat
        BY <1>0, <1>1, Zenon
      <3> QED
        BY <3>1 DEF IntOn
    <2>2. \A i \in used : f[i] = units[i] + setups[i]
      BY <1>0, <1>1 DEF Work
    <2> QED
      BY <1>2, <2>1, <2>2, SumPlus
  <1>8. SumFunctionOnSet(f, used) \in Int
    <2>1. IntOn(f, used)
      BY <1>4 DEF IntOn
    <2> QED
      BY <1>2, <2>1, SumInt
  <1>9. SumFunctionOnSet(f, 1..L) \in Nat
    BY <1>2, <1>4, SumInt
  <1>10. SumFunction(units) = SumFunctionOnSet(units, used)
        /\ SumFunction(setups) = SumFunctionOnSet(setups, used)
    BY <1>0, Zenon DEF SumFunction
  <1>11. SumFunctionOnSet(f, 1..L) = SumFunctionOnSet(f, used) + SumFunctionOnSet(f, idle)
    BY <1>3, <1>5, Zenon
  <1>12. SumFunctionOnSet(f, 1..L) = SumFunctionOnSet(f, used)
    BY <1>6, <1>8, <1>11
  <1> QED
    BY <1>7, <1>9, <1>10, <1>12, Zenon

\* Nothing is loaded before the first routing.
LEMMA NothingLoaded == [s \in Slots |-> 0] = Loads(Shop.routings, plans, 0)
  <1>1. Slots = Places(Shop.routings)
    BY DEF Slots, Places, Resource, Routings, Routing
  <1>2. 1..0 = {}
    OBVIOUS
  <1>3. \A s : SumFunctionOnSet(Work(Shop.routings, plans, s), 1..0) = 0
    BY <1>2, SumEmpty
  <1> QED
    BY <1>1, <1>3 DEF Loads

LEMMA InitFitInv == ScreensInitAll => FitInv
  <1> SUFFICES ASSUME ScreensInitAll PROVE FitInv
    OBVIOUS
  <1>1. BomInv
    BY InitBomInv DEF ScreensInitAll
  <1>2. ShopInv
    <2>1. PICK p \in Plant : \E f \in p.parts, h \in p.shop : plant = [p EXCEPT !.parts = f, !.shop = h]
      BY DEF ScreensInitAll, ExplodeInit
    <2>2. PICK f \in p.parts : \E h \in p.shop : plant = [p EXCEPT !.parts = f, !.shop = h]
      BY <2>1
    <2>3. PICK h \in p.shop : plant = [p EXCEPT !.parts = f, !.shop = h]
      BY <2>2
    <2>4. {"parts", "shop"} \subseteq DOMAIN p
      BY PlantAssumption
    <2>5. plant.shop = h
      BY <2>3, <2>4
    <2>6. IsShop(h)
      BY ShopAssumption DEF IsShop, Task
    <2> QED
      BY <2>5, <2>6 DEF ShopInv
  <1>3. LoadInv
    <2>1. at = 1 /\ verdict = NoAnswer /\ load = [s \in Slots |-> 0]
      BY DEF ScreensInitAll, CapacityInit
    <2>2. stage = "costs"
      BY DEF ScreensInitAll, ExplodeInit
    <2>3. load = Loads(Shop.routings, plans, 0)
      BY <2>1, NothingLoaded
    <2>4. Len(Shop.routings) \in Nat
      BY <1>2, LenProperties DEF ShopInv, IsShop, Shop
    <2> QED
      BY <2>1, <2>2, <2>3, <2>4 DEF LoadInv, NoAnswer
  <1> QED
    BY <1>1, <1>2, <1>3 DEF FitInv

\* One more routing.
LEMMA LoadsNext ==
    ASSUME NEW tasks \in Seq(Task), NEW ps, \A n \in DOMAIN ps : ps[n].releases \in [Bucket -> Nat],
           NEW k \in 1..Len(tasks)
    PROVE  \A s \in Places(tasks) :
             Loads(tasks, ps, k)[s] = Loads(tasks, ps, k - 1)[s] + Work(tasks, ps, s)[k]
  <1> SUFFICES ASSUME NEW s \in Places(tasks)
               PROVE  Loads(tasks, ps, k)[s] = Loads(tasks, ps, k - 1)[s] + Work(tasks, ps, s)[k]
    OBVIOUS
  <1> PICK f : f = Work(tasks, ps, s)
    OBVIOUS
  <1>1. s[2] \in Bucket
    BY DEF Places
  <1>2. Len(tasks) \in Nat /\ \A i \in 1..Len(tasks) : f[i] \in Nat
    BY <1>1, WorkTypes
  <1> PICK S : S = 1..(k - 1)
    OBVIOUS
  <1>3. IsFiniteSet(S) /\ k \notin S /\ S \cup {k} = 1..k /\ k - 1 \in Nat
    <2>1. k \in Nat /\ k - 1 \in Nat /\ k >= 1
      BY <1>2
    <2>2. IsFiniteSet(1..(k - 1))
      BY <2>1, FS_Interval
    <2> QED
      BY <2>1, <2>2
  <1>4. IntOn(f, S \cup {k}) /\ IntOn(f, S)
    BY <1>2, <1>3 DEF IntOn
  <1>5. SumFunctionOnSet(f, S \cup {k}) = f[k] + SumFunctionOnSet(f, S)
    BY <1>3, <1>4, SumAdd
  <1>6. SumFunctionOnSet(f, S) \in Int /\ f[k] \in Int
    BY <1>2, <1>3, <1>4, SumInt
  <1>7. Loads(tasks, ps, k)[s] = SumFunctionOnSet(f, 1..k) /\ Loads(tasks, ps, k - 1)[s] = SumFunctionOnSet(f, S)
    BY DEF Loads
  <1>8. Loads(tasks, ps, k)[s] = f[k] + SumFunctionOnSet(f, S)
    BY <1>3, <1>5, <1>7, Zenon
  <1>9. f[k] + SumFunctionOnSet(f, S) = SumFunctionOnSet(f, S) + f[k]
    BY <1>6
  <1> QED
    BY <1>7, <1>8, <1>9, Zenon

LEMMA LoadStep ==
    ASSUME FitInv, LoadRouting
    PROVE  LoadInv'
  <1>a. PICK tasks \in Seq(Task) : tasks = plant.shop.routings
    BY DEF FitInv, ShopInv, IsShop
  <1>b. PICK ps, k : ps = plans /\ k = at
    OBVIOUS
  <1>1. /\ UNCHANGED <<stage, plant, plans, verdict>>
        /\ stage = "planned" /\ verdict = NoAnswer /\ k \in DOMAIN tasks /\ at' = k + 1
    BY <1>a, <1>b DEF LoadRouting, Loading, explodeVars, Routings, Shop
  <1>2. tasks \in Seq(Task) /\ \A n \in DOMAIN ps : ps[n].releases \in [Bucket -> Nat]
    BY <1>a, <1>b, PlansAreTyped DEF FitInv
  <1>3. Len(tasks) \in Nat /\ DOMAIN tasks = 1..Len(tasks) /\ k \in 1..Len(tasks)
    BY <1>1, <1>2, LenProperties
  <1>4. load = Loads(tasks, ps, k - 1)
    BY <1>1, <1>a, <1>b DEF FitInv, LoadInv, Shop
  <1>5. Slots = Places(tasks)
    BY <1>a DEF Slots, Places, Resource, Routings, Routing, Shop
  <1>6. ASSUME NEW s \in Places(tasks)
        PROVE  Work(tasks, ps, s)[k] = IF s[1] = Routing(at).res /\ Makes(at, s[2])
                                       THEN HoursFor(at, s[2]) ELSE 0
    BY <1>1, <1>a, <1>b, ReleasedIs, Zenon DEF Work, Makes, HoursFor, Routing, Shop
  <1>7. load' = [s \in Places(tasks) |-> Loads(tasks, ps, k - 1)[s] + Work(tasks, ps, s)[k]]
    <2>1. load' = [s \in Slots |->
                   load[s] + IF s[1] = Routing(at).res /\ Makes(at, s[2])
                             THEN HoursFor(at, s[2]) ELSE 0]
      BY DEF LoadRouting
    <2> QED
      BY <1>4, <1>5, <1>6, <2>1
  <1>8. load' = Loads(tasks, ps, k)
    <2>1. \A s \in Places(tasks) :
             Loads(tasks, ps, k)[s] = Loads(tasks, ps, k - 1)[s] + Work(tasks, ps, s)[k]
      BY <1>2, <1>3, LoadsNext
    <2>2. Loads(tasks, ps, k) = [s \in Places(tasks) |-> Loads(tasks, ps, k)[s]]
      BY DEF Loads
    <2> QED
      BY <1>7, <2>1, <2>2
  <1>9. (k + 1) - 1 = k /\ k + 1 \in 1..(Len(tasks) + 1)
    BY <1>3
  <1> QED
    BY <1>1, <1>8, <1>9, <1>a, <1>b DEF LoadInv, Shop, NoAnswer

LEMMA JudgeStep ==
    ASSUME FitInv, Judge
    PROVE  LoadInv'
  <1> PICK tasks \in Seq(Task) : tasks = plant.shop.routings
    BY DEF FitInv, ShopInv, IsShop
  <1>1. /\ UNCHANGED <<stage, plant, plans, load>>
        /\ stage = "planned" /\ verdict = NoAnswer /\ at \notin DOMAIN tasks
    BY DEF Judge, Loading, explodeVars, Routings, Shop
  <1>2. Len(tasks) \in Nat /\ DOMAIN tasks = 1..Len(tasks)
    BY LenProperties
  <1>3. at \in 1..(Len(tasks) + 1) /\ load = Loads(tasks, plans, at - 1)
    BY <1>1 DEF FitInv, LoadInv, Shop
  <1>4. at - 1 = Len(tasks)
    BY <1>1, <1>2, <1>3
  <1> PICK over : over = {s \in Slots : TooMuch(load[s], Available(s[1], s[2]))}
    OBVIOUS
  <1>5. verdict' = [status |-> "loaded", overloaded |-> over, feasible |-> over = {},
                      shut |-> {s \in over : Available(s[1], s[2]) = 0}]
    BY DEF Judge
  <1>6. over = {s \in Slots' : TooMuch(load'[s], Available(s[1], s[2])')}
    BY <1>1 DEF Slots, Resource, Routings, Routing, Shop, Available
  <1>7. verdict' # NoAnswer
    BY <1>5 DEF NoAnswer
  <1>8. verdict'.overloaded = over /\ (verdict'.feasible <=> over = {})
    BY <1>5
  <1> QED
    BY <1>1, <1>3, <1>4, <1>6, <1>7, <1>8 DEF LoadInv, Shop

LEMMA StepFitInv == FitInv /\ [ScreensNext]_<<vars, explodeVars, capacityVars, page>> => FitInv'
  <1> SUFFICES ASSUME FitInv, [ScreensNext]_<<vars, explodeVars, capacityVars, page>> PROVE FitInv'
    OBVIOUS
  <1>1. BomInv'
    BY StepScreensBomInv DEF FitInv
  <1>2. plant' = plant
    BY DEF ScreensNext, ExplodeNext, explodeVars, AsMaster, PriceLots, RefuseRouting, Pricing,
           RefuseEdge, RelaxEdge, Relaxing, NextRound, RefuseCycle, StartPlanning, PlanItem, HandDown,
           CapacityNext, RefuseEmptyPlan, LoadRouting, Judge, Loading,
           RefuseRelief, AttributeRouting, Explain, Explaining
  <1>3. ShopInv'
    BY <1>2 DEF FitInv, ShopInv
  <1>4. LoadInv'
    <2>1. CASE ExplodeNext /\ UNCHANGED <<capacityVars, page>>
      <3>1. stage # "planned"
        BY <2>1 DEF ExplodeNext, AsMaster, PriceLots, RefuseRouting, Pricing,
           RefuseEdge, RelaxEdge, Relaxing, NextRound, RefuseCycle, RoundOver, StartPlanning, PlanItem, HandDown
      <3>2. at = 1 /\ verdict = NoAnswer /\ load = Loads(Shop.routings, plans, 0)
        BY <3>1 DEF FitInv, LoadInv
      <3>3. at' = 1 /\ verdict' = NoAnswer /\ load' = load
        BY <2>1, <3>2 DEF capacityVars
      <3>4. load = [s \in Slots |-> 0]
        BY <3>2, NothingLoaded
      <3>5. ([s \in Slots |-> 0] = Loads(Shop.routings, plans, 0))'
        BY NothingLoaded, PTL
      <3>6. Slots' = Slots
        BY <1>2 DEF Slots, Resource, Routings, Routing, Shop
      <3>7. load' = Loads(Shop.routings, plans, 0)'
        BY <3>3, <3>4, <3>5, <3>6
      <3>8. Len(Shop.routings)' \in Nat
        BY <1>3, LenProperties DEF ShopInv, IsShop, Shop
      <3> QED
        BY <3>3, <3>7, <3>8 DEF LoadInv, NoAnswer
    <2>2. CASE RefuseEmptyPlan
      <3>1. UNCHANGED <<stage, plant, plans, at, load>> /\ verdict' = [status |-> "no_plan"] /\ stage = "planned"
        BY <2>2 DEF RefuseEmptyPlan, Loading, explodeVars
      <3> QED
        BY <3>1 DEF LoadInv, NoAnswer
    <2>3. CASE LoadRouting
      BY <2>3, LoadStep
    <2>4. CASE Judge
      BY <2>4, JudgeStep
    <2>5. CASE RefuseRelief \/ AttributeRouting \/ Explain
      <3>1. UNCHANGED <<stage, plant, plans, load, verdict>> /\ verdict.status # "none"
        BY <2>5 DEF RefuseRelief, AttributeRouting, Explain, Explaining, explodeVars
      <3>2. verdict # NoAnswer
        BY <3>1 DEF NoAnswer
      <3> QED
        BY <3>1, <3>2 DEF FitInv, LoadInv, Shop, Slots, Resource, Routings, Routing, Available
    <2>6. CASE UNCHANGED <<vars, explodeVars, capacityVars>>
      <3>1. UNCHANGED <<stage, plant, plans, at, load, verdict>>
        BY <2>6 DEF explodeVars, capacityVars
      <3> QED
        BY <3>1 DEF FitInv, LoadInv, Shop, Slots, Resource, Routings, Routing, Available
    <2> QED
      BY <2>1, <2>2, <2>3, <2>4, <2>5, <2>6 DEF ScreensNext, CapacityNext
  <1> QED
    BY <1>1, <1>3, <1>4 DEF FitInv

LEMMA FitInvariant == ScreensSpec => []FitInv
  BY InitFitInv, StepFitInv, PTL DEF ScreensSpec

LEMMA AvailableTypes ==
    ASSUME ShopInv, NEW r, NEW b \in Bucket
    PROVE  /\ Available(r, b) \in Nat
           /\ Shop.growth[b] = 1 =>
                Available(r, b) = IF r \in DOMAIN Shop.hours THEN Shop.hours[r][b] ELSE 0
  <1> PICK h : h = plant.shop
    OBVIOUS
  <1>1. Shop.growth[b] \in Nat \ {0}
    BY DEF ShopInv, IsShop, Shop
  <1>2. CASE r \in DOMAIN Shop.hours
    <2> PICK x, g : x = Shop.hours[r][b] /\ g = Shop.growth[b]
      OBVIOUS
    <2>1. x \in Nat /\ g \in Nat
      BY <1>1, <1>2 DEF ShopInv, IsShop, Shop
    <2>2. x * g \in Nat
      BY <2>1, ProductNat
    <2>3. g = 1 => x * g = x
      BY <2>1
    <2>4. Available(r, b) = x * g
      BY <1>2 DEF Available
    <2> QED
      BY <1>2, <2>2, <2>3, <2>4
  <1>3. CASE r \notin DOMAIN Shop.hours
    BY <1>3 DEF Available
  <1> QED
    BY <1>2, <1>3

\* A resource and bucket are overloaded exactly when the hours of the units released and
\* the setups of the routings used exceed what is available.
LEMMA FitsExactly ==
    ASSUME FitInv, verdict.status = "loaded", NEW r \in Resource, NEW b \in Bucket
    PROVE  /\ load[<<r, b>>] \in Nat
           /\ <<r, b>> \notin verdict.overloaded <=> load[<<r, b>>] <= Available(r, b)
           /\ LET used == {i \in Routings : Routing(i).res = r /\ Makes(i, b)}
              IN load[<<r, b>>] =
                   SumFunction([i \in used |-> Released(Routing(i).sku)[b] * Routing(i).perUnit])
                     + SumFunction([i \in used |-> Routing(i).setup])
  <1>t. PICK tasks \in Seq(Task) : tasks = plant.shop.routings
    BY DEF FitInv, ShopInv, IsShop
  <1>p. PICK ps, s : ps = plans /\ s = <<r, b>>
    OBVIOUS
  <1>1. \A n \in DOMAIN ps : ps[n].releases \in [Bucket -> Nat]
    BY <1>t, <1>p, PlansAreTyped DEF FitInv
  <1>2. Len(tasks) \in Nat /\ DOMAIN tasks = 1..Len(tasks)
    BY LenProperties
  <1>3. Slots = Places(tasks)
    BY <1>t, <1>p DEF Slots, Places, Resource, Routings, Routing, Shop
  <1>4. s \in Places(tasks) /\ s \in Slots /\ s[1] = r /\ s[2] = b
    BY <1>t, <1>p, <1>3 DEF Slots
  <1>5. load[s] = SumFunctionOnSet(Work(tasks, ps, s), 1..Len(tasks))
    BY <1>t, <1>p, <1>4 DEF FitInv, LoadInv, Shop, Loads
  <1>u. PICK used : used = {i \in 1..Len(tasks) : tasks[i].res = s[1] /\ Out(ps, tasks[i].sku)[s[2]] > 0}
    OBVIOUS
  <1>v. PICK units : units = [i \in used |-> Out(ps, tasks[i].sku)[s[2]] * tasks[i].perUnit]
    OBVIOUS
  <1>w. PICK setups : setups = [i \in used |-> tasks[i].setup]
    OBVIOUS
  <1>6. /\ DOMAIN units = used /\ DOMAIN setups = used
        /\ \A i \in used : units[i] = Out(ps, tasks[i].sku)[s[2]] * tasks[i].perUnit
        /\ \A i \in used : setups[i] = tasks[i].setup
    BY <1>v, <1>w
  <1>s. UnitsAndSetups(tasks, ps, s, used, units, setups)
    BY <1>6, <1>u DEF UnitsAndSetups
  <1>7. load[s] = SumFunction(units) + SumFunction(setups) /\ load[s] \in Nat
    BY <1>1, <1>4, <1>5, <1>s, WorkSplits
  <1>8. used = {i \in Routings : Routing(i).res = r /\ Makes(i, b)}
    BY <1>t, <1>p, <1>2, <1>4, <1>u, ReleasedIs DEF Routings, Routing, Shop, Makes
  <1>9. units = [i \in used |-> Released(Routing(i).sku)[b] * Routing(i).perUnit]
    BY <1>t, <1>p, <1>4, <1>v, ReleasedIs DEF Routing, Shop
  <1>10. setups = [i \in used |-> Routing(i).setup]
    BY <1>t, <1>p, <1>w DEF Routing, Shop
  <1>11. s \in verdict.overloaded <=> TooMuch(load[s], Available(r, b))
    BY <1>t, <1>p, <1>4 DEF FitInv, LoadInv
  <1>12. Available(r, b) \in Nat
    BY AvailableTypes DEF FitInv
  <1>13. s \notin verdict.overloaded <=> load[s] <= Available(r, b)
    BY <1>t, <1>p, <1>7, <1>11, <1>12 DEF TooMuch
  <1> QED
    BY <1>t, <1>p, <1>7, <1>8, <1>9, <1>10, <1>13

\* With the hours as they stand, a plan that fits each resource fits all of them together.
LEMMA NothingBraked ==
    ASSUME FitInv, verdict.status = "loaded", verdict.feasible, NEW b \in Bucket, Shop.growth[b] = 1
    PROVE  ~Braked(b)
  <1> PICK R : R = Resource
    OBVIOUS
  <1>f. PICK f : f = [r \in R |-> load[<<r, b>>]]
    OBVIOUS
  <1>g. PICK g : g = [r \in R |-> IF r \in DOMAIN Shop.hours THEN Shop.hours[r][b] ELSE 0]
    OBVIOUS
  <1>1. DOMAIN f = R /\ DOMAIN g = R
    BY <1>f, <1>g
  <1>2. ASSUME NEW r \in R PROVE f[r] \in Nat /\ g[r] \in Nat /\ f[r] <= g[r]
    <2>1. /\ load[<<r, b>>] \in Nat
          /\ <<r, b>> \notin verdict.overloaded <=> load[<<r, b>>] <= Available(r, b)
      BY FitsExactly
    <2>2. verdict.overloaded = {}
      BY DEF FitInv, LoadInv
    <2>3. Available(r, b) \in Nat /\ Available(r, b) = g[r]
      BY <1>g, AvailableTypes DEF FitInv
    <2> QED
      BY <1>f, <2>1, <2>2, <2>3
  <1>3. IsFiniteSet(R)
    <2> PICK tasks \in Seq(Task) : tasks = plant.shop.routings
      BY DEF FitInv, ShopInv, IsShop
    <2>1. IsFiniteSet(DOMAIN tasks)
      <3>1. DOMAIN tasks = 1..Len(tasks) /\ Len(tasks) \in Nat
        BY LenProperties
      <3> QED
        BY <3>1, FS_Interval
    <2>h. PICK h : h = [i \in DOMAIN tasks |-> tasks[i].res]
      OBVIOUS
    <2>2. R = {h[i] : i \in DOMAIN tasks}
      BY <2>h DEF Resource, Routings, Routing, Shop
    <2> QED
      BY <2>1, <2>2, ImageIsFinite
  <1>4. IntOn(f, R) /\ IntOn(g, R) /\ \A r \in R : f[r] <= g[r]
    BY <1>2 DEF IntOn
  <1>5. SumFunctionOnSet(f, R) <= SumFunctionOnSet(g, R)
    BY <1>3, <1>4, SumMonotone
  <1>6. SumFunctionOnSet(f, R) \in Int /\ SumFunctionOnSet(g, R) \in Int
    BY <1>3, <1>4, SumInt
  <1>7. TotalLoad(b) = SumFunctionOnSet(f, R)
    BY <1>f, <1>1 DEF TotalLoad, SumFunction
  <1>8. TotalHours(b) = SumFunctionOnSet(g, R)
    BY <1>g, <1>1 DEF TotalHours, SumFunction
  <1> QED
    BY <1>5, <1>6, <1>7, <1>8 DEF Braked

\* The verdict on capacity counts every unit's hours and one setup for every routing used,
\* resource by resource and bucket by bucket, and a plan it calls feasible is not slowed
\* down by the replay's capacity factor as long as no growth is assumed.
THEOREM FeasiblePlansAlwaysFit == ScreensSpec => []FeasiblePlansFit
  <1>1. FitInv => FeasiblePlansFit
    <2> SUFFICES ASSUME FitInv, verdict.status = "loaded" PROVE FeasiblePlansFit
      BY DEF FeasiblePlansFit
    <2>1. verdict.overloaded \subseteq Slots /\ (verdict.feasible <=> verdict.overloaded = {})
      BY DEF FitInv, LoadInv
    <2>2. verdict.overloaded = {} <=>
            \A r \in Resource, b \in Bucket : <<r, b>> \notin verdict.overloaded
      BY <2>1 DEF Slots
    <2>3. verdict.feasible <=>
             \A r \in Resource, b \in Bucket :
                LET used == {i \in Routings : Routing(i).res = r /\ Makes(i, b)}
                IN SumFunction([i \in used |-> Released(Routing(i).sku)[b] * Routing(i).perUnit])
                     + SumFunction([i \in used |-> Routing(i).setup]) <= Available(r, b)
      <3>1. ASSUME NEW r \in Resource, NEW b \in Bucket
            PROVE  <<r, b>> \notin verdict.overloaded <=>
                     LET used == {i \in Routings : Routing(i).res = r /\ Makes(i, b)}
                     IN SumFunction([i \in used |-> Released(Routing(i).sku)[b] * Routing(i).perUnit])
                          + SumFunction([i \in used |-> Routing(i).setup]) <= Available(r, b)
        BY FitsExactly
      <3> QED
        BY <2>1, <2>2, <3>1
    <2>4. verdict.feasible /\ (\A b \in Bucket : Shop.growth[b] = 1) => \A b \in Bucket : ~Braked(b)
      BY NothingBraked
    <2> QED
      BY <2>3, <2>4 DEF FeasiblePlansFit
  <1> QED
    BY <1>1, FitInvariant, PTL

------------------------------------------------------------------------------
(***************************************************************************)
(* The explanation of the overloads.                                       *)
(***************************************************************************)
\* What the loop of the explanation has of a slot: the hours of each SKU that is
\* at work there, which add up to its load.
Parts(ps, s, e, hours) ==
    /\ e = [x \in DOMAIN e |-> e[x]]
    /\ IsFiniteSet(DOMAIN e) /\ DOMAIN e \subseteq Nat
    /\ \A x \in DOMAIN e : e[x] \in Nat /\ Out(ps, x)[s[2]] > 0
    /\ SumFunction(e) = hours

\* The entry of one more routing.
Added(e, sku, hours) ==
    [x \in DOMAIN e \cup {sku} |->
        (IF x \in DOMAIN e THEN e[x] ELSE 0) + (IF x = sku THEN hours ELSE 0)]

LEMMA NoParts ==
    ASSUME NEW ps, NEW s
    PROVE  Parts(ps, s, [sku \in {} |-> 0], 0)
  <1>1. DOMAIN [sku \in {} |-> 0] = {}
    OBVIOUS
  <1>2. SumFunction([sku \in {} |-> 0]) = 0
    BY <1>1, SumEmpty, Zenon DEF SumFunction
  <1> QED
    BY <1>1, <1>2, FS_EmptySet DEF Parts

LEMMA PartAdded ==
    ASSUME NEW ps, NEW s, NEW e, NEW hours \in Int, Parts(ps, s, e, hours),
           NEW sku \in Nat, Out(ps, sku)[s[2]] > 0, NEW more \in Nat
    PROVE  Parts(ps, s, Added(e, sku, more), hours + more)
  <1>f. PICK f : f = Added(e, sku, more)
    OBVIOUS
  <1>D. PICK D : D = DOMAIN e
    OBVIOUS
  <1>0. /\ IsFiniteSet(D) /\ D \subseteq Nat
        /\ \A x \in D : e[x] \in Nat /\ Out(ps, x)[s[2]] > 0
        /\ SumFunctionOnSet(e, D) = hours
    BY <1>D DEF Parts, SumFunction
  <1>1. /\ DOMAIN f = D \cup {sku} /\ f = [x \in DOMAIN f |-> f[x]]
        /\ \A x \in D \cup {sku} :
             f[x] = (IF x \in D THEN e[x] ELSE 0) + (IF x = sku THEN more ELSE 0)
    BY <1>f, <1>D DEF Added
  <1>2. \A x \in DOMAIN f : f[x] \in Nat /\ Out(ps, x)[s[2]] > 0
    BY <1>0, <1>1
  <1>3. IsFiniteSet(DOMAIN f) /\ DOMAIN f \subseteq Nat
    BY <1>0, <1>1, FS_AddElement
  <1>4. SumFunctionOnSet(f, D \cup {sku}) = hours + more
    <2>1. CASE sku \in D
      <3>1. D \cup {sku} = D
        BY <2>1
      <3>2. IntOn(e, D) /\ IntOn(f, D) /\ Agree(e, f, D \ {sku})
        BY <1>0, <1>1 DEF IntOn, Agree
      <3>3. SumFunctionOnSet(f, D) = SumFunctionOnSet(e, D) + (f[sku] - e[sku])
        BY <1>0, <2>1, <3>2, SumChange
      <3>4. f[sku] = e[sku] + more /\ e[sku] \in Nat
        BY <1>0, <1>1, <2>1
      <3>5. SumFunctionOnSet(f, D) = hours + more
        BY <1>0, <3>3, <3>4
      <3> QED
        BY <3>1, <3>5
    <2>2. CASE sku \notin D
      <3>1. IntOn(f, D \cup {sku}) /\ Agree(e, f, D)
        BY <1>0, <1>1, <2>2 DEF IntOn, Agree
      <3>2. SumFunctionOnSet(f, D \cup {sku}) = f[sku] + SumFunctionOnSet(f, D)
        BY <1>0, <2>2, <3>1, SumAdd
      <3>3. SumFunctionOnSet(e, D) = SumFunctionOnSet(f, D)
        BY <1>0, <3>1, SumSame
      <3>4. f[sku] = more
        BY <1>1, <2>2
      <3> QED
        BY <1>0, <3>2, <3>3, <3>4
    <2> QED
      BY <2>1, <2>2
  <1>5. SumFunction(f) = hours + more
    BY <1>1, <1>4, Zenon DEF SumFunction
  <1> QED
    BY <1>f, <1>1, <1>2, <1>3, <1>5 DEF Parts

------------------------------------------------------------------------------
\* Largest first, then by SKU, among entries of one slot.
Larger(d, e) == d.hours > e.hours \/ (d.hours = e.hours /\ d.sku < e.sku)
EntriesOf(e) == {[sku |-> x, hours |-> e[x]] : x \in DOMAIN e}
LargerIn(S) == {p \in S \X S : Larger(p[1], p[2])}

LEMMA EntriesAreFinite ==
    ASSUME NEW e, IsFiniteSet(DOMAIN e), DOMAIN e \subseteq Nat, \A x \in DOMAIN e : e[x] \in Nat
    PROVE  /\ IsFiniteSet(EntriesOf(e))
           /\ Strict(EntriesOf(e), LargerIn(EntriesOf(e)))
  <1>S. PICK S : S = EntriesOf(e)
    OBVIOUS
  <1>g. PICK g : g = [x \in DOMAIN e |-> [sku |-> x, hours |-> e[x]]]
    OBVIOUS
  <1>1. S = {g[x] : x \in DOMAIN e}
    BY <1>S, <1>g DEF EntriesOf
  <1>2. IsFiniteSet(S)
    BY <1>1, ImageIsFinite
  <1>3. \A d \in S : d.sku \in DOMAIN e /\ d.hours = e[d.sku] /\ d = [sku |-> d.sku, hours |-> d.hours]
    BY <1>S DEF EntriesOf
  <1>4. \A d \in S : d.sku \in Nat /\ d.hours \in Nat
    BY <1>3
  <1>5. \A d, f \in S : d # f => d.sku # f.sku
    BY <1>3
  <1>6. \A d, f \in S : <<d, f>> \in LargerIn(S) <=> Larger(d, f)
    BY DEF LargerIn
  <1>7. \A d \in S : ~Larger(d, d)
    BY <1>4 DEF Larger
  <1>8. \A d, f, h \in S : Larger(d, f) /\ Larger(f, h) => Larger(d, h)
    BY <1>4 DEF Larger
  <1>9. \A d, f \in S : d # f => Larger(d, f) \/ Larger(f, d)
    BY <1>4, <1>5 DEF Larger
  <1> QED
    BY <1>S, <1>2, <1>6, <1>7, <1>8, <1>9 DEF Strict

LEMMA RankedIs ==
    ASSUME NEW e, IsFiniteSet(DOMAIN e), DOMAIN e \subseteq Nat, \A x \in DOMAIN e : e[x] \in Nat
    PROVE  ListsRanked(Ranked(e), EntriesOf(e), LargerIn(EntriesOf(e)))
  <1>S. PICK S : S = EntriesOf(e)
    OBVIOUS
  <1>R. PICK R : R = LargerIn(S)
    OBVIOUS
  <1>L. PICK L : L = Ranked(e)
    OBVIOUS
  <1>1. IsFiniteSet(S) /\ Strict(S, R)
    BY <1>S, <1>R, EntriesAreFinite
  <1>2. \A x \in S : Preceding(S, R, x) = {y \in S : Larger(y, x)}
    BY <1>R DEF Preceding, LargerIn
  <1> DEFINE Nth(n) == CHOOSE x \in S : Cardinality({y \in S : Larger(y, x)}) = n - 1
  <1>3. L = [n \in 1..Cardinality(S) |-> Nth(n)]
    BY <1>S, <1>L DEF Ranked, Sorted, EntriesOf, Larger
  <1>4. ASSUME NEW n \in 1..Cardinality(S)
        PROVE  L[n] \in S /\ Cardinality(Preceding(S, R, L[n])) = n - 1
    <2>1. L[n] = CHOOSE x \in S : Cardinality({y \in S : Larger(y, x)}) = n - 1
      BY <1>3
    <2>2. n - 1 \in 0..(Cardinality(S) - 1)
      BY <1>1, FS_CardinalityType
    <2>3. PICK x \in S : Cardinality(Preceding(S, R, x)) = n - 1
      BY <1>1, <2>2, RankPlaces
    <2>4. Cardinality({y \in S : Larger(y, x)}) = n - 1
      BY <1>2, <2>3
    <2>5. L[n] \in S /\ Cardinality({y \in S : Larger(y, L[n])}) = n - 1
      BY <2>1, <2>4, Zenon
    <2> QED
      BY <1>2, <2>5
  <1>5. L = [n \in 1..Cardinality(S) |-> L[n]]
    <2> HIDE DEF Nth
    <2> QED
      BY <1>3
  <1>6. InPlaces(L, S, R)
    BY <1>4, <1>5 DEF InPlaces
  <1> QED
    BY <1>S, <1>R, <1>L, <1>1, <1>6, PlacesSort

\* What the explanation lists of a slot.
ListsParts(L, ps, s, hours) ==
    /\ SumFunction([k \in DOMAIN L |-> L[k].hours]) = hours
    /\ \A j, k \in DOMAIN L :
         /\ j < k => L[j].hours >= L[k].hours
         /\ L[j].sku = L[k].sku => j = k
    /\ \A k \in DOMAIN L : Out(ps, L[k].sku)[s[2]] > 0

LEMMA RankedLists ==
    ASSUME NEW ps, NEW s, NEW e, NEW hours, Parts(ps, s, e, hours)
    PROVE  ListsParts(Ranked(e), ps, s, hours)
  <1>S. PICK S : S = EntriesOf(e)
    OBVIOUS
  <1>R. PICK R : R = LargerIn(S)
    OBVIOUS
  <1>L. PICK L : L = Ranked(e)
    OBVIOUS
  <1>D. PICK D : D = DOMAIN e
    OBVIOUS
  <1>0. /\ IsFiniteSet(D) /\ D \subseteq Nat /\ D = DOMAIN e
        /\ \A x \in D : e[x] \in Nat /\ Out(ps, x)[s[2]] > 0
        /\ SumFunctionOnSet(e, D) = hours
    BY <1>D DEF Parts, SumFunction
  <1>1. ListsRanked(L, S, R)
    BY <1>S, <1>R, <1>L, <1>0, RankedIs
  <1>2. \A d \in S : d.sku \in D /\ d.hours = e[d.sku] /\ d = [sku |-> d.sku, hours |-> e[d.sku]]
    BY <1>S, <1>D DEF EntriesOf
  <1>3. \A x \in D : [sku |-> x, hours |-> e[x]] \in S
    BY <1>S, <1>D DEF EntriesOf
  <1>I. PICK I : I = DOMAIN L
    OBVIOUS
  <1>4. /\ I = 1..Len(L) /\ Len(L) \in Nat
        /\ \A k \in I : L[k] \in S
        /\ \A x \in S : \E k \in I : L[k] = x
        /\ \A j, k \in I : L[j] = L[k] => j = k
        /\ \A j, k \in I : j < k => <<L[j], L[k]>> \in R
    BY <1>I, <1>1, LenProperties DEF ListsRanked
  <1>5. \A k \in I : L[k].sku \in D /\ L[k].hours = e[L[k].sku]
    BY <1>2, <1>4
  <1>6. ASSUME NEW j \in I, NEW k \in I, L[j].sku = L[k].sku PROVE j = k
    <2>1. L[j] = L[k]
      BY <1>2, <1>4, <1>6
    <2> QED
      BY <1>4, <2>1
  <1>f. PICK f : f = [k \in I |-> L[k].hours]
    OBVIOUS
  <1>n. PICK name : name = [k \in I |-> L[k].sku]
    OBVIOUS
  <1>7. Renamed(f, I, D, name, e)
    <2>1. IsFiniteSet(I)
      BY <1>4, FS_Interval
    <2>2. IntOn(f, I)
      BY <1>0, <1>5, <1>f DEF IntOn
    <2>3. \A k \in I : name[k] \in D /\ e[name[k]] = f[k]
      BY <1>5, <1>f, <1>n
    <2>4. \A j, k \in I : name[j] = name[k] => j = k
      BY <1>6, <1>n
    <2>5. ASSUME NEW x \in D PROVE \E k \in I : name[k] = x
      <3>1. PICK k \in I : L[k] = [sku |-> x, hours |-> e[x]]
        BY <1>3, <1>4
      <3>2. name[k] = x
        BY <1>n, <3>1
      <3> QED
        BY <3>2
    <2> QED
      BY <1>0, <2>1, <2>2, <2>3, <2>4, <2>5 DEF Renamed
  <1>8. SumFunctionOnSet(f, I) = hours
    BY <1>0, <1>7, SumRenamed
  <1>9. SumFunction([k \in DOMAIN L |-> L[k].hours]) = hours
    <2>1. DOMAIN f = I /\ f = [k \in DOMAIN L |-> L[k].hours]
      BY <1>I, <1>f
    <2>2. SumFunction(f) = hours
      BY <1>8, <2>1, Zenon DEF SumFunction
    <2> QED
      BY <2>1, <2>2
  <1>10. ASSUME NEW j \in I, NEW k \in I, j < k PROVE L[j].hours >= L[k].hours
    <2>1. Larger(L[j], L[k])
      BY <1>4, <1>10, <1>R DEF LargerIn
    <2>2. L[j].hours \in Nat /\ L[k].hours \in Nat
      BY <1>0, <1>5
    <2> QED
      BY <2>1, <2>2 DEF Larger
  <1> QED
    BY <1>0, <1>5, <1>6, <1>9, <1>10, <1>I, <1>L DEF ListsParts
------------------------------------------------------------------------------
\* The excess over[s] of each slot is split in proportion to its parts sp[s].
SplitsExcess(which, sp, hours, over, scale, blame) ==
    /\ IsFiniteSet(which)
    /\ \A s \in which :
         /\ IsFiniteSet(DOMAIN sp[s])
         /\ \A x \in DOMAIN sp[s] : sp[s][x] \in Nat
         /\ SumFunctionOnSet(sp[s], DOMAIN sp[s]) = hours[s]
         /\ hours[s] \in Nat \ {0} /\ over[s] \in Int
    /\ scale = ProductSet({hours[s] : s \in which})
    /\ blame = [x \in UNION {DOMAIN sp[s] : s \in which} |->
                  SumFunction([s \in which |->
                     IF x \in DOMAIN sp[s] THEN sp[s][x] * over[s] * (scale \div hours[s]) ELSE 0])]

LEMMA ScaleDivides ==
    ASSUME NEW which, NEW sp, NEW hours, NEW over, NEW scale, NEW blame,
           SplitsExcess(which, sp, hours, over, scale, blame)
    PROVE  /\ scale \in Nat \ {0}
           /\ \A s \in which : scale \div hours[s] \in Nat /\ scale = hours[s] * (scale \div hours[s])
  <1>H. PICK H : H = {hours[s] : s \in which}
    OBVIOUS
  <1>1. IsFiniteSet(H) /\ H \subseteq Nat \ {0}
    BY <1>H, ImageIsFinite DEF SplitsExcess
  <1>2. scale = ProductSet(H)
    BY <1>H DEF SplitsExcess
  <1>3. scale \in Nat \ {0} /\ \A x \in H : \E k \in Nat : scale = x * k
    BY <1>1, <1>2, ProductDivides
  <1>4. ASSUME NEW s \in which
        PROVE  scale \div hours[s] \in Nat /\ scale = hours[s] * (scale \div hours[s])
    <2>h. PICK h \in Nat \ {0} : h = hours[s]
      BY DEF SplitsExcess
    <2>1. PICK k \in Nat : scale = h * k
      BY <1>H, <1>3, <2>h
    <2>2. (h * k) \div h = k
      BY QuotientOfMultiple
    <2>3. scale \div h = k
      BY <2>1, <2>2
    <2> QED
      BY <2>1, <2>3, <2>h
  <1> QED
    BY <1>3, <1>4

\* f is each part e[x] of h, times o and q.
IsShare(K, D, e, f, h, o, q) ==
    /\ IsFiniteSet(K) /\ D \subseteq K /\ h \in Nat /\ o \in Int /\ q \in Nat
    /\ (\A x \in D : e[x] \in Nat) /\ SumFunctionOnSet(e, D) = h
    /\ \A x \in K : f[x] = IF x \in D THEN e[x] * o * q ELSE 0

LEMMA PartsShare ==
    ASSUME NEW K, NEW D, NEW e, NEW f, NEW h, NEW o, NEW q, IsShare(K, D, e, f, h, o, q)
    PROVE  SumFunctionOnSet(f, K) = (h * q) * o /\ IntOn(f, K)
  <1>h. h \in Nat /\ o \in Int /\ q \in Nat
    BY DEF IsShare
  <1>0. /\ IsFiniteSet(K) /\ D \subseteq K /\ (\A x \in D : e[x] \in Nat)
        /\ SumFunctionOnSet(e, D) = h /\ \A x \in K \ D : f[x] = 0
    BY DEF IsShare
  <1>c. PICK c \in Int : c = o * q
    BY <1>h
  <1>1. \A x \in D : f[x] = c * e[x] /\ f[x] \in Int
    <2> SUFFICES ASSUME NEW x \in D PROVE f[x] = c * e[x] /\ f[x] \in Int
      OBVIOUS
    <2>y. PICK y \in Nat : y = e[x]
      BY <1>0
    <2>1. f[x] = y * o * q
      BY <2>y DEF IsShare
    <2>2. y * o * q = (o * q) * y
      BY <1>h, <2>y
    <2>3. y * o * q \in Int
      BY <1>h, <2>y
    <2> QED
      BY <1>c, <2>1, <2>2, <2>3, <2>y
  <1>2. IntOn(f, D) /\ IntOn(f, K) /\ IntOn(e, D) /\ IsFiniteSet(D)
    BY <1>0, <1>1, FS_Subset DEF IntOn
  <1>3. SumFunctionOnSet(f, K) = SumFunctionOnSet(f, D)
    BY <1>0, <1>2, SumPadded
  <1>4. SumFunctionOnSet(f, D) = c * SumFunctionOnSet(e, D)
    <2>1. \A x \in D : f[x] = c * e[x]
      BY <1>1
    <2>2. c \in Int
      BY <1>c
    <2> QED
      BY <1>2, <2>1, <2>2, SumScale
  <1>5. (o * q) * h = (h * q) * o
    BY <1>h
  <1>6. SumFunctionOnSet(f, K) = c * h
    BY <1>0, <1>3, <1>4
  <1> QED
    BY <1>2, <1>5, <1>6, <1>c

\* The excess is shared out completely.
LEMMA ExcessIsShared ==
    ASSUME NEW which, NEW sp, NEW hours, NEW over, NEW scale, NEW blame,
           SplitsExcess(which, sp, hours, over, scale, blame)
    PROVE  SumFunction(blame) = scale * SumFunction([s \in which |-> over[s]])
  <1>K. PICK K : K = UNION {DOMAIN sp[s] : s \in which}
    OBVIOUS
  <1>D. PICK dom : dom = [s \in which |-> DOMAIN sp[s]]
    OBVIOUS
  <1>0. /\ IsFiniteSet(which)
        /\ \A s \in which :
             /\ IsFiniteSet(dom[s]) /\ \A x \in dom[s] : sp[s][x] \in Nat
             /\ SumFunctionOnSet(sp[s], dom[s]) = hours[s]
             /\ hours[s] \in Nat \ {0} /\ over[s] \in Int
    BY <1>D DEF SplitsExcess
  <1>1. IsFiniteSet(K)
    <2>1. K = UNION {dom[s] : s \in which}
      BY <1>K, <1>D
    <2>2. IsFiniteSet({dom[s] : s \in which})
      BY <1>0, ImageIsFinite
    <2>3. \A T \in {dom[s] : s \in which} : IsFiniteSet(T)
      BY <1>0
    <2> QED
      BY <2>1, <2>2, <2>3, FS_UNION
  <1>F. PICK F : F = [s \in which |-> [x \in K |->
                        IF x \in dom[s] THEN sp[s][x] * over[s] * (scale \div hours[s]) ELSE 0]]
    OBVIOUS
  <1>G. PICK G : G = [x \in K |-> [s \in which |-> F[s][x]]]
    OBVIOUS
  <1>r. PICK rows : rows = [s \in which |-> SumFunctionOnSet(F[s], K)]
    OBVIOUS
  <1>2. ASSUME NEW s \in which
        PROVE  rows[s] = scale * over[s] /\ IntOn(F[s], K) /\ rows[s] \in Int
    <2>q. PICK q \in Nat : q = scale \div hours[s]
      BY ScaleDivides
    <2>1. scale = hours[s] * q
      BY <2>q, ScaleDivides
    <2>2. \A x \in K : F[s][x] = IF x \in dom[s] THEN sp[s][x] * over[s] * q ELSE 0
      BY <1>F, <2>q
    <2>3. dom[s] \subseteq K
      BY <1>K, <1>D
    <2>d. PICK D, e, f : D = dom[s] /\ e = sp[s] /\ f = F[s]
      OBVIOUS
    <2>h. PICK h \in Nat, o \in Int : h = hours[s] /\ o = over[s]
      BY <1>0
    <2>4. IsShare(K, D, e, f, h, o, q)
      <3>1. /\ D \subseteq K /\ (\A x \in D : e[x] \in Nat) /\ SumFunctionOnSet(e, D) = h
            /\ \A x \in K : f[x] = IF x \in D THEN e[x] * o * q ELSE 0
        BY <1>0, <2>2, <2>3, <2>d, <2>h
      <3>2. h \in Nat /\ o \in Int /\ q \in Nat
        BY <2>h, <2>q
      <3> QED
        BY <1>1, <3>1, <3>2, Zenon DEF IsShare
    <2>c. SumFunctionOnSet(f, K) = (h * q) * o /\ IntOn(f, K)
      BY <2>4, PartsShare
    <2>5. SumFunctionOnSet(F[s], K) = (hours[s] * q) * over[s] /\ IntOn(F[s], K)
      BY <2>c, <2>d, <2>h
    <2>6. rows[s] = scale * over[s]
      BY <1>r, <2>1, <2>5
    <2>7. scale \in Int /\ over[s] \in Int
      BY <1>0, ScaleDivides
    <2>8. scale * over[s] \in Int
      BY <2>7
    <2> QED
      BY <2>5, <2>6, <2>8
  <1>3. blame = [x \in K |-> SumFunctionOnSet(G[x], which)]
    <2>1. blame = [x \in K |-> SumFunction([s \in which |->
                     IF x \in DOMAIN sp[s] THEN sp[s][x] * over[s] * (scale \div hours[s]) ELSE 0])]
      BY <1>K DEF SplitsExcess
    <2>2. ASSUME NEW x \in K
          PROVE  [s \in which |->
                     IF x \in DOMAIN sp[s] THEN sp[s][x] * over[s] * (scale \div hours[s]) ELSE 0] = G[x]
      BY <1>F, <1>G, <1>D
    <2>3. ASSUME NEW x \in K
          PROVE  SumFunction([s \in which |->
                     IF x \in DOMAIN sp[s] THEN sp[s][x] * over[s] * (scale \div hours[s]) ELSE 0])
                   = SumFunctionOnSet(G[x], which)
      <3>1. DOMAIN G[x] = which
        BY <1>G
      <3>2. SumFunction(G[x]) = SumFunctionOnSet(G[x], which)
        BY <3>1, Zenon DEF SumFunction
      <3> QED
        BY <2>2, <3>2, Zenon
    <2> QED
      BY <2>1, <2>3, Zenon
  <1>4. IsTable(which, K, F, G, rows, blame)
    <2>1. \A x \in K : blame[x] = SumFunctionOnSet(G[x], which)
      BY <1>3
    <2>2. \A s \in which, x \in K : F[s][x] \in Int /\ G[x][s] = F[s][x]
      BY <1>2, <1>G DEF IntOn
    <2> QED
      BY <1>0, <1>1, <1>r, <2>1, <2>2 DEF IsTable
  <1>5. SumFunctionOnSet(rows, which) = SumFunctionOnSet(blame, K)
    BY <1>4, SumOfTable
  <1>o. PICK o : o = [s \in which |-> over[s]]
    OBVIOUS
  <1>6. SumFunctionOnSet(rows, which) = scale * SumFunctionOnSet(o, which)
    <2>1. IntOn(o, which) /\ \A s \in which : rows[s] = scale * o[s]
      BY <1>0, <1>2, <1>o DEF IntOn
    <2>2. scale \in Int
      BY ScaleDivides
    <2> QED
      BY <1>0, <2>1, <2>2, SumScale
  <1>7. SumFunction(blame) = SumFunctionOnSet(blame, K)
    <2>1. DOMAIN blame = K
      BY <1>3
    <2> QED
      BY <2>1, Zenon DEF SumFunction
  <1>8. SumFunction(o) = SumFunctionOnSet(o, which)
    <2>1. DOMAIN o = which
      BY <1>o
    <2> QED
      BY <2>1, Zenon DEF SumFunction
  <1> QED
    BY <1>5, <1>6, <1>7, <1>8, <1>o

\* What the explanation says of the overloaded slots, the loads and the plans.
IsExplained(ov, over, hours, ps) ==
    /\ DOMAIN ov.of = over
    /\ \A s \in over :
         /\ ListsParts(ov.of[s].contributors, ps, s, hours[s])
         /\ ov.of[s].over > 0
         /\ ov.of[s].before + ov.of[s].after > 0 => \E b \in Bucket : <<s[1], b>> \notin over
    /\ SumFunction(ov.blame) = ov.scale * ov.excess
    /\ ov.relievable <= Cardinality(over)

\* The loop of the explanation, before it, in it and after it.
SpentInv ==
    /\ verdict = NoAnswer \/ verdict.status \in {"no_plan", "loaded"}
    /\ verdict = NoAnswer =>
          overloads = NoAnswer /\ spent = [s \in Slots |-> [sku \in {} |-> 0]]
    /\ verdict.status = "loaded" /\ overloads = NoAnswer =>
          /\ at \in 1..(Len(Shop.routings) + 1)
          /\ \A s \in Slots : Parts(plans, s, spent[s], Loads(Shop.routings, plans, at - 1)[s])
    /\ overloads.status = "explained" =>
          verdict.status = "loaded" /\ IsExplained(overloads, verdict.overloaded, load, plans)

ExplainInv == FitInv /\ SpentInv

LEMMA ExplainedIs == SpentInv => OverloadsAreExplained
  <1> SUFFICES ASSUME SpentInv, overloads.status = "explained" PROVE OverloadsAreExplained
    BY DEF OverloadsAreExplained
  <1>1. IsExplained(overloads, verdict.overloaded, load, plans)
    BY DEF SpentInv
  <1>2. \A s : Released(s) = Out(plans, s)
    BY ReleasedIs
  <1>3. DOMAIN overloads.of = verdict.overloaded /\ SumFunction(overloads.blame) = overloads.scale * overloads.excess
        /\ overloads.relievable <= Cardinality(verdict.overloaded)
    BY <1>1 DEF IsExplained
  <1>4. ASSUME NEW s \in verdict.overloaded
        PROVE  LET o == overloads.of[s]
               IN /\ SumFunction([k \in DOMAIN o.contributors |-> o.contributors[k].hours]) = load[s]
                  /\ \A j, k \in DOMAIN o.contributors :
                       /\ j < k => o.contributors[j].hours >= o.contributors[k].hours
                       /\ o.contributors[j].sku = o.contributors[k].sku => j = k
                  /\ \A k \in DOMAIN o.contributors : Released(o.contributors[k].sku)[s[2]] > 0
                  /\ o.over > 0
                  /\ (o.before + o.after > 0 => \E b \in Bucket : <<s[1], b>> \notin verdict.overloaded)
    BY <1>1, <1>2, Zenon DEF IsExplained, ListsParts
  <1> QED
    BY <1>3, <1>4, Zenon DEF OverloadsAreExplained

LEMMA InitExplainInv == ScreensInitAll => ExplainInv
  <1> SUFFICES ASSUME ScreensInitAll PROVE SpentInv
    BY InitFitInv DEF ExplainInv
  <1>1. verdict = NoAnswer /\ overloads = NoAnswer /\ spent = [s \in Slots |-> [sku \in {} |-> 0]]
    BY DEF ScreensInitAll, CapacityInit
  <1>2. verdict.status = "none" /\ overloads.status = "none"
    BY <1>1 DEF NoAnswer
  <1> QED
    BY <1>1, <1>2 DEF SpentInv

\* Before the first routing of the explanation.
LEMMA NothingSpent ==
    \A s \in Slots : Parts(plans, s, [sku \in {} |-> 0], Loads(Shop.routings, plans, 0)[s])
  <1>1. \A s \in Slots : Loads(Shop.routings, plans, 0)[s] = 0
    BY NothingLoaded
  <1> QED
    BY <1>1, NoParts

LEMMA AttributeStep ==
    ASSUME ExplainInv, AttributeRouting
    PROVE  SpentInv'
  <1>t. PICK tasks \in Seq(Task) : tasks = plant.shop.routings
    BY DEF ExplainInv, FitInv, ShopInv, IsShop
  <1>k. PICK ps, k, sp : ps = plans /\ k = at /\ sp = spent
    OBVIOUS
  <1>1. /\ UNCHANGED <<stage, plant, plans, load, verdict, overloads>>
        /\ verdict.status = "loaded" /\ overloads = NoAnswer /\ k \in DOMAIN tasks /\ at' = k + 1
        /\ verdict # NoAnswer
    BY <1>t, <1>k DEF AttributeRouting, Explaining, explodeVars, Routings, Shop, NoAnswer
  <1>2. \A n \in DOMAIN ps : ps[n].releases \in [Bucket -> Nat]
    BY <1>k, PlansAreTyped DEF ExplainInv, FitInv
  <1>3. Len(tasks) \in Nat /\ DOMAIN tasks = 1..Len(tasks) /\ k \in 1..Len(tasks)
    BY <1>t, <1>1, LenProperties
  <1>4. Slots = Places(tasks) /\ Slots' = Places(tasks)
    BY <1>t, <1>1 DEF Slots, Places, Resource, Routings, Routing, Shop
  <1>5. \A s \in Places(tasks) : Parts(ps, s, sp[s], Loads(tasks, ps, k - 1)[s])
    BY <1>t, <1>k, <1>1, <1>4 DEF ExplainInv, SpentInv, Shop
  <1>6. ASSUME NEW s \in Places(tasks)
        PROVE  spent'[s] = IF tasks[k].res = s[1] /\ Out(ps, tasks[k].sku)[s[2]] > 0
                           THEN Added(sp[s], tasks[k].sku,
                                      Out(ps, tasks[k].sku)[s[2]] * tasks[k].perUnit + tasks[k].setup)
                           ELSE sp[s]
    <2>1. spent'[s] = IF s[1] = Routing(k).res /\ Makes(k, s[2])
                      THEN Attributed(sp[s], k, s[2]) ELSE sp[s]
      BY <1>k, <1>4 DEF AttributeRouting
    <2>2. Routing(k) = tasks[k]
      BY <1>t DEF Routing, Shop
    <2>3. Makes(k, s[2]) <=> Out(ps, tasks[k].sku)[s[2]] > 0
      BY <1>k, <2>2, ReleasedIs DEF Makes
    <2>4. HoursFor(k, s[2]) = Out(ps, tasks[k].sku)[s[2]] * tasks[k].perUnit + tasks[k].setup
      BY <1>k, <2>2, ReleasedIs, Zenon DEF HoursFor
    <2>5. Attributed(sp[s], k, s[2]) = Added(sp[s], tasks[k].sku, HoursFor(k, s[2]))
      BY <2>2, Zenon DEF Attributed, Added
    <2> QED
      BY <2>1, <2>2, <2>3, <2>4, <2>5, Zenon
  <1>7. ASSUME NEW s \in Places(tasks)
        PROVE  Parts(ps, s, spent'[s], Loads(tasks, ps, k)[s])
    <2>b. s[2] \in Bucket
      BY DEF Places
    <2>h. PICK before, more, after : /\ before = Loads(tasks, ps, k - 1)[s]
                                     /\ more = Work(tasks, ps, s)[k]
                                     /\ after = Loads(tasks, ps, k)[s]
      OBVIOUS
    <2>1. after = before + more
      BY <1>2, <1>3, <2>h, LoadsNext
    <2>2. more \in Nat /\ tasks[k].sku \in Nat
      BY <1>2, <1>3, <2>b, <2>h, WorkTypes
    <2>3. Parts(ps, s, sp[s], before)
      BY <1>5, <2>h
    <2>4. before \in Int
      <3>1. IsFiniteSet(DOMAIN sp[s]) /\ NatOn(sp[s], DOMAIN sp[s]) /\ IntOn(sp[s], DOMAIN sp[s])
        BY <2>3 DEF Parts, NatOn, IntOn
      <3>2. SumFunctionOnSet(sp[s], DOMAIN sp[s]) \in Int
        BY <3>1, SumInt
      <3> QED
        BY <2>3, <3>2 DEF Parts, SumFunction
    <2>5. CASE tasks[k].res = s[1] /\ Out(ps, tasks[k].sku)[s[2]] > 0
      <3>1. more = Out(ps, tasks[k].sku)[s[2]] * tasks[k].perUnit + tasks[k].setup
        BY <1>3, <2>5, <2>h, Zenon DEF Work
      <3>2. spent'[s] = Added(sp[s], tasks[k].sku, more)
        BY <1>6, <2>5, <3>1, Zenon
      <3>3. Parts(ps, s, Added(sp[s], tasks[k].sku, more), before + more)
        BY <2>2, <2>3, <2>4, <2>5, PartAdded
      <3> QED
        BY <2>1, <2>h, <3>2, <3>3, Zenon
    <2>6. CASE ~(tasks[k].res = s[1] /\ Out(ps, tasks[k].sku)[s[2]] > 0)
      <3>1. more = 0
        BY <1>3, <2>6, <2>h, Zenon DEF Work
      <3>2. spent'[s] = sp[s]
        BY <1>6, <2>6, Zenon
      <3>3. after = before
        BY <2>1, <2>4, <3>1
      <3> QED
        BY <2>3, <2>h, <3>2, <3>3, Zenon
    <2> QED
      BY <2>5, <2>6
  <1>8. (k + 1) - 1 = k /\ k + 1 \in 1..(Len(tasks) + 1)
    BY <1>3
  <1>9. \A s \in Slots' : Parts(plans, s, spent[s], Loads(Shop.routings, plans, at - 1)[s])'
    BY <1>t, <1>k, <1>1, <1>4, <1>7, <1>8 DEF Shop
  <1>10. at' \in 1..(Len(Shop.routings)' + 1)
    BY <1>t, <1>1, <1>8 DEF Shop
  <1>11. overloads' = NoAnswer /\ overloads'.status # "explained" /\ verdict' # NoAnswer /\ verdict'.status = "loaded"
    BY <1>1 DEF NoAnswer
  <1> QED
    BY <1>9, <1>10, <1>11 DEF SpentInv

LEMMA SlotsAreFinite ==
    ASSUME ShopInv
    PROVE  IsFiniteSet(Resource) /\ IsFiniteSet(Bucket) /\ IsFiniteSet(Slots)
  <1>t. PICK tasks \in Seq(Task) : tasks = plant.shop.routings
    BY DEF ShopInv, IsShop
  <1>1. IsFiniteSet(DOMAIN tasks)
    <2>1. DOMAIN tasks = 1..Len(tasks) /\ Len(tasks) \in Nat
      BY <1>t, LenProperties
    <2> QED
      BY <2>1, FS_Interval
  <1>h. PICK h : h = [i \in DOMAIN tasks |-> tasks[i].res]
    OBVIOUS
  <1>2. Resource = {h[i] : i \in DOMAIN tasks}
    BY <1>t, <1>h DEF Resource, Routings, Routing, Shop
  <1>3. IsFiniteSet(Resource)
    BY <1>1, <1>2, ImageIsFinite
  <1>4. IsFiniteSet(Bucket)
    BY HorizonAssumption, FS_Interval DEF Bucket
  <1> QED
    BY <1>3, <1>4, FS_Product DEF Slots

\* No hours to spare on a resource that is overloaded in every bucket.
LEMMA NothingSpare ==
    ASSUME NEW r, NEW from, NEW to, \A b \in Bucket : Spare(<<r, b>>) = 0
    PROVE  SpareIn(r, from, to) = 0
  <1>B. PICK B : B = from..to \cap Bucket
    OBVIOUS
  <1>f. PICK f : f = [b \in B |-> Spare(<<r, b>>)]
    OBVIOUS
  <1>1. IsFiniteSet(Bucket) /\ B \subseteq Bucket
    BY <1>B, HorizonAssumption, FS_Interval DEF Bucket
  <1>2. IsFiniteSet(B) /\ \A b \in B : f[b] = 0
    BY <1>1, <1>f, FS_Subset
  <1>3. SumFunctionOnSet(f, B) = 0
    BY <1>2, SumOfZeros
  <1>4. DOMAIN f = B
    BY <1>f
  <1> QED
    BY <1>3, <1>4, <1>f, <1>B, Zenon DEF SpareIn, SumFunction

\* What the explanation starts from when the loop has ended.
LEMMA ExplainFrom ==
    ASSUME ExplainInv, Explain
    PROVE  /\ verdict.status = "loaded" /\ verdict.overloaded \subseteq Slots
           /\ \A s \in Slots : /\ Parts(plans, s, spent[s], load[s])
                               /\ Hours(spent[s]) = load[s] /\ load[s] \in Nat
                               /\ Available(s[1], s[2]) \in Nat
           /\ verdict.overloaded = {s \in Slots : TooMuch(Hours(spent[s]), Available(s[1], s[2]))}
  <1>t. PICK tasks \in Seq(Task) : tasks = plant.shop.routings
    BY DEF ExplainInv, FitInv, ShopInv, IsShop
  <1>1. verdict.status = "loaded" /\ overloads = NoAnswer /\ at \notin DOMAIN tasks
    BY <1>t DEF Explain, Explaining, Routings, Shop
  <1>2. Len(tasks) \in Nat /\ DOMAIN tasks = 1..Len(tasks)
    BY <1>t, LenProperties
  <1>3. at - 1 = Len(tasks)
    BY <1>t, <1>1, <1>2 DEF ExplainInv, SpentInv, Shop
  <1>4. load = Loads(tasks, plans, Len(tasks))
    BY <1>t, <1>1 DEF ExplainInv, FitInv, LoadInv, Shop
  <1>5. \A s \in Slots : Parts(plans, s, spent[s], load[s])
    BY <1>t, <1>1, <1>3, <1>4 DEF ExplainInv, SpentInv, Shop
  <1>6. \A s \in Slots : Hours(spent[s]) = load[s]
    BY <1>5 DEF Parts, Hours
  <1>7. ASSUME NEW s \in Slots PROVE load[s] \in Nat /\ Available(s[1], s[2]) \in Nat
    <2>1. s[1] \in Resource /\ s[2] \in Bucket /\ s = <<s[1], s[2]>>
      BY DEF Slots
    <2>2. load[<<s[1], s[2]>>] \in Nat
      BY <1>1, <2>1, FitsExactly DEF ExplainInv
    <2>3. Available(s[1], s[2]) \in Nat
      BY <2>1, AvailableTypes DEF ExplainInv, FitInv
    <2> QED
      BY <2>1, <2>2, <2>3
  <1>8. verdict.overloaded = {s \in Slots : TooMuch(load[s], Available(s[1], s[2]))}
    BY <1>1 DEF ExplainInv, FitInv, LoadInv
  <1>9. verdict.overloaded = {s \in Slots : TooMuch(Hours(spent[s]), Available(s[1], s[2]))}
    BY <1>6, <1>8
  <1> QED
    BY <1>1, <1>5, <1>6, <1>7, <1>8, <1>9

\* Every overload is explained by the work of its slot, and hours to spare
\* are of another bucket.
LEMMA OverloadIs ==
    ASSUME ExplainInv, Explain, NEW s \in verdict.overloaded
    PROVE  LET o == Overload(s)
           IN /\ ListsParts(o.contributors, plans, s, load[s])
              /\ o.over > 0 /\ o.over \in Int /\ load[s] \in Nat \ {0}
              /\ o.before + o.after > 0 => \E b \in Bucket : <<s[1], b>> \notin verdict.overloaded
  <1>1. /\ s \in Slots /\ Parts(plans, s, spent[s], load[s])
        /\ Hours(spent[s]) = load[s] /\ load[s] \in Nat
        /\ Available(s[1], s[2]) \in Nat
        /\ TooMuch(load[s], Available(s[1], s[2]))
    BY ExplainFrom
  <1>2. load[s] > Available(s[1], s[2])
    BY <1>1 DEF TooMuch
  <1>3. ListsParts(Ranked(spent[s]), plans, s, load[s])
    BY <1>1, RankedLists
  <1>4. load[s] - Available(s[1], s[2]) > 0 /\ load[s] - Available(s[1], s[2]) \in Int /\ load[s] # 0
    BY <1>1, <1>2
  <1>5. ASSUME \A b \in Bucket : <<s[1], b>> \in verdict.overloaded, NEW from, NEW to
        PROVE  SpareIn(s[1], from, to) = 0
    <2>1. ASSUME NEW b \in Bucket PROVE Spare(<<s[1], b>>) = 0
      <3>q. PICK q : q = <<s[1], b>>
        OBVIOUS
      <3>1. q \in verdict.overloaded /\ q[1] = s[1] /\ q[2] = b
        BY <1>5, <3>q
      <3>2. /\ Hours(spent[q]) \in Nat /\ Available(q[1], q[2]) \in Nat
            /\ TooMuch(Hours(spent[q]), Available(q[1], q[2]))
        BY <3>1, ExplainFrom
      <3>3. ~(Available(q[1], q[2]) - Hours(spent[q]) > 0)
        BY <3>2 DEF TooMuch
      <3>4. Spare(q) = 0
        BY <3>3, Zenon DEF Spare
      <3> QED
        BY <3>4, <3>q
    <2> QED
      BY <2>1, NothingSpare
  <1>o. PICK o : o = Overload(s)
    OBVIOUS
  <1>6. /\ o.contributors = Ranked(spent[s])
        /\ o.over = Hours(spent[s]) - Available(s[1], s[2])
        /\ o.before = SpareIn(s[1], s[2] - Shop.window, s[2] - 1)
        /\ o.after = SpareIn(s[1], s[2] + 1, s[2] + Shop.window)
    BY <1>o DEF Overload
  <1>7. (\A b \in Bucket : <<s[1], b>> \in verdict.overloaded) => o.before = 0 /\ o.after = 0
    BY <1>5, <1>6
  <1>8. o.before + o.after > 0 => \E b \in Bucket : <<s[1], b>> \notin verdict.overloaded
    BY <1>7
  <1> QED
    BY <1>1, <1>3, <1>4, <1>6, <1>8, <1>o

LEMMA ExplainStep ==
    ASSUME ExplainInv, Explain
    PROVE  SpentInv'
  <1>p. PICK sp, which, ps, hours : sp = spent /\ which = verdict.overloaded /\ ps = plans /\ hours = load
    OBVIOUS
  <1>0. /\ UNCHANGED <<plans, load, verdict>> /\ verdict.status = "loaded" /\ verdict # NoAnswer
    BY DEF Explain, Explaining, explodeVars, NoAnswer
  <1>of. PICK of : of = [s \in which |-> Overload(s)]
    OBVIOUS
  <1>1. which = {s \in Slots : TooMuch(Hours(sp[s]), Available(s[1], s[2]))} /\ which \subseteq Slots
    BY <1>p, ExplainFrom
  <1>2. \A s \in which : Hours(sp[s]) = hours[s] /\ Parts(ps, s, sp[s], hours[s])
    BY <1>p, <1>1, ExplainFrom
  <1>3. ASSUME NEW s \in which
        PROVE  /\ ListsParts(of[s].contributors, ps, s, hours[s])
               /\ of[s].over > 0 /\ of[s].over \in Int /\ hours[s] \in Nat \ {0}
               /\ of[s].before + of[s].after > 0 => \E b \in Bucket : <<s[1], b>> \notin which
    <2>1. of[s] = Overload(s)
      BY <1>of
    <2> QED
      BY <1>p, <2>1, OverloadIs
  <1>4. IsFiniteSet(which)
    BY <1>1, SlotsAreFinite, FS_Subset DEF ExplainInv, FitInv
  <1>sc. PICK scale : scale = ProductSet({hours[s] : s \in which})
    OBVIOUS
  <1>ov. PICK over : over = [s \in which |-> of[s].over]
    OBVIOUS
  <1>bl. PICK blame : blame = [x \in UNION {DOMAIN sp[s] : s \in which} |->
                  SumFunction([s \in which |->
                     IF x \in DOMAIN sp[s] THEN sp[s][x] * over[s] * (scale \div hours[s]) ELSE 0])]
    OBVIOUS
  <1>5. SplitsExcess(which, sp, hours, over, scale, blame)
    <2>1. ASSUME NEW s \in which
          PROVE  /\ IsFiniteSet(DOMAIN sp[s]) /\ \A x \in DOMAIN sp[s] : sp[s][x] \in Nat
                 /\ SumFunctionOnSet(sp[s], DOMAIN sp[s]) = hours[s]
      BY <1>2 DEF Parts, SumFunction
    <2>2. \A s \in which : hours[s] \in Nat \ {0} /\ over[s] \in Int
      BY <1>3, <1>ov
    <2> QED
      BY <1>4, <2>1, <2>2, <1>sc, <1>bl, Zenon DEF SplitsExcess
  <1>6. SumFunction(blame) = scale * SumFunction([s \in which |-> over[s]])
    BY <1>5, ExcessIsShared
  <1>7. /\ overloads'.status = "explained" /\ overloads'.of = of /\ overloads'.scale = scale
        /\ overloads'.excess = SumFunction([s \in which |-> over[s]])
        /\ overloads'.blame = blame
        /\ overloads'.relievable = Cardinality({s \in which : of[s].before >= of[s].over})
    <2>W. PICK W : W = {s \in Slots : TooMuch(Hours(spent[s]), Available(s[1], s[2]))}
      OBVIOUS
    <2>O. PICK O : O = [s \in W |-> Overload(s)]
      OBVIOUS
    <2>S. PICK S : S = ProductSet({Hours(spent[s]) : s \in W})
      OBVIOUS
    <2>1. overloads' =
            [status |-> "explained", of |-> O, scale |-> S,
             excess |-> SumFunction([s \in W |-> O[s].over]),
             resources |-> Cardinality({s[1] : s \in W}),
             blame |-> [sku \in UNION {DOMAIN spent[s] : s \in W} |->
                          SumFunction([s \in W |->
                             IF sku \in DOMAIN spent[s]
                             THEN spent[s][sku] * O[s].over * (S \div Hours(spent[s])) ELSE 0])],
             relievable |-> Cardinality({s \in W : O[s].before >= O[s].over})]
      BY <2>W, <2>O, <2>S DEF Explain
    <2>2. W = which /\ O = of
      BY <1>p, <1>1, <1>of, <2>W, <2>O
    <2>3. S = scale
      <3>1. {Hours(spent[s]) : s \in W} = {hours[s] : s \in which}
        BY <1>p, <1>2, <2>2
      <3> QED
        BY <3>1, <2>S, <1>sc, Zenon
    <2>4. SumFunction([s \in W |-> O[s].over]) = SumFunction([s \in which |-> over[s]])
      <3>1. [s \in W |-> O[s].over] = [s \in which |-> over[s]]
        BY <1>ov, <2>2
      <3> QED
        BY <3>1, Zenon
    <2>5. [sku \in UNION {DOMAIN spent[s] : s \in W} |->
             SumFunction([s \in W |->
                IF sku \in DOMAIN spent[s]
                THEN spent[s][sku] * O[s].over * (S \div Hours(spent[s])) ELSE 0])] = blame
      <3>1. ASSUME NEW sku
            PROVE  [s \in which |->
                      IF sku \in DOMAIN sp[s]
                      THEN sp[s][sku] * of[s].over * (scale \div Hours(sp[s])) ELSE 0]
                   = [s \in which |->
                      IF sku \in DOMAIN sp[s] THEN sp[s][sku] * over[s] * (scale \div hours[s]) ELSE 0]
        BY <1>2, <1>ov, Zenon
      <3>2. [sku \in UNION {DOMAIN sp[s] : s \in which} |->
               SumFunction([s \in which |->
                  IF sku \in DOMAIN sp[s]
                  THEN sp[s][sku] * of[s].over * (scale \div Hours(sp[s])) ELSE 0])] = blame
        BY <3>1, <1>bl, Zenon
      <3> QED
        BY <3>2, <2>2, <2>3, <1>p, Zenon
    <2> QED
      BY <2>1, <2>2, <2>3, <2>4, <2>5, Zenon
  <1>8. Cardinality({s \in which : of[s].before >= of[s].over}) <= Cardinality(which)
    BY <1>4, FS_Subset
  <1>9. IsExplained(overloads', which, hours, ps)
    <2>1. DOMAIN of = which
      BY <1>of
    <2> QED
      BY <1>3, <1>6, <1>7, <1>8, <2>1, Zenon DEF IsExplained
  <1>10. which = verdict'.overloaded /\ hours = load' /\ ps = plans'
    BY <1>0, <1>p
  <1>11. overloads' # NoAnswer
    BY <1>7 DEF NoAnswer
  <1> QED
    BY <1>0, <1>7, <1>9, <1>10, <1>11 DEF SpentInv

LEMMA StepExplainInv ==
    ExplainInv /\ [ScreensNext]_<<vars, explodeVars, capacityVars, page>> => ExplainInv'
  <1> SUFFICES ASSUME ExplainInv, [ScreensNext]_<<vars, explodeVars, capacityVars, page>> PROVE SpentInv'
    BY StepFitInv DEF ExplainInv
  <1>1. plant' = plant
    BY DEF ScreensNext, ExplodeNext, explodeVars, AsMaster, PriceLots, RefuseRouting, Pricing,
           RefuseEdge, RelaxEdge, Relaxing, NextRound, RefuseCycle, StartPlanning, PlanItem, HandDown,
           CapacityNext, RefuseEmptyPlan, LoadRouting, Judge, Loading,
           RefuseRelief, AttributeRouting, Explain, Explaining
  <1>2. Slots' = Slots /\ Shop' = Shop
    BY <1>1 DEF Slots, Resource, Routings, Routing, Shop
  <1>n. verdict = NoAnswer => verdict.status = "none" /\ overloads.status = "none"
    BY DEF ExplainInv, SpentInv, NoAnswer
  <1>3. CASE ExplodeNext /\ UNCHANGED <<capacityVars, page>>
    <2>1. stage # "planned"
      BY <1>3 DEF ExplodeNext, AsMaster, PriceLots, RefuseRouting, Pricing,
         RefuseEdge, RelaxEdge, Relaxing, NextRound, RefuseCycle, RoundOver, StartPlanning, PlanItem, HandDown
    <2>2. verdict = NoAnswer
      BY <2>1 DEF ExplainInv, FitInv, LoadInv
    <2>3. UNCHANGED <<verdict, overloads, spent>>
      BY <1>3 DEF capacityVars
    <2> QED
      BY <1>2, <1>n, <2>2, <2>3 DEF ExplainInv, SpentInv
  <1>4. CASE RefuseEmptyPlan
    <2>1. verdict = NoAnswer /\ UNCHANGED <<overloads, spent>> /\ verdict' = [status |-> "no_plan"]
      BY <1>4 DEF RefuseEmptyPlan, Loading
    <2> QED
      BY <1>n, <2>1 DEF SpentInv, NoAnswer
  <1>5. CASE LoadRouting
    <2>1. verdict = NoAnswer /\ UNCHANGED <<overloads, spent, verdict>>
      BY <1>5 DEF LoadRouting, Loading
    <2> QED
      BY <1>2, <1>n, <2>1 DEF ExplainInv, SpentInv
  <1>6. CASE Judge
    <2>1. verdict = NoAnswer /\ UNCHANGED <<overloads, spent, plans>> /\ at' = 1
      BY <1>6 DEF Judge, Loading, explodeVars
    <2>2. verdict'.status = "loaded" /\ verdict' # NoAnswer
      BY <1>6 DEF Judge, NoAnswer
    <2>3. overloads = NoAnswer /\ spent = [s \in Slots |-> [sku \in {} |-> 0]]
      BY <2>1 DEF ExplainInv, SpentInv
    <2>4. \A s \in Slots : Parts(plans, s, spent[s], Loads(Shop.routings, plans, 0)[s])
      BY <2>3, NothingSpent
    <2>5. Len(Shop.routings) \in Nat
      BY LenProperties DEF ExplainInv, FitInv, ShopInv, IsShop, Shop
    <2>6. at' - 1 = 0 /\ at' \in 1..(Len(Shop.routings) + 1)
      BY <2>1, <2>5
    <2>7. \A s \in Slots' : Parts(plans, s, spent[s], Loads(Shop.routings, plans, at - 1)[s])'
      BY <1>2, <2>1, <2>4, <2>6
    <2> QED
      BY <1>2, <1>n, <2>1, <2>2, <2>6, <2>7 DEF SpentInv
  <1>7. CASE RefuseRelief
    <2>1. /\ verdict' = verdict /\ overloads'.status # "explained" /\ overloads' # NoAnswer
          /\ verdict # NoAnswer
      BY <1>7 DEF RefuseRelief, Explaining, NoAnswer
    <2> QED
      BY <2>1 DEF ExplainInv, SpentInv
  <1>8. CASE AttributeRouting
    BY <1>8, AttributeStep
  <1>9. CASE Explain
    BY <1>9, ExplainStep
  <1>10. CASE UNCHANGED <<vars, explodeVars, capacityVars>>
    <2>1. UNCHANGED <<plans, at, load, verdict, spent, overloads>>
      BY <1>10 DEF explodeVars, capacityVars
    <2> QED
      BY <1>2, <2>1 DEF ExplainInv, SpentInv
  <1> QED
    BY <1>3, <1>4, <1>5, <1>6, <1>7, <1>8, <1>9, <1>10 DEF ScreensNext, CapacityNext

\* The explanation of the overloads is of the very overloads the verdict found: each is
\* made up of the work of its resource and bucket, largest first, hours to spare are of
\* another bucket, and the whole excess is shared out among the SKUs.
THEOREM OverloadsAreAlwaysExplained == ScreensSpec => []OverloadsAreExplained
  <1>1. ScreensSpec => []ExplainInv
    BY InitExplainInv, StepExplainInv, PTL DEF ScreensSpec
  <1>2. ExplainInv => OverloadsAreExplained
    BY ExplainedIs DEF ExplainInv
  <1> QED
    BY <1>1, <1>2, PTL
------------------------------------------------------------------------------
(***************************************************************************)
(* What a plan comes to: what is overdue was released first, and the last  *)
(* balance is what came less what was asked for.                           *)
(***************************************************************************)
\* What the overdue orders E of a plan come to.
Overdue(E) == SumFunction([e \in E |-> e.qty])

\* Every overdue order is of a bucket of its own before u, and released on the first day.
LateOf(E, rel, u) ==
    /\ IsFiniteSet(E)
    /\ \A e \in E : e.bucket \in Bucket /\ e.bucket < u /\ e.qty \in Nat \ {0}
    /\ \A e, f \in E : e.bucket = f.bucket => e = f
    /\ Overdue(E) \in Nat
    /\ E # {} => 0 < Overdue(E) /\ Overdue(E) <= rel[0]

LateInv ==
    /\ phase \in {"net", "lots", "project"} => pastDue = {}
    /\ phase = "offset" => LateOf(pastDue, releases, t)
    /\ phase = "done" => LateOf(pastDue, releases, Horizon)

LEMMA NothingLate ==
    ASSUME NEW rel, NEW u
    PROVE  LateOf({}, rel, u)
  <1>1. DOMAIN [e \in {} |-> e.qty] = {}
    OBVIOUS
  <1>2. SumFunction([e \in {} |-> e.qty]) = SumFunctionOnSet([e \in {} |-> e.qty], {})
    BY <1>1, Zenon DEF SumFunction
  <1>3. Overdue({}) = 0
    BY <1>2, SumEmpty DEF Overdue
  <1> QED
    BY <1>3, FS_EmptySet DEF LateOf

\* One more overdue order, and as much more released on the first day.
LEMMA LateAdded ==
    ASSUME NEW E, NEW rel, NEW u \in Int, LateOf(E, rel, u), NEW e, u \in Bucket, 0 \in Bucket,
           rel \in [Bucket -> Nat], e.bucket = u, e.qty \in Nat \ {0},
           NEW more, more[0] = rel[0] + e.qty
    PROVE  LateOf(E \cup {e}, more, u + 1)
  <1>0. /\ IsFiniteSet(E)
        /\ \A d \in E : d.bucket \in Bucket /\ d.bucket < u /\ d.qty \in Nat \ {0}
        /\ \A d, f \in E : d.bucket = f.bucket => d = f
        /\ Overdue(E) \in Nat /\ (E # {} => Overdue(E) <= rel[0])
    BY DEF LateOf
  <1>1. e \notin E
    BY <1>0
  <1>F. PICK F : F = E \cup {e}
    OBVIOUS
  <1>f. PICK f : f = [d \in E |-> d.qty]
    OBVIOUS
  <1>g. PICK g : g = [d \in F |-> d.qty]
    OBVIOUS
  <1>2. IsFiniteSet(F)
    BY <1>0, <1>F, FS_AddElement
  <1>3. IntOn(g, E \cup {e}) /\ Agree(g, f, E) /\ g[e] = e.qty
    BY <1>0, <1>F, <1>f, <1>g DEF IntOn, Agree
  <1>4. SumFunctionOnSet(g, E \cup {e}) = g[e] + SumFunctionOnSet(g, E)
    BY <1>0, <1>1, <1>3, SumAdd
  <1>5. SumFunctionOnSet(g, E) = SumFunctionOnSet(f, E)
    BY <1>0, <1>3, SumSame
  <1>6. Overdue(E) = SumFunctionOnSet(f, E)
    <2>1. DOMAIN f = E
      BY <1>f
    <2> QED
      BY <1>f, <2>1, Zenon DEF Overdue, SumFunction
  <1>7. Overdue(F) = SumFunctionOnSet(g, F)
    <2>1. DOMAIN g = F
      BY <1>g
    <2> QED
      BY <1>g, <2>1, Zenon DEF Overdue, SumFunction
  <1>8. Overdue(F) = e.qty + Overdue(E)
    BY <1>3, <1>4, <1>5, <1>6, <1>7, <1>F, Zenon
  <1>9. rel[0] \in Nat
    OBVIOUS
  <1>10. E = {} => Overdue(E) = 0
    BY <1>6, SumEmpty
  <1>11. Overdue(F) \in Nat /\ 0 < Overdue(F) /\ Overdue(F) <= more[0]
    BY <1>0, <1>8, <1>9, <1>10
  <1>12. \A d \in F : d.bucket \in Bucket /\ d.bucket < u + 1 /\ d.qty \in Nat \ {0}
    BY <1>0, <1>F DEF Bucket
  <1>13. \A d, h \in F : d.bucket = h.bucket => d = h
    BY <1>0, <1>F
  <1> QED
    BY <1>2, <1>11, <1>12, <1>13, <1>F DEF LateOf

\* Nothing else on a plan that has not been offset to its end makes an order late.
LEMMA LateKept ==
    ASSUME NEW E, NEW rel, NEW u \in Int, LateOf(E, rel, u), NEW more, 0 \in Bucket => rel[0] <= more[0],
           rel \in [Bucket -> Nat], more \in [Bucket -> Nat]
    PROVE  LateOf(E, more, u + 1)
  <1>1. ASSUME E # {} PROVE Overdue(E) <= more[0]
    <2>1. 0 \in Bucket
      BY <1>1 DEF LateOf, Bucket
    <2>2. rel[0] \in Nat /\ more[0] \in Nat /\ rel[0] <= more[0]
      BY <2>1
    <2> QED
      BY <1>1, <2>2 DEF LateOf
  <1>2. \A e \in E : e.bucket \in Bucket /\ e.bucket < u + 1 /\ e.qty \in Nat \ {0}
    BY DEF LateOf, Bucket
  <1> QED
    BY <1>1, <1>2 DEF LateOf

LEMMA StepLateInv ==
    ASSUME TypeInv, TypeInv', LateInv, [Next]_vars
    PROVE  LateInv'
  <1>0. releases \in [Bucket -> Nat] /\ releases' \in [Bucket -> Nat] /\ receipts \in [Bucket -> Nat] /\ t \in 0..Horizon
    BY DEF TypeInv, TypeOK
  <1>1. CASE NetFirm \/ NetShort \/ NetEnough \/ EndNetting \/ ChooseLots \/ Project
    <2>1. /\ phase \in {"net", "lots", "project"} /\ phase' \in {"net", "lots", "project"}
          /\ pastDue' = pastDue
      BY <1>1 DEF NetFirm, NetShort, NetEnough, Netting, EndNetting, StartPass, ChooseLots,
                  Project
    <2> QED
      BY <2>1 DEF LateInv
  <1>2. CASE EndProject
    <2>1. phase = "project" /\ phase' = "offset" /\ t' = 0 /\ pastDue' = pastDue
      BY <1>2 DEF EndProject, StartPass
    <2>2. pastDue' = {}
      BY <2>1 DEF LateInv
    <2> QED
      BY <2>1, <2>2, NothingLate DEF LateInv
  <1>3. CASE EndOffset
    <2>1. /\ phase = "offset" /\ phase' = "done" /\ t = Horizon
          /\ UNCHANGED <<releases, pastDue>>
      BY <1>3 DEF EndOffset, StartPass
    <2> QED
      BY <2>1 DEF LateInv
  <1>4. CASE OffsetNothing \/ OffsetInTime \/ OffsetPastDue
    <2>1. phase = "offset" /\ phase' = "offset" /\ t < Horizon /\ t' = t + 1
      BY <1>4 DEF OffsetNothing, OffsetInTime, OffsetPastDue, Offsetting
    <2>2. LateOf(pastDue, releases, t) /\ t \in Int /\ t \in Bucket /\ 0 \in Bucket
      BY <1>0, <2>1 DEF LateInv, Bucket
    <2>3. receipts[t] \in Nat /\ \A b \in Bucket : releases[b] \in Nat
      BY <1>0, <2>2
    <2>4. CASE OffsetNothing \/ OffsetInTime
      <3>1. pastDue' = pastDue
        BY <2>4 DEF OffsetNothing, OffsetInTime
      <3>2. releases[0] <= releases'[0]
        <4>1. CASE releases' = releases
          BY <2>2, <2>3, <4>1
        <4>2. CASE \E b : releases' = [releases EXCEPT ![b] = @ + receipts[t]]
          <5>1. releases'[0] = releases[0] \/ releases'[0] = releases[0] + receipts[t]
            BY <1>0, <2>2, <4>2
          <5> QED
            BY <2>2, <2>3, <5>1
        <4> QED
          BY <2>4, <4>1, <4>2 DEF OffsetNothing, OffsetInTime
      <3>3. LateOf(pastDue, releases', t + 1)
        BY <1>0, <2>2, <3>2, LateKept
      <3> QED
        BY <2>1, <3>1, <3>3 DEF LateInv
    <2>5. CASE OffsetPastDue
      <3>1. PICK e : /\ e.bucket = t /\ e.qty = receipts[t] /\ pastDue' = pastDue \cup {e}
        BY <2>5 DEF OffsetPastDue
      <3>2. /\ e.qty \in Nat \ {0} /\ releases'[0] = releases[0] + e.qty
        BY <1>0, <2>2, <2>3, <2>5, <3>1 DEF OffsetPastDue
      <3>3. LateOf(pastDue \cup {e}, releases', t + 1)
        BY <1>0, <2>2, <3>1, <3>2, LateAdded
      <3> QED
        BY <2>1, <3>1, <3>3 DEF LateInv
    <2> QED
      BY <1>4, <2>4, <2>5
  <1>5. CASE UNCHANGED vars
    BY <1>5 DEF vars, LateInv
  <1> QED
    BY <1>1, <1>2, <1>3, <1>4, <1>5 DEF Next

------------------------------------------------------------------------------
\* What a bucket adds to the balance.
Flow(i, rec) == [b \in Bucket |-> i.sched[b] + rec[b] - i.gross[b]]

\* The projection so far is the opening stock and the flow of the buckets passed.
FlowInv ==
    /\ phase = "lots" => t = 0 /\ balance = item.onHand
    /\ phase = "project" =>
          /\ balance = item.onHand + SumFunctionOnSet(Flow(item, receipts), 0..(t - 1))
          /\ t # 0 => projected[t - 1] = balance
    /\ phase \in {"offset", "done"} /\ Horizon # 0 =>
          projected[Horizon - 1] = item.onHand + SumFunctionOnSet(Flow(item, receipts), Bucket)

LEMMA FlowTypes ==
    ASSUME TypeInv
    PROVE  \A b \in Bucket : /\ Flow(item, receipts)[b] = item.sched[b] + receipts[b] - item.gross[b]
                             /\ Flow(item, receipts)[b] \in Int
  BY ItemTypes DEF Flow, TypeInv, TypeOK

LEMMA StepFlowInv ==
    ASSUME TypeInv, FlowInv, [Next]_vars
    PROVE  FlowInv'
  <1>0. /\ t \in 0..Horizon /\ item.onHand \in Nat /\ balance \in Int
        /\ projected \in [Bucket -> Int]
    BY ItemTypes DEF TypeInv, TypeOK
  <1>1. CASE NetFirm \/ NetShort \/ NetEnough
    <2>1. phase' = "net"
      BY <1>1 DEF NetFirm, NetShort, NetEnough, Netting
    <2> QED
      BY <2>1 DEF FlowInv
  <1>2. CASE EndNetting \/ ChooseLots
    <2>1. /\ t' = 0 /\ balance' = item.onHand /\ item' = item
          /\ phase' \in {"lots", "project"}
      BY <1>2 DEF EndNetting, StartPass, ChooseLots, FlowInv
    <2>2. SumFunctionOnSet(Flow(item', receipts'), 0..(0 - 1)) = 0
      <3>1. 0..(0 - 1) = {}
        OBVIOUS
      <3> QED
        BY <3>1, SumEmpty
    <2> QED
      BY <1>0, <2>1, <2>2 DEF FlowInv
  <1>3. CASE Project
    <2>f. PICK f : f = Flow(item, receipts)
      OBVIOUS
    <2>1. /\ phase = "project" /\ phase' = "project" /\ t \in Bucket /\ t' = t + 1
          /\ UNCHANGED <<item, receipts>> /\ balance' = balance + item.sched[t] + receipts[t] - item.gross[t]
          /\ projected' = [projected EXCEPT ![t] = balance']
      BY <1>0, <1>3 DEF Project, Bucket
    <2>2. \A b \in Bucket : f[b] = item.sched[b] + receipts[b] - item.gross[b] /\ f[b] \in Int
      BY <2>f, FlowTypes
    <2>3. item.sched[t] \in Nat /\ receipts[t] \in Nat /\ item.gross[t] \in Nat
      BY <2>1, ItemTypes DEF TypeInv, TypeOK
    <2>4. 0..((t + 1) - 1) = (0..(t - 1)) \cup {t} /\ t \notin 0..(t - 1) /\ IsFiniteSet(0..(t - 1))
      <3>n. PICK n \in Nat : n = t
        BY <1>0
      <3>m. PICK m \in Int : m = n - 1
        OBVIOUS
      <3>1. 0..((n + 1) - 1) = (0..m) \cup {n} /\ n \notin 0..m
        BY <3>m
      <3>2. IsFiniteSet(0..m)
        BY FS_Interval
      <3> QED
        BY <3>n, <3>m, <3>1, <3>2
    <2>5. IntOn(f, (0..(t - 1)) \cup {t})
      BY <1>0, <2>1, <2>2, <2>4 DEF IntOn, Bucket
    <2>6. SumFunctionOnSet(f, 0..((t + 1) - 1)) = f[t] + SumFunctionOnSet(f, 0..(t - 1))
      BY <2>4, <2>5, SumAdd
    <2>7. SumFunctionOnSet(f, 0..(t - 1)) \in Int /\ f[t] \in Int
      <3>1. IntOn(f, 0..(t - 1))
        BY <2>5 DEF IntOn
      <3> QED
        BY <2>1, <2>2, <2>4, <3>1, SumInt
    <2>8. balance = item.onHand + SumFunctionOnSet(f, 0..(t - 1))
      BY <2>1, <2>f DEF FlowInv
    <2>9. balance' = item.onHand + SumFunctionOnSet(f, 0..((t + 1) - 1))
      <3>1. f[t] = item.sched[t] + receipts[t] - item.gross[t]
        BY <2>1, <2>2
      <3>2. PICK a, b, c, d, e, before, past :
               /\ a = item.sched[t] /\ b = receipts[t] /\ c = item.gross[t] /\ d = balance
               /\ e = item.onHand /\ before = SumFunctionOnSet(f, 0..(t - 1))
               /\ past = SumFunctionOnSet(f, 0..((t + 1) - 1))
        OBVIOUS
      <3>3. /\ a \in Nat /\ b \in Nat /\ c \in Nat /\ d \in Int /\ e \in Nat /\ before \in Int
            /\ d = e + before /\ past = f[t] + before /\ f[t] = a + b - c
        BY <1>0, <2>3, <2>6, <2>7, <2>8, <3>1, <3>2, Zenon
      <3>4. d + a + b - c = e + past
        BY <3>3
      <3> QED
        BY <2>1, <3>2, <3>4, Zenon
    <2>10. projected'[t'-1] = balance'
      BY <1>0, <2>1
    <2> QED
      BY <2>1, <2>f, <2>9, <2>10 DEF FlowInv
  <1>4. CASE EndProject
    <2>1. /\ phase = "project" /\ phase' = "offset" /\ t = Horizon
          /\ UNCHANGED <<item, receipts, projected>>
      BY <1>4 DEF EndProject, StartPass
    <2> QED
      BY <2>1 DEF FlowInv, Bucket
  <1>5. CASE OffsetNothing \/ OffsetInTime \/ OffsetPastDue \/ EndOffset
    <2>1. /\ phase = "offset" /\ phase' \in {"offset", "done"}
          /\ UNCHANGED <<item, receipts, projected>>
      BY <1>5 DEF OffsetNothing, OffsetInTime, OffsetPastDue, Offsetting, EndOffset, StartPass
    <2> QED
      BY <2>1 DEF FlowInv
  <1>6. CASE UNCHANGED vars
    BY <1>6 DEF vars, FlowInv
  <1> QED
    BY <1>1, <1>2, <1>3, <1>4, <1>5, <1>6 DEF Next

\* The flow is what comes less what is asked for.
LEMMA FlowAdds ==
    ASSUME TypeInv
    PROVE  SumFunctionOnSet(Flow(item, receipts), Bucket)
             = SumFunction(item.sched) + SumFunction(receipts) - SumFunction(item.gross)
  <1>f. PICK f : f = Flow(item, receipts)
    OBVIOUS
  <1>g. PICK g : g = item.gross
    OBVIOUS
  <1>s. PICK s : s = item.sched
    OBVIOUS
  <1>r. PICK r : r = receipts
    OBVIOUS
  <1>h. PICK h : h = [b \in Bucket |-> s[b] + r[b]]
    OBVIOUS
  <1>1. /\ g \in [Bucket -> Nat] /\ s \in [Bucket -> Nat] /\ r \in [Bucket -> Nat]
    BY <1>g, <1>s, <1>r, ItemTypes DEF TypeInv, TypeOK
  <1>2. \A b \in Bucket : f[b] \in Int /\ f[b] = s[b] + r[b] - g[b]
    BY <1>f, <1>g, <1>s, <1>r, FlowTypes
  <1>3. \A b \in Bucket : h[b] = s[b] + r[b] /\ h[b] = f[b] + g[b]
    BY <1>1, <1>2, <1>h
  <1>4. IsFiniteSet(Bucket)
    BY BucketsAreFinite
  <1>5. IntOn(f, Bucket) /\ IntOn(g, Bucket) /\ IntOn(s, Bucket) /\ IntOn(r, Bucket)
    BY <1>1, <1>2 DEF IntOn
  <1>6. SumFunctionOnSet(h, Bucket) = SumFunctionOnSet(s, Bucket) + SumFunctionOnSet(r, Bucket)
    BY <1>3, <1>4, <1>5, SumPlus
  <1>7. SumFunctionOnSet(h, Bucket) = SumFunctionOnSet(f, Bucket) + SumFunctionOnSet(g, Bucket)
    BY <1>3, <1>4, <1>5, SumPlus
  <1>8. /\ SumFunctionOnSet(f, Bucket) \in Int /\ SumFunctionOnSet(g, Bucket) \in Int
        /\ SumFunctionOnSet(s, Bucket) \in Int /\ SumFunctionOnSet(r, Bucket) \in Int
    BY <1>4, <1>5, SumInt
  <1>9. SumFunctionOnSet(f, Bucket)
          = SumFunctionOnSet(s, Bucket) + SumFunctionOnSet(r, Bucket) - SumFunctionOnSet(g, Bucket)
    BY <1>6, <1>7, <1>8
  <1>10. DOMAIN s = Bucket /\ DOMAIN r = Bucket /\ DOMAIN g = Bucket
    BY <1>1
  <1>11. /\ SumFunction(s) = SumFunctionOnSet(s, Bucket) /\ SumFunction(r) = SumFunctionOnSet(r, Bucket)
         /\ SumFunction(g) = SumFunctionOnSet(g, Bucket)
    BY <1>10, Zenon DEF SumFunction
  <1> QED
    BY <1>9, <1>11, <1>f, <1>g, <1>s, <1>r, Zenon

\* What the plan p of a part comes to: the only buckets below safety stock are fixed, what
\* is overdue is part of what is released first, and the last balance is the opening stock
\* and everything that comes, less everything asked for.
IsOutcome(p, part) ==
    /\ p.releases \in [Bucket -> Nat] /\ p.gross \in [Bucket -> Nat] /\ p.projected \in [Bucket -> Int]
    /\ LateOf(p.pastDue, p.releases, Horizon)
    /\ \A b \in Bucket : part.firm[b] = 0 => p.projected[b] >= part.safety
    /\ part.safety \in Nat /\ part.onHand \in Nat /\ part.firm \in [Bucket -> Nat]
    /\ Horizon # 0 =>
          p.projected[Horizon - 1] = part.onHand + SumFunction(part.sched) + SumFunction(p.releases)
                                       - SumFunction(p.gross)
    /\ SumFunction(part.sched) \in Int /\ SumFunction(p.releases) \in Int /\ SumFunction(p.gross) \in Int

LEMMA BucketSum ==
    ASSUME NEW f \in [Bucket -> Nat]
    PROVE  SumFunction(f) = SumFunctionOnSet(f, Bucket) /\ SumFunction(f) \in Nat
  <1>1. DOMAIN f = Bucket
    OBVIOUS
  <1>2. SumFunction(f) = SumFunctionOnSet(f, Bucket)
    BY <1>1, Zenon DEF SumFunction
  <1>3. SumFunctionOnSet(f, Bucket) \in Nat
    BY QuantitiesAdd
  <1> QED
    BY <1>2, <1>3

LEMMA DoneOutcome ==
    ASSUME NettingInv, LateInv, FlowInv, phase = "done", NEW part, KeepsPart(item, part),
           NEW p, p.releases = releases, p.gross = item.gross, p.projected = projected,
           p.pastDue = pastDue
    PROVE  IsOutcome(p, part)
  <1>1. /\ releases \in [Bucket -> Nat] /\ receipts \in [Bucket -> Nat] /\ projected \in [Bucket -> Int]
        /\ item.gross \in [Bucket -> Nat] /\ item.sched \in [Bucket -> Nat]
        /\ item.firm \in [Bucket -> Nat] /\ item.safety \in Nat /\ item.onHand \in Nat
    BY ItemTypes DEF NettingInv, TypeInv, TypeOK
  <1>2. LateOf(pastDue, releases, Horizon)
    BY DEF LateInv
  <1>3. \A b \in Bucket : item.firm[b] = 0 => projected[b] >= item.safety
    <2>1. StockIsJustEnough
      BY JustEnough DEF NettingInv, EnoughInv
    <2> QED
      BY <2>1 DEF StockIsJustEnough, Planned, Firm
  <1>4. SumFunction(releases) = SumFunction(receipts)
    <2>1. ReleasedInTime
      BY InTime DEF NettingInv
    <2> QED
      BY <2>1 DEF ReleasedInTime, Planned
  <1>5. Horizon # 0 => projected[Horizon - 1] = item.onHand + SumFunctionOnSet(Flow(item, receipts), Bucket)
    BY DEF FlowInv
  <1>6. SumFunctionOnSet(Flow(item, receipts), Bucket)
          = SumFunction(item.sched) + SumFunction(receipts) - SumFunction(item.gross)
    BY FlowAdds DEF NettingInv
  <1>7. /\ SumFunction(item.sched) \in Nat /\ SumFunction(receipts) \in Nat
        /\ SumFunction(item.gross) \in Nat
    BY <1>1, BucketSum
  <1>8. Horizon # 0 => projected[Horizon - 1] = item.onHand + SumFunction(item.sched) + SumFunction(releases)
                                                  - SumFunction(item.gross)
    <2>1. PICK a, b, c, d : /\ a = SumFunction(item.sched) /\ b = SumFunction(receipts)
                            /\ c = SumFunction(item.gross) /\ d = item.onHand
      OBVIOUS
    <2>2. a \in Nat /\ b \in Nat /\ c \in Nat /\ d \in Nat
      BY <1>1, <1>7, <2>1
    <2>3. d + (a + b - c) = d + a + b - c
      BY <2>2
    <2> QED
      BY <1>4, <1>5, <1>6, <2>1, <2>3, Zenon
  <1>9. /\ part.onHand = item.onHand /\ part.safety = item.safety
        /\ part.sched = item.sched /\ part.firm = item.firm
    BY DEF KeepsPart
  <1> QED
    BY <1>1, <1>2, <1>3, <1>4, <1>7, <1>8, <1>9 DEF IsOutcome

Outcomes(ps, parts) == \A n \in DOMAIN ps : IsOutcome(ps[n], parts[ps[n].sku])
BookInv == LateInv /\ FlowInv /\ Outcomes(plans, plant.parts)

LEMMA FreshBook ==
    ASSUME phase = "net", pastDue = {}
    PROVE  LateInv /\ FlowInv
  BY DEF LateInv, FlowInv

LEMMA BeginsBook ==
    ASSUME NEW i, Begin(i)
    PROVE  (LateInv /\ FlowInv)'
  <1>1. phase' = "net" /\ pastDue' = {}
    BY DEF Begin
  <1> QED
    BY <1>1 DEF LateInv, FlowInv

LEMMA BookOne ==
    ASSUME NEW ps, IsSeq(ps), NEW parts, Outcomes(ps, parts), NEW p, IsOutcome(p, parts[p.sku])
    PROVE  Outcomes(Append(ps, p), parts)
  <1>1. ps \in Seq({ps[n] : n \in DOMAIN ps})
    BY DEF IsSeq
  <1>q. PICK q : q = Append(ps, p)
    OBVIOUS
  <1>2. /\ Len(ps) \in Nat /\ DOMAIN ps = 1..Len(ps)
        /\ DOMAIN q = 1..(Len(ps) + 1) /\ q[Len(ps) + 1] = p
        /\ \A n \in 1..Len(ps) : q[n] = ps[n]
    BY <1>1, <1>q, LenProperties, AppendProperties
  <1>3. ASSUME NEW n \in DOMAIN q PROVE IsOutcome(q[n], parts[q[n].sku])
    <2>1. CASE n \in 1..Len(ps)
      BY <1>2, <2>1 DEF Outcomes
    <2>2. CASE n = Len(ps) + 1
      BY <1>2, <2>2
    <2> QED
      BY <1>2, <1>3, <2>1, <2>2
  <1> QED
    BY <1>q, <1>3 DEF Outcomes

LEMMA HandDownBook ==
    ASSUME BomInv, BookInv, HandDown
    PROVE  BookInv'
  <1>c. PICK c : c = Current
    OBVIOUS
  <1>r. PICK row : row = [sku |-> c, gross |-> item.gross, releases |-> releases,
                             projected |-> projected, pastDue |-> pastDue]
    OBVIOUS
  <1>p. PICK ps, parts : ps = plans /\ parts = plant.parts
    OBVIOUS
  <1>1. /\ stage = "plan" /\ phase = "done" /\ plant' = plant /\ plans' = Append(ps, row)
        /\ UNCHANGED vars \/ \E i : Begin(i)
    BY <1>c, <1>r, <1>p DEF HandDown
  <1>2. KeepsPart(item, parts[c])
    BY <1>1, <1>c, <1>p DEF BomInv, PlanningInv
  <1>3. IsOutcome(row, parts[c])
    BY <1>1, <1>2, <1>r, DoneOutcome DEF BomInv, BookInv
  <1>4. IsSeq(ps)
    BY <1>1, <1>p DEF BomInv, PlanningInv, Progress, PlanRows
  <1>5. row.sku = c
    BY <1>r
  <1>6. Outcomes(Append(ps, row), parts)
    BY <1>3, <1>4, <1>5, <1>p, BookOne DEF BookInv
  <1>7. LateInv' /\ FlowInv'
    <2>1. CASE UNCHANGED vars
      BY <2>1 DEF vars, BookInv, LateInv, FlowInv
    <2>2. CASE \E i : Begin(i)
      BY <2>2, BeginsBook
    <2> QED
      BY <1>1, <2>1, <2>2
  <1> QED
    BY <1>1, <1>6, <1>7, <1>p DEF BookInv

LEMMA StepBookInv ==
    ASSUME BomInv, BomInv', BookInv, [ExplodeNext]_<<vars, explodeVars>>
    PROVE  BookInv'
  <1>0. TypeInv /\ TypeInv' /\ LateInv /\ FlowInv
    BY DEF BomInv, NettingInv, BookInv
  <1>1. CASE StartPlanning
    <2>1. UNCHANGED <<plant, plans>> /\ \E i : Begin(i)
      BY <1>1 DEF StartPlanning
    <2> QED
      BY <2>1, BeginsBook DEF BookInv
  <1>2. CASE HandDown
    BY <1>2, HandDownBook
  <1>3. CASE PlanItem
    <2>1. Next /\ UNCHANGED <<plant, plans>>
      BY <1>3 DEF PlanItem, explodeVars
    <2>2. LateInv' /\ FlowInv'
      BY <1>0, <2>1, StepLateInv, StepFlowInv
    <2> QED
      BY <2>1, <2>2 DEF BookInv
  <1>4. CASE \/ AsMaster \/ PriceLots \/ RefuseRouting \/ RefuseEdge \/ RelaxEdge \/ NextRound
             \/ RefuseCycle \/ UNCHANGED <<vars, explodeVars>>
    <2>1. UNCHANGED <<vars, plant, plans>>
      BY <1>4 DEF AsMaster, PriceLots, RefuseRouting, Pricing, RefuseEdge, RelaxEdge, Relaxing,
                  NextRound, RefuseCycle, explodeVars
    <2>2. LateInv' /\ FlowInv'
      BY <1>0, <2>1, StepLateInv, StepFlowInv
    <2> QED
      BY <2>1, <2>2 DEF BookInv
  <1> QED
    BY <1>1, <1>2, <1>3, <1>4 DEF ExplodeNext

------------------------------------------------------------------------------
(***************************************************************************)
(* The screens: lists of rows, their orders and their pages.               *)
(***************************************************************************)
\* Rows of a list: for a date and a SKU there is one.
IsRows(S) ==
    /\ IsFiniteSet(S)
    /\ \A r \in S : r.date \in Nat /\ r.sku \in Nat /\ r.qty \in Int
    /\ \A r, s \in S : r.date = s.date /\ r.sku = s.sku => r = s

SoonerIn(S) == {p \in S \X S : Sooner(p[1], p[2])}
WorstIn(S) == {p \in S \X S : WorstFirst(p[1], p[2])}

LEMMA RowsAreOrdered ==
    ASSUME NEW S, IsRows(S)
    PROVE  Strict(S, SoonerIn(S)) /\ Strict(S, WorstIn(S))
  <1>0. /\ \A r \in S : r.date \in Nat /\ r.sku \in Nat /\ r.qty \in Int
        /\ \A r, s \in S : r.date = s.date /\ r.sku = s.sku => r = s
    BY DEF IsRows
  <1>R. PICK R : R = SoonerIn(S)
    OBVIOUS
  <1>W. PICK W : W = WorstIn(S)
    OBVIOUS
  <1>1. \A x, y \in S : (<<x, y>> \in R <=> Sooner(x, y)) /\ (<<x, y>> \in W <=> WorstFirst(x, y))
    BY <1>R, <1>W DEF SoonerIn, WorstIn
  <1>2. \A x \in S : ~Sooner(x, x)
    BY <1>0 DEF Sooner
  <1>3. \A x, y, z \in S : Sooner(x, y) /\ Sooner(y, z) => Sooner(x, z)
    BY <1>0 DEF Sooner
  <1>4. \A x, y \in S : x # y => Sooner(x, y) \/ Sooner(y, x)
    BY <1>0 DEF Sooner
  <1>5. Strict(S, R)
    BY <1>1, <1>2, <1>3, <1>4 DEF Strict
  <1>6. \A x \in S : ~WorstFirst(x, x)
    BY <1>0, <1>2 DEF WorstFirst
  <1>7. ASSUME NEW x \in S, NEW y \in S, NEW z \in S, WorstFirst(x, y), WorstFirst(y, z)
        PROVE  WorstFirst(x, z)
    <2>1. x.qty \in Int /\ y.qty \in Int /\ z.qty \in Int
      BY <1>0
    <2>2. Sooner(x, y) /\ Sooner(y, z) => Sooner(x, z)
      BY <1>3
    <2> QED
      BY <1>7, <2>1, <2>2 DEF WorstFirst
  <1>8. ASSUME NEW x \in S, NEW y \in S, x # y
        PROVE  WorstFirst(x, y) \/ WorstFirst(y, x)
    <2>1. x.qty \in Int /\ y.qty \in Int /\ (Sooner(x, y) \/ Sooner(y, x))
      BY <1>0, <1>4, <1>8
    <2> QED
      BY <2>1 DEF WorstFirst
  <1>9. Strict(S, W)
    BY <1>1, <1>6, <1>7, <1>8 DEF Strict
  <1> QED
    BY <1>5, <1>9, <1>R, <1>W

\* A list of rows in either order has them all, in their places.
LEMMA SoonerSorts ==
    ASSUME NEW S, IsRows(S)
    PROVE  ListsRanked(Sorted(S, Sooner), S, SoonerIn(S))
  <1>R. PICK R : R = SoonerIn(S)
    OBVIOUS
  <1>L. PICK L : L = Sorted(S, Sooner)
    OBVIOUS
  <1>1. IsFiniteSet(S) /\ Strict(S, R)
    BY <1>R, RowsAreOrdered DEF IsRows
  <1>2. \A x \in S : Preceding(S, R, x) = {y \in S : Sooner(y, x)}
    BY <1>R DEF Preceding, SoonerIn
  <1> DEFINE Nth(n) == CHOOSE x \in S : Cardinality({y \in S : Sooner(y, x)}) = n - 1
  <1>3. L = [n \in 1..Cardinality(S) |-> Nth(n)]
    BY <1>L DEF Sorted
  <1>4. ASSUME NEW n \in 1..Cardinality(S)
        PROVE  L[n] \in S /\ Cardinality(Preceding(S, R, L[n])) = n - 1
    <2>1. L[n] = CHOOSE x \in S : Cardinality({y \in S : Sooner(y, x)}) = n - 1
      BY <1>3
    <2>2. n - 1 \in 0..(Cardinality(S) - 1)
      BY <1>1, FS_CardinalityType
    <2>3. PICK x \in S : Cardinality(Preceding(S, R, x)) = n - 1
      BY <1>1, <2>2, RankPlaces
    <2>4. Cardinality({y \in S : Sooner(y, x)}) = n - 1
      BY <1>2, <2>3
    <2>5. L[n] \in S /\ Cardinality({y \in S : Sooner(y, L[n])}) = n - 1
      BY <2>1, <2>4, Zenon
    <2> QED
      BY <1>2, <2>5
  <1>5. L = [n \in 1..Cardinality(S) |-> L[n]]
    <2> HIDE DEF Nth
    <2> QED
      BY <1>3
  <1>6. InPlaces(L, S, R)
    BY <1>4, <1>5 DEF InPlaces
  <1> QED
    BY <1>R, <1>L, <1>1, <1>6, PlacesSort

LEMMA WorstSorts ==
    ASSUME NEW S, IsRows(S)
    PROVE  ListsRanked(Sorted(S, WorstFirst), S, WorstIn(S))
  <1>R. PICK R : R = WorstIn(S)
    OBVIOUS
  <1>L. PICK L : L = Sorted(S, WorstFirst)
    OBVIOUS
  <1>1. IsFiniteSet(S) /\ Strict(S, R)
    BY <1>R, RowsAreOrdered DEF IsRows
  <1>2. \A x \in S : Preceding(S, R, x) = {y \in S : WorstFirst(y, x)}
    BY <1>R DEF Preceding, WorstIn
  <1> DEFINE Nth(n) == CHOOSE x \in S : Cardinality({y \in S : WorstFirst(y, x)}) = n - 1
  <1>3. L = [n \in 1..Cardinality(S) |-> Nth(n)]
    BY <1>L DEF Sorted
  <1>4. ASSUME NEW n \in 1..Cardinality(S)
        PROVE  L[n] \in S /\ Cardinality(Preceding(S, R, L[n])) = n - 1
    <2>1. L[n] = CHOOSE x \in S : Cardinality({y \in S : WorstFirst(y, x)}) = n - 1
      BY <1>3
    <2>2. n - 1 \in 0..(Cardinality(S) - 1)
      BY <1>1, FS_CardinalityType
    <2>3. PICK x \in S : Cardinality(Preceding(S, R, x)) = n - 1
      BY <1>1, <2>2, RankPlaces
    <2>4. Cardinality({y \in S : WorstFirst(y, x)}) = n - 1
      BY <1>2, <2>3
    <2>5. L[n] \in S /\ Cardinality({y \in S : WorstFirst(y, L[n])}) = n - 1
      BY <2>1, <2>4, Zenon
    <2> QED
      BY <1>2, <2>5
  <1>5. L = [n \in 1..Cardinality(S) |-> L[n]]
    <2> HIDE DEF Nth
    <2> QED
      BY <1>3
  <1>6. InPlaces(L, S, R)
    BY <1>4, <1>5 DEF InPlaces
  <1> QED
    BY <1>R, <1>L, <1>1, <1>6, PlacesSort

\* shown has the first rows of S, as many as a page has.
Top(shown, S, R) ==
    /\ {shown[n] : n \in DOMAIN shown} \subseteq S
    /\ Len(shown) = IF Cardinality(S) < PageLimit THEN Cardinality(S) ELSE PageLimit
    /\ \A r \in S \ {shown[n] : n \in DOMAIN shown}, s \in {shown[n] : n \in DOMAIN shown} : <<s, r>> \in R

LEMMA PageIsTop ==
    ASSUME NEW S, NEW R, NEW L, ListsRanked(L, S, R)
    PROVE  Top(Page(L), S, R)
  <1>K. PICK K : K = IF Len(L) < PageLimit THEN Len(L) ELSE PageLimit
    OBVIOUS
  <1>P. PICK P : P = Page(L)
    OBVIOUS
  <1>0. /\ L \in Seq(S) /\ Len(L) = Cardinality(S) /\ DOMAIN L = 1..Len(L) /\ Len(L) \in Nat
        /\ \A n \in DOMAIN L : L[n] \in S
        /\ \A x \in S : \E n \in DOMAIN L : L[n] = x
        /\ \A m, n \in DOMAIN L : m < n => <<L[m], L[n]>> \in R
    BY LenProperties DEF ListsRanked
  <1>1. K \in Nat /\ K <= Len(L) /\ (Len(L) < PageLimit => K = Len(L)) /\ (~ Len(L) < PageLimit => K = PageLimit)
    BY <1>K, <1>0, PageAssumption
  <1>2. P = SubSeq(L, 1, K)
    BY <1>K, <1>P DEF Page
  <1>3. Len(P) = K /\ DOMAIN P = 1..K /\ \A n \in 1..K : P[n] = L[n]
    BY <1>0, <1>1, <1>2
  <1>4. \A n \in 1..K : P[n] \in S
    BY <1>0, <1>1, <1>3
  <1>5. ASSUME NEW r \in S, NEW n \in 1..K, r \notin {P[m] : m \in DOMAIN P}
        PROVE  <<P[n], r>> \in R
    <2>1. PICK m \in DOMAIN L : L[m] = r
      BY <1>0
    <2>2. m \notin 1..K
      BY <1>3, <1>5, <2>1
    <2>3. n < m /\ n \in DOMAIN L
      BY <1>0, <1>1, <2>1, <2>2
    <2> QED
      BY <1>0, <1>3, <2>1, <2>3
  <1>6. Len(P) = IF Cardinality(S) < PageLimit THEN Cardinality(S) ELSE PageLimit
    BY <1>0, <1>1, <1>3
  <1> QED
    BY <1>P, <1>3, <1>4, <1>5, <1>6 DEF Top

LEMMA TopWeakens ==
    ASSUME NEW S, NEW R, NEW Q, NEW shown, Top(shown, S, R), \A x, y \in S : <<x, y>> \in R => <<x, y>> \in Q
    PROVE  Top(shown, S, Q)
  BY DEF Top

\* The order of a list for a screen, as far as its page tells.
Ranking(S, worst) == {p \in S \X S : IF worst THEN p[1].qty >= p[2].qty ELSE p[1].date <= p[2].date}

LEMMA SummaryIs ==
    ASSUME NEW S, IsRows(S), NEW worst \in BOOLEAN
    PROVE  Summary(S, worst).total = Cardinality(S) /\ Top(Summary(S, worst).rows, S, Ranking(S, worst))
  <1>1. PICK L : L = IF worst THEN Sorted(S, WorstFirst) ELSE Sorted(S, Sooner)
    OBVIOUS
  <1>2. Summary(S, worst).total = Len(L) /\ Summary(S, worst).rows = Page(L)
    BY <1>1 DEF Summary
  <1>0. \A r \in S : r.date \in Nat /\ r.sku \in Nat /\ r.qty \in Int
    BY DEF IsRows
  <1>3. CASE worst
    <2>1. ListsRanked(L, S, WorstIn(S))
      BY <1>1, <1>3, WorstSorts
    <2>2. Top(Page(L), S, WorstIn(S))
      BY <2>1, PageIsTop
    <2>3. \A x, y \in S : <<x, y>> \in WorstIn(S) => <<x, y>> \in Ranking(S, worst)
      BY <1>0, <1>3 DEF WorstIn, Ranking, WorstFirst
    <2>4. Top(Page(L), S, Ranking(S, worst))
      BY <2>2, <2>3, TopWeakens
    <2> QED
      BY <1>2, <2>1, <2>4 DEF ListsRanked
  <1>4. CASE ~worst
    <2>1. ListsRanked(L, S, SoonerIn(S))
      BY <1>1, <1>4, SoonerSorts
    <2>2. Top(Page(L), S, SoonerIn(S))
      BY <2>1, PageIsTop
    <2>3. \A x, y \in S : <<x, y>> \in SoonerIn(S) => <<x, y>> \in Ranking(S, worst)
      BY <1>0, <1>4 DEF SoonerIn, Ranking, Sooner
    <2>4. Top(Page(L), S, Ranking(S, worst))
      BY <2>2, <2>3, TopWeakens
    <2> QED
      BY <1>2, <2>1, <2>4 DEF ListsRanked
  <1> QED
    BY <1>3, <1>4

OrdersOf(ps, skus) ==
    {r \in [date : Bucket, sku : skus, qty : {Out(ps, s)[b] : s \in skus, b \in Bucket}] :
        r.qty = Out(ps, r.sku)[r.date] /\ r.qty # 0}

ShortOf(ps) ==
    UNION {{[date |-> b, sku |-> ps[i].sku, qty |-> -ps[i].projected[b]] :
              b \in {x \in Bucket : ps[i].projected[x] < 0}} : i \in DOMAIN ps}

LateRowsOf(ps) ==
    UNION {{[date |-> e.bucket, sku |-> ps[i].sku, qty |-> e.qty] : e \in ps[i].pastDue} :
              i \in DOMAIN ps}

LEMMA ListsAre ==
    OrderRows = OrdersOf(plans, Skus) /\ ShortageRows = ShortOf(plans) /\ PastDueRows = LateRowsOf(plans)
  <1>1. OrderRows = OrdersOf(plans, Skus)
    BY DEF OrderRows, OrdersOf, Released, Out
  <1> QED
    BY <1>1 DEF ShortageRows, ShortOf, PastDueRows, LateRowsOf

\* Where date and SKU tell rows apart there are finitely many.
LEMMA RowsOver ==
    ASSUME NEW S, NEW A \in SUBSET Nat, IsFiniteSet(A),
           \A r \in S : r.date \in Bucket /\ r.sku \in A /\ r.qty \in Int,
           \A r, s \in S : r.date = s.date /\ r.sku = s.sku => r = s
    PROVE  IsRows(S)
  <1>P. PICK P : P = {p \in A \X Bucket : \E r \in S : r.sku = p[1] /\ r.date = p[2]}
    OBVIOUS
  <1>g. PICK g : g = [p \in P |-> CHOOSE r \in S : r.sku = p[1] /\ r.date = p[2]]
    OBVIOUS
  <1>1. IsFiniteSet(P)
    <2>1. IsFiniteSet(A \X Bucket)
      BY BucketsAreFinite, FS_Product
    <2> QED
      BY <1>P, <2>1, FS_Subset
  <1>2. ASSUME NEW p \in P PROVE g[p] \in S /\ g[p].sku = p[1] /\ g[p].date = p[2]
    <2>1. \E r \in S : r.sku = p[1] /\ r.date = p[2]
      BY <1>P
    <2>2. g[p] = CHOOSE r \in S : r.sku = p[1] /\ r.date = p[2]
      BY <1>g
    <2> QED
      BY <2>1, <2>2, Zenon
  <1>3. ASSUME NEW r \in S PROVE \E p \in P : g[p] = r
    <2>1. <<r.sku, r.date>> \in P
      BY <1>P
    <2>2. g[<<r.sku, r.date>>] = r
      BY <1>2, <2>1
    <2> QED
      BY <2>1, <2>2
  <1>4. S = {g[p] : p \in P}
    BY <1>2, <1>3
  <1>5. IsFiniteSet(S)
    BY <1>1, <1>4, ImageIsFinite
  <1>6. Bucket \subseteq Nat /\ A \subseteq Nat
    BY DEF Bucket
  <1>7. \A r \in S : r.date \in Nat /\ r.sku \in Nat /\ r.qty \in Int
    BY <1>6, Zenon
  <1> QED
    BY <1>5, <1>7 DEF IsRows

LEMMA OrdersAreRows ==
    ASSUME NEW ps, NEW skus \in SUBSET Nat, IsFiniteSet(skus), PlanRows(ps, skus)
    PROVE  IsRows(OrdersOf(ps, skus))
  <1>S. PICK S : S = OrdersOf(ps, skus)
    OBVIOUS
  <1>1. \A s : Out(ps, s) \in [Bucket -> Nat]
    BY OutTypes DEF PlanRows
  <1>2. \A r \in S : /\ r.date \in Bucket /\ r.sku \in skus /\ r.qty = Out(ps, r.sku)[r.date]
                     /\ r = [date |-> r.date, sku |-> r.sku, qty |-> r.qty]
    BY <1>S DEF OrdersOf
  <1>3. \A r \in S : r.qty \in Int
    BY <1>1, <1>2
  <1>4. ASSUME NEW r \in S, NEW s \in S, r.date = s.date, r.sku = s.sku PROVE r = s
    <2>1. r.qty = s.qty
      BY <1>2, <1>4
    <2> QED
      BY <1>2, <1>4, <2>1
  <1> QED
    BY <1>2, <1>3, <1>4, <1>S, RowsOver

LEMMA ShortAreRows ==
    ASSUME NEW ps, NEW skus \in SUBSET Nat, IsFiniteSet(skus), PlanRows(ps, skus),
           NEW parts, Outcomes(ps, parts)
    PROVE  IsRows(ShortOf(ps))
  <1>S. PICK S : S = ShortOf(ps)
    OBVIOUS
  <1>1. \A r \in S : \E i \in DOMAIN ps : \E b \in Bucket :
          r = [date |-> b, sku |-> ps[i].sku, qty |-> -ps[i].projected[b]]
    BY <1>S DEF ShortOf
  <1>2. \A i \in DOMAIN ps : ps[i].sku \in skus /\ \A b \in Bucket : ps[i].projected[b] \in Int
    BY DEF PlanRows, Outcomes, IsOutcome
  <1>3. \A r \in S : r.date \in Bucket /\ r.sku \in skus /\ r.qty \in Int
    BY <1>1, <1>2
  <1>4. ASSUME NEW r \in S, NEW s \in S, r.date = s.date, r.sku = s.sku PROVE r = s
    <2>1. PICK i \in DOMAIN ps, b \in Bucket : r = [date |-> b, sku |-> ps[i].sku, qty |-> -ps[i].projected[b]]
      BY <1>1
    <2>2. PICK j \in DOMAIN ps, c \in Bucket : s = [date |-> c, sku |-> ps[j].sku, qty |-> -ps[j].projected[c]]
      BY <1>1
    <2>3. b = c /\ ps[i].sku = ps[j].sku
      BY <1>4, <2>1, <2>2
    <2>4. i = j
      BY <2>3 DEF PlanRows, Distinct
    <2> QED
      BY <2>1, <2>2, <2>3, <2>4
  <1> QED
    BY <1>3, <1>4, <1>S, RowsOver

LEMMA LateAreRows ==
    ASSUME NEW ps, NEW skus \in SUBSET Nat, IsFiniteSet(skus), PlanRows(ps, skus),
           NEW parts, Outcomes(ps, parts)
    PROVE  IsRows(LateRowsOf(ps))
  <1>S. PICK S : S = LateRowsOf(ps)
    OBVIOUS
  <1>1. \A r \in S : \E i \in DOMAIN ps : \E e \in ps[i].pastDue :
          r = [date |-> e.bucket, sku |-> ps[i].sku, qty |-> e.qty]
    BY <1>S DEF LateRowsOf
  <1>2. \A i \in DOMAIN ps :
          /\ ps[i].sku \in skus
          /\ \A e \in ps[i].pastDue : e.bucket \in Bucket /\ e.qty \in Nat
          /\ \A d, e \in ps[i].pastDue : d.bucket = e.bucket => d = e
    BY DEF PlanRows, Outcomes, IsOutcome, LateOf
  <1>3. \A r \in S : r.date \in Bucket /\ r.sku \in skus /\ r.qty \in Int
    BY <1>1, <1>2
  <1>4. ASSUME NEW r \in S, NEW s \in S, r.date = s.date, r.sku = s.sku PROVE r = s
    <2>1. PICK i \in DOMAIN ps : \E e \in ps[i].pastDue : r = [date |-> e.bucket, sku |-> ps[i].sku, qty |-> e.qty]
      BY <1>1
    <2>2. PICK j \in DOMAIN ps : \E e \in ps[j].pastDue : s = [date |-> e.bucket, sku |-> ps[j].sku, qty |-> e.qty]
      BY <1>1
    <2>3. PICK d \in ps[i].pastDue : r = [date |-> d.bucket, sku |-> ps[i].sku, qty |-> d.qty]
      BY <2>1
    <2>4. PICK e \in ps[j].pastDue : s = [date |-> e.bucket, sku |-> ps[j].sku, qty |-> e.qty]
      BY <2>2
    <2>5. d.bucket = e.bucket /\ ps[i].sku = ps[j].sku
      BY <1>4, <2>3, <2>4
    <2>6. i = j
      BY <2>5 DEF PlanRows, Distinct
    <2>7. d = e
      BY <1>2, <2>5, <2>6
    <2> QED
      BY <2>3, <2>4, <2>6, <2>7
  <1> QED
    BY <1>3, <1>4, <1>S, RowsOver

------------------------------------------------------------------------------
\* A filter of the order list.
WantedOf(orders, raw, action) ==
    {r \in orders : action = "all" \/ (IF r.sku \in raw THEN "buy" ELSE "make") = action}

LEMMA WantedIs == \A action : Wanted(action) = WantedOf(OrderRows, plant.raw, action)
  BY DEF Wanted, WantedOf, ActionFor

LEMMA WantedAreRows ==
    ASSUME NEW orders, IsRows(orders), NEW raw, NEW action
    PROVE  IsRows(WantedOf(orders, raw, action))
  <1>1. WantedOf(orders, raw, action) \in SUBSET orders
    BY DEF WantedOf
  <1>2. IsFiniteSet(WantedOf(orders, raw, action))
    BY <1>1, FS_Subset DEF IsRows
  <1> QED
    BY <1>1, <1>2 DEF IsRows

\* Two parts of a set make it up.
LEMMA SharedOut ==
    ASSUME NEW S, IsFiniteSet(S), NEW A, NEW B, A \cup B = S, A \cap B = {}
    PROVE  Cardinality(A) + Cardinality(B) = Cardinality(S)
  <1>1. A \in SUBSET S /\ B \in SUBSET S
    OBVIOUS
  <1>2. IsFiniteSet(A) /\ IsFiniteSet(B)
    BY <1>1, FS_Subset
  <1>3. Cardinality(A \cup B) = Cardinality(A) + Cardinality(B) - Cardinality(A \cap B)
    BY <1>2, FS_Union
  <1>4. Cardinality(A \cup B) = Cardinality(S) /\ Cardinality(A \cap B) = 0
    BY FS_EmptySet, Zenon
  <1>5. Cardinality(A) \in Nat /\ Cardinality(B) \in Nat
    BY <1>2, FS_CardinalityType
  <1>6. PICK a, b, c, d : /\ a = Cardinality(A) /\ b = Cardinality(B)
                          /\ c = Cardinality(A \cap B) /\ d = Cardinality(A \cup B)
    OBVIOUS
  <1>7. d = a + b - c /\ c = 0 /\ a \in Nat /\ b \in Nat
    BY <1>3, <1>4, <1>5, <1>6, Zenon
  <1>8. a + b = d
    BY <1>7
  <1> QED
    BY <1>4, <1>6, <1>8, Zenon

\* The two filters share the list out.
LEMMA FiltersShare ==
    ASSUME NEW orders, IsFiniteSet(orders), NEW raw
    PROVE  Cardinality(WantedOf(orders, raw, "make")) + Cardinality(WantedOf(orders, raw, "buy"))
             = Cardinality(orders)
  <1>A. PICK A : A = WantedOf(orders, raw, "make")
    OBVIOUS
  <1>B. PICK B : B = WantedOf(orders, raw, "buy")
    OBVIOUS
  <1>1. A \cup B = orders /\ A \cap B = {}
    BY <1>A, <1>B DEF WantedOf
  <1> QED
    BY <1>1, <1>A, <1>B, SharedOut

\* What a page owns up to.
OwnsUp(pg, orders, raw, short, late) ==
    /\ pg.status = "orders" =>
         /\ Top(pg.rows, WantedOf(orders, raw, pg.action), SoonerIn(WantedOf(orders, raw, pg.action)))
         /\ pg.total = Cardinality(WantedOf(orders, raw, pg.action))
         /\ pg.totals["make"] + pg.totals["buy"] = pg.total
    /\ pg.status = "exported" => Len(pg.rows) = Cardinality(WantedOf(orders, raw, pg.action))
    /\ pg.status = "risks" =>
         /\ Top(pg.shortages.rows, short, Ranking(short, pg.worst))
         /\ Top(pg.overdue.rows, late, Ranking(late, pg.worst))
         /\ pg.overdue.total = Cardinality(late)

LEMMA OrdersOwnUp ==
    ASSUME NEW action, IsRows(OrderRows), PlanOrders(action), NEW short, NEW late
    PROVE  OwnsUp(page', OrderRows, plant.raw, short, late)
  <1>W. PICK W : W = Wanted(action)
    OBVIOUS
  <1>L. PICK L : L = OrderList(action)
    OBVIOUS
  <1>R. PICK raw : raw = plant.raw
    OBVIOUS
  <1>0. W = WantedOf(OrderRows, raw, action) /\ L = Sorted(W, Sooner)
    BY <1>W, <1>L, <1>R, WantedIs DEF OrderList
  <1>1. ListsRanked(L, W, SoonerIn(W))
    BY <1>0, WantedAreRows, SoonerSorts
  <1>2. Top(Page(L), W, SoonerIn(W)) /\ Len(L) = Cardinality(W) /\ DOMAIN L = 1..Len(L) /\ Len(L) \in Nat
    BY <1>1, PageIsTop, LenProperties DEF ListsRanked
  <1>3. /\ page'.status = "orders" /\ page'.action = action /\ page'.total = Len(L) /\ page'.rows = Page(L)
        /\ page'.totals["make"] = Cardinality({n \in DOMAIN L : ActionFor(L[n].sku) = "make"})
        /\ page'.totals["buy"] = Cardinality({n \in DOMAIN L : ActionFor(L[n].sku) = "buy"})
    BY <1>L DEF PlanOrders, Actions
  <1>4. page'.totals["make"] + page'.totals["buy"] = Len(L)
    <2>A. PICK A : A = {n \in DOMAIN L : ActionFor(L[n].sku) = "make"}
      OBVIOUS
    <2>B. PICK B : B = {n \in DOMAIN L : ActionFor(L[n].sku) = "buy"}
      OBVIOUS
    <2>1. A \cup B = 1..Len(L) /\ A \cap B = {}
      BY <1>2, <2>A, <2>B DEF ActionFor
    <2>2. IsFiniteSet(1..Len(L)) /\ Cardinality(1..Len(L)) = Len(L)
      BY <1>2, FS_Interval
    <2>3. Cardinality(A) + Cardinality(B) = Len(L)
      BY <2>1, <2>2, SharedOut
    <2> QED
      BY <1>3, <2>3, <2>A, <2>B
  <1> QED
    BY <1>0, <1>2, <1>3, <1>4, <1>R DEF OwnsUp

PageInv ==
    /\ page # NoAnswer => stage = "planned" /\ verdict # NoAnswer
    /\ OwnsUp(page, OrdersOf(plans, Skus), plant.raw, ShortOf(plans), LateRowsOf(plans))

ShownInv == BomInv /\ BookInv /\ PageInv

\* The rows of a finished plan.
LEMMA FinishedRows ==
    ASSUME BomInv, BookInv, stage = "planned"
    PROVE  /\ PlanRows(plans, Skus) /\ Skus \in SUBSET Nat /\ IsFiniteSet(Skus)
           /\ IsRows(OrdersOf(plans, Skus)) /\ IsRows(ShortOf(plans)) /\ IsRows(LateRowsOf(plans))
  <1>1. PlanRows(plans, Skus) /\ Skus \in SUBSET Nat /\ IsFiniteSet(Skus)
    BY DEF BomInv, PlanningInv, Progress, PlantInv
  <1>2. Outcomes(plans, plant.parts)
    BY DEF BookInv
  <1> QED
    BY <1>1, <1>2, OrdersAreRows, ShortAreRows, LateAreRows

LEMMA AskedOwnsUp ==
    ASSUME BomInv, BookInv, Ask
    PROVE  OwnsUp(page', OrdersOf(plans, Skus), plant.raw, ShortOf(plans), LateRowsOf(plans))
  <1>1. stage = "planned"
    BY DEF Ask, PlanOrders, PlanExport, RefuseExport, PlanRisks, OverrideList, Asked
  <1>2. IsRows(OrdersOf(plans, Skus)) /\ IsRows(ShortOf(plans)) /\ IsRows(LateRowsOf(plans))
    BY <1>1, FinishedRows
  <1>r. PICK orders, short, late, raw :
           /\ orders = OrdersOf(plans, Skus) /\ short = ShortOf(plans) /\ late = LateRowsOf(plans)
           /\ raw = plant.raw
    OBVIOUS
  <1>3. IsRows(orders) /\ IsRows(short) /\ IsRows(late)
    BY <1>2, <1>r
  <1>4. OrderRows = orders /\ ShortageRows = short /\ PastDueRows = late
    BY <1>r, ListsAre
  <1>5. ASSUME NEW action, PlanOrders(action) PROVE OwnsUp(page', orders, raw, short, late)
    BY <1>3, <1>4, <1>5, <1>r, OrdersOwnUp
  <1>6. ASSUME NEW action, PlanExport(action) PROVE OwnsUp(page', orders, raw, short, late)
    <2>W. PICK W : W = Wanted(action)
      OBVIOUS
    <2>1. W = WantedOf(orders, raw, action) /\ OrderList(action) = Sorted(W, Sooner)
      BY <1>4, <1>r, <2>W, WantedIs DEF OrderList
    <2>2. ListsRanked(Sorted(W, Sooner), W, SoonerIn(W))
      BY <1>3, <2>1, WantedAreRows, SoonerSorts
    <2>3. page'.status = "exported" /\ page'.action = action /\ page'.rows = Sorted(W, Sooner)
      BY <1>6, <2>1 DEF PlanExport
    <2>4. Len(page'.rows) = Cardinality(WantedOf(orders, raw, page'.action))
      BY <2>1, <2>2, <2>3 DEF ListsRanked
    <2> QED
      BY <2>3, <2>4 DEF OwnsUp
  <1>7. ASSUME NEW worst \in BOOLEAN, PlanRisks(worst) PROVE OwnsUp(page', orders, raw, short, late)
    <2>1. /\ page'.status = "risks" /\ page'.worst = worst
          /\ page'.shortages = Summary(short, worst) /\ page'.overdue = Summary(late, worst)
      BY <1>4, <1>7 DEF PlanRisks
    <2>2. /\ Top(Summary(short, worst).rows, short, Ranking(short, worst))
          /\ Top(Summary(late, worst).rows, late, Ranking(late, worst))
          /\ Summary(late, worst).total = Cardinality(late)
      BY <1>3, SummaryIs
    <2> QED
      BY <2>1, <2>2 DEF OwnsUp
  <1>8. ASSUME page'.status \in {"refused", "overrides"} PROVE OwnsUp(page', orders, raw, short, late)
    BY <1>8 DEF OwnsUp
  <1>9. ASSUME NEW action, RefuseExport(action) PROVE page'.status = "refused"
    BY <1>9 DEF RefuseExport
  <1>10. ASSUME OverrideList PROVE page'.status = "overrides"
    BY <1>10 DEF OverrideList
  <1> QED
    BY <1>5, <1>6, <1>7, <1>8, <1>9, <1>10, <1>r DEF Ask

\* What the screens promise is what the page owns up to.
LEMMA OwnedUp ==
    ASSUME BomInv, BookInv, PageInv
    PROVE  PagesOwnUp
  <1>r. PICK orders, short, late, raw :
           /\ orders = OrdersOf(plans, Skus) /\ short = ShortOf(plans) /\ late = LateRowsOf(plans)
           /\ raw = plant.raw
    OBVIOUS
  <1>1. OrderRows = orders /\ ShortageRows = short /\ PastDueRows = late
    BY <1>r, ListsAre
  <1>2. OwnsUp(page, orders, raw, short, late)
    BY <1>r DEF PageInv
  <1>3. \A action : Wanted(action) = WantedOf(orders, raw, action)
    BY <1>1, <1>r, WantedIs
  <1>4. ASSUME page.status = "orders"
        PROVE  /\ IsTop(page.rows, Wanted(page.action), Sooner)
               /\ page.total = Cardinality(Wanted(page.action))
               /\ page.totals["make"] + page.totals["buy"] = page.total
               /\ Cardinality(Wanted("make")) + Cardinality(Wanted("buy")) = Cardinality(OrderRows)
    <2>W. PICK W : W = Wanted(page.action)
      OBVIOUS
    <2>1. W = WantedOf(orders, raw, page.action)
      BY <1>3, <2>W
    <2>2. Top(page.rows, W, SoonerIn(W))
      BY <1>2, <1>4, <2>1 DEF OwnsUp
    <2>3. IsTop(page.rows, W, Sooner)
      BY <2>2 DEF IsTop, Top, SoonerIn
    <2>4. page.total = Cardinality(W) /\ page.totals["make"] + page.totals["buy"] = page.total
      BY <1>2, <1>4, <2>1 DEF OwnsUp
    <2>5. stage = "planned"
      BY <1>4 DEF PageInv, NoAnswer
    <2>6. IsFiniteSet(orders)
      BY <1>r, <2>5, FinishedRows DEF IsRows
    <2>7. Cardinality(Wanted("make")) + Cardinality(Wanted("buy")) = Cardinality(OrderRows)
      BY <1>1, <1>3, <2>6, FiltersShare
    <2> QED
      BY <2>3, <2>4, <2>7, <2>W
  <1>5. ASSUME page.status = "exported" PROVE Len(page.rows) = Cardinality(Wanted(page.action))
    BY <1>2, <1>3, <1>5 DEF OwnsUp
  <1>6. ASSUME page.status = "risks"
        PROVE  LET ranking(r, s) == IF page.worst THEN r.qty >= s.qty ELSE r.date <= s.date
               IN /\ IsTop(page.shortages.rows, ShortageRows, ranking)
                  /\ IsTop(page.overdue.rows, PastDueRows, ranking)
                  /\ page.overdue.total = Cardinality(PastDueRows)
    <2> DEFINE ranking(r, s) == IF page.worst THEN r.qty >= s.qty ELSE r.date <= s.date
    <2>1. /\ Top(page.shortages.rows, short, Ranking(short, page.worst))
          /\ Top(page.overdue.rows, late, Ranking(late, page.worst))
          /\ page.overdue.total = Cardinality(late)
      BY <1>2, <1>6 DEF OwnsUp
    <2>2. IsTop(page.shortages.rows, short, ranking)
      BY <2>1 DEF IsTop, Top, Ranking
    <2>3. IsTop(page.overdue.rows, late, ranking)
      BY <2>1 DEF IsTop, Top, Ranking
    <2> QED
      BY <1>1, <2>1, <2>2, <2>3
  <1> QED
    BY <1>4, <1>5, <1>6 DEF PagesOwnUp

LEMMA StepShownInv ==
    ShownInv /\ [ScreensNext]_<<vars, explodeVars, capacityVars, page>> => ShownInv'
  <1> SUFFICES ASSUME ShownInv, [ScreensNext]_<<vars, explodeVars, capacityVars, page>>
               PROVE  ShownInv'
    OBVIOUS
  <1>1. BomInv /\ BomInv' /\ BookInv /\ PageInv
    BY StepScreensBomInv DEF ShownInv
  <1>2. BookInv'
    <2>1. [ExplodeNext]_<<vars, explodeVars>>
      <3>1. CASE CapacityNext
        BY <3>1 DEF CapacityNext, RefuseEmptyPlan, LoadRouting, Judge, Loading,
                    RefuseRelief, AttributeRouting, Explain, Explaining
      <3> QED
        BY <3>1 DEF ScreensNext
    <2> QED
      BY <1>1, <2>1, StepBookInv
  <1>3. PageInv'
    <2>1. CASE page # NoAnswer /\ page' = page
      <3>1. stage = "planned" /\ verdict # NoAnswer
        BY <1>1, <2>1 DEF PageInv
      <3>2. UNCHANGED <<stage, verdict, plans, plant>>
        <4>1. CASE ExplodeNext /\ UNCHANGED capacityVars
          BY <3>1, <4>1 DEF ExplodeNext, AsMaster, PriceLots, RefuseRouting, Pricing, RefuseEdge, RelaxEdge,
             Relaxing, NextRound, RefuseCycle, RoundOver, StartPlanning, PlanItem, HandDown
        <4>2. CASE UNCHANGED <<vars, explodeVars, capacityVars>>
          BY <4>2 DEF explodeVars, capacityVars
        <4> QED
          BY <2>1, <4>1, <4>2 DEF ScreensNext
      <3> QED
        BY <1>1, <2>1, <3>1, <3>2 DEF PageInv, Skus
    <2>2. CASE page = NoAnswer /\ page' = page
      BY <2>2 DEF PageInv, OwnsUp, NoAnswer
    <2>3. CASE Ask /\ UNCHANGED <<vars, explodeVars, capacityVars>>
      <3>1. stage = "planned" /\ verdict # NoAnswer
        BY <2>3 DEF Ask, PlanOrders, PlanExport, RefuseExport, PlanRisks, OverrideList, Asked
      <3>2. OwnsUp(page', OrdersOf(plans, Skus), plant.raw, ShortOf(plans), LateRowsOf(plans))
        BY <1>1, <2>3, AskedOwnsUp
      <3>3. UNCHANGED <<stage, verdict, plans, plant>>
        BY <2>3 DEF explodeVars, capacityVars
      <3> QED
        BY <3>1, <3>2, <3>3 DEF PageInv, Skus
    <2> QED
      BY <2>1, <2>2, <2>3 DEF ScreensNext
  <1> QED
    BY <1>1, <1>2, <1>3 DEF ShownInv

LEMMA InitShownInv == ScreensInitAll => ShownInv
  <1> SUFFICES ASSUME ScreensInitAll PROVE ShownInv
    OBVIOUS
  <1>1. BomInv
    BY InitBomInv DEF ScreensInitAll
  <1>2. phase = "net" /\ pastDue = {} /\ plans = <<>> /\ page = NoAnswer
    BY DEF ScreensInitAll, ExplodeInit, Fresh, ScreensInit
  <1>3. BookInv
    BY <1>2, FreshBook DEF BookInv, Outcomes
  <1>4. PageInv
    BY <1>2 DEF PageInv, OwnsUp, NoAnswer
  <1> QED
    BY <1>1, <1>3, <1>4 DEF ShownInv

\* Whatever is asked of a finished plan, with whatever filter, ranking and limit, the page
\* is the first rows of the whole list and its counts are of the whole list.
THEOREM PagesAlwaysOwnUp == ScreensSpec => []PagesOwnUp
  <1>1. ShownInv => PagesOwnUp
    BY OwnedUp DEF ShownInv
  <1> QED
    BY <1>1, InitShownInv, StepShownInv, PTL DEF ScreensSpec

LEMMA OutIs ==
    ASSUME NEW ps, Distinct(ps), NEW n \in DOMAIN ps
    PROVE  Out(ps, ps[n].sku) = ps[n].releases
  <1>m. PICK mine : mine = {k \in DOMAIN ps : ps[k].sku = ps[n].sku}
    OBVIOUS
  <1>1. n \in mine /\ \A k \in mine : k = n
    BY <1>m DEF Distinct
  <1>2. (CHOOSE k \in mine : TRUE) \in mine
    BY <1>1
  <1>3. (CHOOSE k \in mine : TRUE) = n
    BY <1>1, <1>2
  <1> QED
    BY <1>1, <1>3, <1>m DEF Out

\* A row of the order list, for a bucket in which a plan releases something.
LEMMA OrderIsListed ==
    ASSUME NEW ps, NEW skus, PlanRows(ps, skus), NEW n \in DOMAIN ps, NEW b \in Bucket,
           ps[n].releases[b] # 0
    PROVE  [date |-> b, sku |-> ps[n].sku, qty |-> ps[n].releases[b]] \in OrdersOf(ps, skus)
  <1>1. Out(ps, ps[n].sku) = ps[n].releases /\ ps[n].sku \in skus
    BY OutIs DEF PlanRows
  <1> QED
    BY <1>1 DEF OrdersOf

\* What is overdue of a SKU, row by row, comes to what its plan has overdue.
LEMMA OverdueRows ==
    ASSUME NEW ps, NEW skus, PlanRows(ps, skus), NEW parts, Outcomes(ps, parts), NEW n \in DOMAIN ps
    PROVE  LET late == {r \in LateRowsOf(ps) : r.sku = ps[n].sku}
           IN SumFunction([x \in late |-> x.qty]) = Overdue(ps[n].pastDue)
  <1>P. PICK P : P = {r \in LateRowsOf(ps) : r.sku = ps[n].sku}
    OBVIOUS
  <1>E. PICK E, s : E = ps[n].pastDue /\ s = ps[n].sku
    OBVIOUS
  <1>f. PICK f : f = [e \in E |-> e.qty]
    OBVIOUS
  <1>n. PICK name : name = [e \in E |-> [date |-> e.bucket, sku |-> s, qty |-> e.qty]]
    OBVIOUS
  <1>h. PICK h : h = [x \in P |-> x.qty]
    OBVIOUS
  <1>1. /\ IsFiniteSet(E) /\ \A e \in E : e.qty \in Nat /\ \A d \in E : d.bucket = e.bucket => d = e
    BY <1>E DEF Outcomes, IsOutcome, LateOf
  <1>2. \A e \in E : name[e] \in P
    BY <1>P, <1>E, <1>n DEF LateRowsOf
  <1>3. ASSUME NEW r \in P PROVE \E e \in E : name[e] = r
    <2>1. PICK i \in DOMAIN ps : \E e \in ps[i].pastDue : r = [date |-> e.bucket, sku |-> ps[i].sku, qty |-> e.qty]
      BY <1>P DEF LateRowsOf
    <2>2. PICK e \in ps[i].pastDue : r = [date |-> e.bucket, sku |-> ps[i].sku, qty |-> e.qty]
      BY <2>1
    <2>3. i = n
      <3>1. ps[i].sku = ps[n].sku
        BY <1>P, <2>2
      <3> QED
        BY <3>1 DEF PlanRows, Distinct
    <2> QED
      BY <1>E, <1>n, <2>2, <2>3
  <1>4. P = {name[e] : e \in E}
    BY <1>2, <1>3
  <1>5. IsFiniteSet(P)
    BY <1>1, <1>4, ImageIsFinite
  <1>6. Renamed(f, E, P, name, h)
    <2>1. IntOn(f, E)
      BY <1>1, <1>f DEF IntOn
    <2>2. \A e \in E : name[e] \in P /\ h[name[e]] = f[e]
      BY <1>2, <1>f, <1>n, <1>h
    <2>3. \A d, e \in E : name[d] = name[e] => d = e
      BY <1>1, <1>n
    <2> QED
      BY <1>1, <1>3, <1>5, <2>1, <2>2, <2>3 DEF Renamed
  <1>7. SumFunctionOnSet(h, P) = SumFunctionOnSet(f, E)
    BY <1>6, SumRenamed
  <1>8. SumFunction(h) = SumFunctionOnSet(h, P) /\ SumFunction(f) = SumFunctionOnSet(f, E)
    <2>1. DOMAIN h = P /\ DOMAIN f = E
      BY <1>h, <1>f
    <2> QED
      BY <2>1, Zenon DEF SumFunction
  <1>9. SumFunction(h) = SumFunction(f)
    BY <1>7, <1>8
  <1> QED
    BY <1>9, <1>P, <1>E, <1>f, <1>h DEF Overdue

\* What is ordered of a SKU, row by row, comes to what its plan releases.
LEMMA OrderedRows ==
    ASSUME NEW ps, NEW skus, PlanRows(ps, skus), NEW n \in DOMAIN ps
    PROVE  LET own == {r \in OrdersOf(ps, skus) : r.sku = ps[n].sku}
           IN SumFunction([x \in own |-> x.qty]) = SumFunction(ps[n].releases)
  <1>P. PICK P : P = {r \in OrdersOf(ps, skus) : r.sku = ps[n].sku}
    OBVIOUS
  <1>g. PICK g, s : g = ps[n].releases /\ s = ps[n].sku
    OBVIOUS
  <1>E. PICK E : E = {b \in Bucket : g[b] # 0}
    OBVIOUS
  <1>n. PICK name : name = [b \in E |-> [date |-> b, sku |-> s, qty |-> g[b]]]
    OBVIOUS
  <1>h. PICK h : h = [x \in P |-> x.qty]
    OBVIOUS
  <1>1. g \in [Bucket -> Nat] /\ E \in SUBSET Bucket /\ IsFiniteSet(Bucket) /\ IsFiniteSet(E)
    <2>1. g \in [Bucket -> Nat] /\ E \in SUBSET Bucket
      BY <1>g, <1>E DEF PlanRows
    <2> QED
      BY <2>1, BucketsAreFinite
  <1>2. ASSUME NEW b \in E PROVE name[b] \in P
    <2>1. [date |-> b, sku |-> ps[n].sku, qty |-> ps[n].releases[b]] \in OrdersOf(ps, skus)
      BY <1>E, <1>g, OrderIsListed
    <2> QED
      BY <1>P, <1>g, <1>n, <2>1
  <1>3. ASSUME NEW r \in P PROVE \E b \in E : name[b] = r
    <2>1. /\ r.date \in Bucket /\ r.qty = Out(ps, r.sku)[r.date] /\ r.qty # 0 /\ r.sku = s
          /\ r = [date |-> r.date, sku |-> r.sku, qty |-> r.qty]
      BY <1>P, <1>g DEF OrdersOf
    <2>2. Out(ps, s) = g
      BY <1>g, OutIs DEF PlanRows
    <2>3. r.date \in E /\ r.qty = g[r.date]
      BY <1>E, <2>1, <2>2
    <2> QED
      BY <1>n, <2>1, <2>3
  <1>4. P = {name[b] : b \in E}
    BY <1>2, <1>3
  <1>5. IsFiniteSet(P)
    BY <1>1, <1>4, ImageIsFinite
  <1>6. IntOn(g, E) /\ IntOn(g, Bucket)
    BY <1>1 DEF IntOn
  <1>7. Renamed(g, E, P, name, h)
    <2>1. \A b \in E : name[b] \in P /\ h[name[b]] = g[b]
      BY <1>2, <1>n, <1>h
    <2>2. \A b, c \in E : name[b] = name[c] => b = c
      BY <1>n
    <2> QED
      BY <1>1, <1>3, <1>5, <1>6, <2>1, <2>2 DEF Renamed
  <1>8. SumFunctionOnSet(h, P) = SumFunctionOnSet(g, E)
    BY <1>7, SumRenamed
  <1>9. SumFunctionOnSet(g, Bucket) = SumFunctionOnSet(g, E)
    BY <1>1, <1>6, <1>E, SumPadded
  <1>10. SumFunction(h) = SumFunctionOnSet(h, P) /\ SumFunction(g) = SumFunctionOnSet(g, Bucket)
    <2>1. DOMAIN h = P /\ DOMAIN g = Bucket
      BY <1>h, <1>1
    <2> QED
      BY <2>1, Zenon DEF SumFunction
  <1> QED
    BY <1>8, <1>9, <1>10, <1>P, <1>g, <1>h, Zenon

LEMMA OnePlan ==
    ASSUME BomInv, BookInv, PageInv
    PROVE  ScreensTellOnePlan
  <1> SUFFICES ASSUME page.status = "risks" PROVE ScreensTellOnePlan
    BY DEF ScreensTellOnePlan
  <1>r. PICK ps, skus, parts : ps = plans /\ skus = Skus /\ parts = plant.parts
    OBVIOUS
  <1>0. stage = "planned"
    BY DEF PageInv, NoAnswer
  <1>1. PlanRows(ps, skus) /\ Outcomes(ps, parts)
    BY <1>0, <1>r, FinishedRows DEF BookInv
  <1>2. OrderRows = OrdersOf(ps, skus) /\ ShortageRows = ShortOf(ps) /\ PastDueRows = LateRowsOf(ps)
    BY <1>r, ListsAre
  <1>3. /\ \A i \in DOMAIN page.overdue.rows : page.overdue.rows[i] \in LateRowsOf(ps)
        /\ \A i \in DOMAIN page.shortages.rows : page.shortages.rows[i] \in ShortOf(ps)
    BY <1>r DEF PageInv, OwnsUp, Top
  <1>4. ASSUME NEW row \in LateRowsOf(ps)
        PROVE  LET late == {r \in PastDueRows : r.sku = row.sku}
               IN \E r \in OrderRows : /\ r.sku = row.sku /\ r.date = 0
                                       /\ r.qty >= SumFunction([x \in late |-> x.qty])
    <2>1. PICK n \in DOMAIN ps : \E e \in ps[n].pastDue : row = [date |-> e.bucket, sku |-> ps[n].sku, qty |-> e.qty]
      BY DEF LateRowsOf
    <2>2. row.sku = ps[n].sku /\ ps[n].pastDue # {}
      BY <2>1
    <2>3. LateOf(ps[n].pastDue, ps[n].releases, Horizon) /\ ps[n].releases \in [Bucket -> Nat]
      BY <1>1 DEF Outcomes, IsOutcome
    <2>4. /\ 0 < Overdue(ps[n].pastDue) /\ Overdue(ps[n].pastDue) <= ps[n].releases[0]
          /\ Overdue(ps[n].pastDue) \in Nat /\ 0 \in Bucket
      BY <2>2, <2>3 DEF LateOf, Bucket
    <2>5. ps[n].releases[0] # 0
      BY <2>3, <2>4
    <2>6. PICK r : r = [date |-> 0, sku |-> ps[n].sku, qty |-> ps[n].releases[0]]
      OBVIOUS
    <2>7. r \in OrdersOf(ps, skus)
      BY <1>1, <2>4, <2>5, <2>6, OrderIsListed
    <2>8. SumFunction([x \in {y \in LateRowsOf(ps) : y.sku = ps[n].sku} |-> x.qty]) = Overdue(ps[n].pastDue)
      BY <1>1, OverdueRows
    <2>9. Overdue(ps[n].pastDue) <= r.qty
      BY <2>4, <2>6
    <2>10. r.qty >= SumFunction([x \in {y \in LateRowsOf(ps) : y.sku = ps[n].sku} |-> x.qty])
      BY <2>8, <2>9
    <2> QED
      BY <1>2, <2>2, <2>6, <2>7, <2>10
  <1>5. ASSUME NEW row \in ShortOf(ps)
        PROVE  \E r \in FixedRows : r.sku = row.sku /\ r.date = row.date
    <2>1. PICK n \in DOMAIN ps : \E b \in {x \in Bucket : ps[n].projected[x] < 0} :
                row = [date |-> b, sku |-> ps[n].sku, qty |-> -ps[n].projected[b]]
      BY DEF ShortOf
    <2>2. PICK b \in Bucket : ps[n].projected[b] < 0 /\ row = [date |-> b, sku |-> ps[n].sku, qty |-> -ps[n].projected[b]]
      BY <2>1
    <2>s. PICK s : s = ps[n].sku
      OBVIOUS
    <2>3. IsOutcome(ps[n], parts[s]) /\ s \in skus
      BY <1>1, <2>s DEF Outcomes, PlanRows
    <2>4. parts[s].firm[b] # 0
      <3>1. ps[n].projected[b] \in Int /\ parts[s].safety \in Nat
        BY <2>3 DEF IsOutcome
      <3> QED
        BY <2>2, <2>3, <3>1 DEF IsOutcome
    <2>5. [date |-> b, sku |-> s, qty |-> parts[s].firm[b]] \in FixedRows
      BY <1>r, <2>3, <2>4 DEF FixedRows
    <2> QED
      BY <2>2, <2>5, <2>s
  <1>6. ASSUME NEW n \in DOMAIN ps, Horizon # 0, parts[ps[n].sku].firm[Horizon - 1] = 0
        PROVE  LET own == {r \in OrdersOf(ps, skus) : r.sku = ps[n].sku}
                   part == parts[ps[n].sku]
               IN part.onHand + SumFunction(part.sched) + SumFunction([r \in own |-> r.qty])
                    >= SumFunction(ps[n].gross) + part.safety
    <2>p. PICK p, part : p = ps[n] /\ part = parts[ps[n].sku]
      OBVIOUS
    <2>1. IsOutcome(p, part) /\ part.firm[Horizon - 1] = 0
      BY <1>1, <1>6, <2>p DEF Outcomes
    <2>2. Horizon - 1 \in Bucket
      BY <1>6 DEF Bucket
    <2>3. p.projected[Horizon - 1] >= part.safety
      BY <2>1, <2>2 DEF IsOutcome
    <2>4. p.projected[Horizon - 1] = part.onHand + SumFunction(part.sched) + SumFunction(p.releases)
                                       - SumFunction(p.gross)
      BY <1>6, <2>1 DEF IsOutcome
    <2>5. /\ part.safety \in Nat /\ part.onHand \in Nat /\ SumFunction(part.sched) \in Int
          /\ SumFunction(p.releases) \in Int /\ SumFunction(p.gross) \in Int
      BY <2>1 DEF IsOutcome
    <2>6. part.onHand + SumFunction(part.sched) + SumFunction(p.releases)
            >= SumFunction(p.gross) + part.safety
      BY <2>3, <2>4, <2>5
    <2>7. SumFunction([x \in {r \in OrdersOf(ps, skus) : r.sku = ps[n].sku} |-> x.qty]) = SumFunction(p.releases)
      BY <1>1, <2>p, OrderedRows
    <2> QED
      BY <2>6, <2>7, <2>p
  <1>7. \A i \in DOMAIN page.overdue.rows :
             LET s == page.overdue.rows[i].sku
                 late == {r \in PastDueRows : r.sku = s}
             IN \E r \in OrderRows :
                  /\ r.sku = s /\ r.date = 0
                  /\ r.qty >= SumFunction([x \in late |-> x.qty])
    BY <1>3, <1>4
  <1>8. \A i \in DOMAIN page.shortages.rows :
             LET short == page.shortages.rows[i]
             IN \E r \in FixedRows : r.sku = short.sku /\ r.date = short.date
    BY <1>3, <1>5
  <1>9. \A i \in DOMAIN plans :
             LET part == plant.parts[plans[i].sku]
                 own == {r \in OrderRows : r.sku = plans[i].sku}
                 ordered == SumFunction([r \in own |-> r.qty])
             IN Horizon # 0 /\ part.firm[Horizon - 1] = 0 =>
                  part.onHand + SumFunction(part.sched) + ordered
                    >= SumFunction(plans[i].gross) + part.safety
    BY <1>2, <1>6, <1>r
  <1> QED
    BY <1>7, <1>8, <1>9 DEF ScreensTellOnePlan

\* The screens tell one plan: what is overdue is on the order list on its first day, what is
\* short was fixed by the planner and is listed as fixed, and what the order list asks for
\* covers all that is needed of a SKU, safety stock included.
THEOREM ScreensAlwaysTellOnePlan == ScreensSpec => []ScreensTellOnePlan
  <1>1. ShownInv => ScreensTellOnePlan
    BY OnePlan DEF ShownInv
  <1> QED
    BY <1>1, InitShownInv, StepShownInv, PTL DEF ScreensSpec
==============================================================================
