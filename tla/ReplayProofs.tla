----------------------------- MODULE ReplayProofs -----------------------------
(***************************************************************************)
(* Theorems about the service report, in its two halves.                   *)
(*                                                                         *)
(* Replay and Policies: for every horizon, lead time, review period, order *)
(* and demand.  One inductive invariant carries the type correctness, the  *)
(* refinement and what is said of stock-outs; TypeOK alone is not          *)
(* inductive: that a bucket receives at most one order needs PipelineInv,  *)
(* which is also what the refinement needs to bound the receipts.  The     *)
(* same holds of a replay under a policy, which is a replay; that what a   *)
(* policy orders covers its window is CoverInv.                            *)
(*                                                                         *)
(* Study: for every portfolio, history, split and model.  A job enters one *)
(* result at a time, and StudyInv says what is true of each when it is     *)
(* entered; the reports are sums over them, and groups add up to the       *)
(* whole.  The ladder compares recursive walks bucket by bucket.           *)
(***************************************************************************)
EXTENDS Policies, Study, Sums, SequenceTheorems, TLAPS

\* All or nothing of a quantity.
LEMMA AllOrNothing ==
    ASSUME NEW q \in Nat, NEW factor \in {0, 1}
    PROVE  /\ q * factor \in 0..q
           /\ q * (1 - factor) \in Nat
<1>1. CASE factor = 0
  <2>1. q * factor = 0 /\ q * (1 - factor) = q
    BY <1>1, SMT
  <2> QED
    BY <2>1
<1>2. CASE factor = 1
  <2>1. q * factor = q /\ q * (1 - factor) = 0
    BY <1>2, SMT
  <2> QED
    BY <2>1
<1> QED
  BY <1>1, <1>2

\* The initial state satisfies the invariant.
LEMMA InitInv == Init => ReplayInv
<1> SUFFICES ASSUME Init PROVE ReplayInv
  OBVIOUS
<1> USE SizeAssumption DEF Init
<1>1. TypeOK
  BY DEF TypeOK, Setting, Counts, Arrival
<1>2. PipelineInv
  BY <1>1 DEF PipelineInv, TypeOK, Setting, Arrival
<1>3. DemandAddsUp
  BY <1>1 DEF DemandAddsUp, TypeOK
<1>4. LadderInv
  BY DEF LadderInv, Ladder!Balance
<1> QED
  BY <1>1, <1>2, <1>3, <1>4 DEF ReplayInv

\* Goods arrive: Collect keeps the invariant.
LEMMA CollectInv ==
    ASSUME ReplayInv, NEW factor \in {0, 1}, Collect(factor)
    PROVE  ReplayInv'
<1> USE SizeAssumption DEF ReplayInv
<1> DEFINE q == pipeline[t]
<1>1. t \in Arrival /\ q \in 0..MaxOrder /\ q \in Nat
  BY DEF Collect, TypeOK, PipelineInv, Arrival, Setting
<1>2. q * factor \in 0..q /\ q * (1 - factor) \in Nat
  BY <1>1, AllOrNothing
<1> DEFINE x == q * factor
<1>3. /\ x \in 0..q
      /\ onHand' = onHand + x
      /\ arrived' = arrived + x
      /\ withheld' = withheld + q * (1 - factor)
  BY <1>2 DEF Collect, TurnUp
<1> HIDE DEF x
<1>4. arrived = 0 /\ arrived' \in 0..q
  BY <1>1, <1>3 DEF PipelineInv, Collect
<1>5. setting.lead = 0 => q = 0
  BY <1>1 DEF PipelineInv, TypeOK, Collect, Setting
<1> HIDE DEF q
<1>6. TypeOK'
  <2>1. onHand' \in Nat /\ arrived' \in Nat /\ withheld' \in Nat
    <3>1. PICK h \in Nat, c \in Nat, w \in Nat : h = onHand /\ c = arrived /\ w = withheld
      BY DEF TypeOK
    <3>2. PICK y \in Nat : y = q * (1 - factor)
      BY <1>2
    <3>3. x \in Nat
      BY <1>1, <1>3
    <3>4. h + x \in Nat /\ c + x \in Nat /\ w + y \in Nat
      BY <3>3
    <3>5. onHand' = h + x /\ arrived' = c + x /\ withheld' = w + y
      BY <1>3, <3>1, <3>2, Zenon
    <3> QED
      BY <3>4, <3>5, Zenon
  <2>2. pipeline' \in [Arrival -> Nat]
    BY <1>1 DEF TypeOK, Collect
  <2> QED
    BY <2>1, <2>2 DEF TypeOK, Collect
<1>7. PipelineInv'
  <2>1. arrived' \in 0..MaxOrder /\ (setting.lead = 0 => arrived' = 0)
    BY <1>1, <1>4, <1>5
  <2>2. ASSUME NEW a \in Arrival
        PROVE  /\ pipeline'[a] \in 0..MaxOrder
               /\ pipeline'[a] # 0 => a < t + setting.lead
    <3>1. pipeline'[a] = IF a = t THEN 0 ELSE pipeline[a]
      BY <1>1 DEF Collect, TypeOK
    <3>2. pipeline[a] \in 0..MaxOrder /\ (pipeline[a] # 0 => a < t + setting.lead + 0)
      BY DEF PipelineInv, Collect
    <3> QED
      BY <3>1, <3>2 DEF TypeOK, Setting
  <2>3. pc' = "review" /\ t' = t /\ t < Horizon /\ setting' = setting
    BY DEF Collect
  <2>4. t + setting.lead + 0 = t + setting.lead
    BY DEF TypeOK, Setting
  <2> QED
    BY <2>1, <2>2, <2>3, <2>4 DEF PipelineInv
<1>8. DemandAddsUp'
  BY DEF DemandAddsUp, Collect
<1>9. LadderInv'
  <2>1. /\ Ladder!Balance' = Ladder!Balance
        /\ Len(trace)' = Len(trace) /\ t' = t /\ backlog' = backlog
    BY DEF Collect, Ladder!Balance
  <2>2. Ladder!Balance \in Int
    BY SizeAssumption DEF Ladder!Balance, TypeOK
  <2>3. onHand' - backlog = Ladder!Balance + arrived'
    BY <2>2, <1>1, <1>3 DEF LadderInv, TypeOK
  <2> QED
    BY <2>1, <2>3 DEF LadderInv
<1> QED
  BY <1>6, <1>7, <1>8, <1>9

\* The buckets and the lead time are numbers, and what is due before this
\* bucket's order would be is due before the next one's.
LEMMA DueLater ==
    ASSUME TypeOK, NEW a \in Arrival
    PROVE  /\ a \in Nat /\ t \in Nat /\ setting.lead \in Nat
           /\ a < t + setting.lead + 0 => a < t + setting.lead + 1
           /\ a < t + setting.lead + 1 => a < (t + 1) + setting.lead + 0
<1>1. a \in Nat
  BY SizeAssumption DEF Arrival
<1>2. t \in Nat
  BY SizeAssumption DEF TypeOK
<1>3. setting.lead \in Nat
  BY SizeAssumption DEF TypeOK, Setting
<1> QED
  BY <1>1, <1>2, <1>3

\* Counting an order leaves the other counts alone.
LEMMA CountOrder ==
    ASSUME counts \in Counts, NEW x \in Nat,
           counts' = [counts EXCEPT !.ordered = @ + x]
    PROVE  /\ counts' \in Counts
           /\ counts'.demanded = counts.demanded
           /\ counts'.served = counts.served
           /\ counts'.onTime = counts.onTime
<1>1. counts.ordered + x \in Nat
  BY DEF Counts
<1> DEFINE n == counts.ordered + x
<1>2. counts' = [counts EXCEPT !.ordered = n]
  OBVIOUS
<1> HIDE DEF n
<1> QED
  BY <1>1, <1>2 DEF Counts

\* A day without an order: OrderNothing keeps the invariant.
LEMMA OrderNothingInv ==
    ASSUME ReplayInv, OrderNothing
    PROVE  ReplayInv'
<1> USE DEF ReplayInv
<1>1. TypeOK'
  BY DEF TypeOK, OrderNothing
<1>2. PipelineInv'
  <2>1. ASSUME NEW a \in Arrival
        PROVE  /\ pipeline[a] \in 0..MaxOrder
               /\ pipeline[a] # 0 => a < t + setting.lead + 1
    <3>1. pipeline[a] \in 0..MaxOrder /\ (pipeline[a] # 0 => a < t + setting.lead + 0)
      BY DEF PipelineInv, OrderNothing
    <3> QED
      BY <3>1, DueLater
  <2>2. /\ pipeline' = pipeline /\ t' = t /\ setting' = setting
        /\ arrived' = arrived /\ pc' = "serve" /\ t < Horizon
    BY DEF OrderNothing, PipelineInv
  <2> QED
    BY <2>1, <2>2 DEF PipelineInv
<1>3. DemandAddsUp'
  BY DEF DemandAddsUp, OrderNothing
<1>4. LadderInv'
  BY DEF LadderInv, OrderNothing, Ladder!Balance
<1> QED
  BY <1>1, <1>2, <1>3, <1>4

\* Same-bucket delivery: OrderForToday keeps the invariant.
LEMMA OrderForTodayInv ==
    ASSUME ReplayInv, NEW q \in 1..MaxOrder, NEW factor \in {0, 1},
           OrderForToday(q, factor)
    PROVE  ReplayInv'
<1> USE DEF ReplayInv
<1> DEFINE x == q * factor
<1>1. MaxOrder \in Nat /\ q \in Nat
  BY SizeAssumption
<1>2. x \in 0..q
  BY <1>1, AllOrNothing
<1>3. /\ onHand' = onHand + x /\ arrived' = arrived + x
      /\ counts' = [counts EXCEPT !.ordered = @ + x]
      /\ pc = "review" /\ pc' = "serve" /\ setting.lead = 0
      /\ UNCHANGED <<setting, t, pipeline, backlog, withheld, receipts, demand, trace>>
  BY DEF OrderForToday
<1> HIDE DEF x
<1>4. arrived = 0
  BY <1>3 DEF PipelineInv
<1>5. /\ counts' \in Counts
      /\ counts'.demanded = counts.demanded
      /\ counts'.served = counts.served
      /\ counts'.onTime = counts.onTime
  <2>1. counts \in Counts /\ x \in Nat
    BY <1>1, <1>2 DEF TypeOK
  <2>2. counts' = [counts EXCEPT !.ordered = @ + x]
    BY <1>3
  <2> QED
    BY <2>1, <2>2, CountOrder
<1>6. TypeOK'
  <2>1. onHand' \in Nat /\ arrived' \in Nat
    BY <1>1, <1>2, <1>3 DEF TypeOK
  <2> QED
    BY <1>3, <1>5, <2>1 DEF TypeOK
<1>7. PipelineInv'
  <2>1. arrived' \in 0..MaxOrder
    BY <1>1, <1>2, <1>3, <1>4
  <2>2. ASSUME NEW a \in Arrival
        PROVE  /\ pipeline[a] \in 0..MaxOrder
               /\ pipeline[a] # 0 => a < t + setting.lead + 1
    <3>1. pipeline[a] \in 0..MaxOrder /\ (pipeline[a] # 0 => a < t + setting.lead + 0)
      BY <1>3 DEF PipelineInv
    <3> QED
      BY <3>1, DueLater
  <2>3. t < Horizon
    BY <1>3 DEF PipelineInv
  <2> QED
    BY <1>3, <2>1, <2>2, <2>3 DEF PipelineInv
<1>8. DemandAddsUp'
  BY <1>3, <1>5 DEF DemandAddsUp
<1>9. LadderInv'
  <2>1. Ladder!Balance' = Ladder!Balance /\ Len(trace)' = Len(trace)
    BY <1>3 DEF Ladder!Balance
  <2>2. Ladder!Balance \in Int
    BY SizeAssumption DEF Ladder!Balance, TypeOK
  <2>3. onHand' - backlog = Ladder!Balance + arrived'
    <3>1. onHand \in Nat /\ backlog \in Nat /\ arrived \in Nat /\ x \in Nat
      BY <1>1, <1>2 DEF TypeOK
    <3> QED
      BY <2>2, <3>1, <1>3 DEF LadderInv
  <2> QED
    BY <2>1, <2>3, <1>3 DEF LadderInv
<1> QED
  BY <1>6, <1>7, <1>8, <1>9

\* An order for a later bucket: OrderAhead keeps the invariant.
LEMMA OrderAheadInv ==
    ASSUME ReplayInv, NEW q \in 1..MaxOrder, OrderAhead(q)
    PROVE  ReplayInv'
<1> USE DEF ReplayInv
<1> DEFINE due == t + setting.lead
<1>1. MaxOrder \in Nat /\ q \in Nat
  BY SizeAssumption
<1>2. /\ counts' = [counts EXCEPT !.ordered = @ + q]
      /\ pipeline' = [pipeline EXCEPT ![due] = @ + q]
      /\ pc = "review" /\ pc' = "serve" /\ setting.lead > 0
      /\ UNCHANGED <<setting, t, onHand, backlog, arrived, withheld, receipts, demand, trace>>
  BY DEF OrderAhead
<1>3. t < Horizon /\ due \in Arrival
  <2>1. t < Horizon
    BY <1>2 DEF PipelineInv
  <2>2. t \in 0..Horizon /\ setting.lead \in 0..MaxLead
    BY DEF TypeOK, Setting
  <2> QED
    BY <2>1, <2>2, SizeAssumption DEF Arrival
<1>4. pipeline[due] = 0
  <2>1. pipeline[due] # 0 => due < due + 0
    BY <1>2, <1>3 DEF PipelineInv
  <2> QED
    BY <2>1, <1>3, SizeAssumption DEF Arrival
<1>5. /\ counts' \in Counts
      /\ counts'.demanded = counts.demanded
      /\ counts'.served = counts.served
      /\ counts'.onTime = counts.onTime
  BY <1>1, <1>2, CountOrder DEF TypeOK
<1>6. \A a \in Arrival : pipeline'[a] = IF a = due THEN q ELSE pipeline[a]
  <2>1. \A a \in Arrival : pipeline'[a] = IF a = due THEN pipeline[due] + q ELSE pipeline[a]
    BY <1>2, <1>3 DEF TypeOK
  <2> QED
    BY <2>1, <1>1, <1>4
<1>7. TypeOK'
  <2>1. pipeline' \in [Arrival -> Nat]
    BY <1>1, <1>2, <1>3, <1>4 DEF TypeOK
  <2> QED
    BY <1>2, <1>5, <2>1 DEF TypeOK
<1>8. PipelineInv'
  <2>1. ASSUME NEW a \in Arrival
        PROVE  /\ pipeline'[a] \in 0..MaxOrder
               /\ pipeline'[a] # 0 => a < t + setting.lead + 1
    <3>1. pipeline[a] \in 0..MaxOrder /\ (pipeline[a] # 0 => a < due + 0)
      BY <1>2 DEF PipelineInv
    <3>2. due \in Int /\ a \in Int
      BY <1>3, SizeAssumption DEF Arrival
    <3>3. CASE a = due
      BY <3>2, <3>3, <1>1, <1>3, <1>6
    <3>4. CASE a # due
      BY <3>1, <3>2, <3>4, <1>6
    <3> QED
      BY <3>3, <3>4
  <2> QED
    BY <1>2, <1>3, <2>1 DEF PipelineInv
<1>9. DemandAddsUp'
  BY <1>2, <1>5 DEF DemandAddsUp
<1>10. LadderInv'
  BY <1>2 DEF LadderInv, Ladder!Balance
<1> QED
  BY <1>7, <1>8, <1>9, <1>10

\* What Serve does to the variables, in the quantities of the code.
LEMMA ServeEffect ==
    ASSUME ReplayInv, NEW q \in 0..MaxDemand, Serve(q)
    PROVE  \E fulfilled, paid \in Nat, today \in 0..q :
              /\ fulfilled = today + paid
              /\ fulfilled <= onHand /\ paid <= backlog
              /\ today > 0 => paid = backlog
              /\ onHand = fulfilled \/ (paid = backlog /\ today = q)
              /\ backlog = 0 => paid = 0 /\ fulfilled = Less(onHand, q)
              /\ onHand' = onHand - fulfilled
              /\ backlog' = backlog - paid + NewlyOwed(today, q)
              /\ counts' \in Counts
              /\ counts'.demanded = counts.demanded + q
              /\ counts'.served = counts.served + fulfilled
              /\ counts'.onTime = counts.onTime + today
<1> USE DEF ReplayInv
<1> DEFINE fulfilled == Less(onHand, q + backlog)
           paid == Less(fulfilled, backlog)
           today == fulfilled - paid
<1>1. q \in Nat /\ onHand \in Nat /\ backlog \in Nat /\ counts \in Counts
  BY SizeAssumption DEF TypeOK
<1>2. /\ fulfilled \in Nat /\ paid \in Nat /\ today \in 0..q
      /\ fulfilled <= onHand /\ paid <= backlog
      /\ today > 0 => paid = backlog
      /\ onHand = fulfilled \/ (paid = backlog /\ today = q)
      /\ backlog = 0 => paid = 0 /\ fulfilled = Less(onHand, q)
  <2>1. fulfilled = Less(onHand, q + backlog) /\ paid = Less(fulfilled, backlog)
    OBVIOUS
  <2> HIDE DEF fulfilled, paid
  <2> QED
    BY <1>1, <2>1 DEF Less
<1>3. /\ onHand' = onHand - fulfilled
      /\ backlog' = backlog - paid + NewlyOwed(today, q)
      /\ counts' = [counts EXCEPT !.demanded = @ + q, !.served = @ + fulfilled,
                                  !.onTime = @ + today]
  BY DEF Serve, PaidOff
<1> HIDE DEF fulfilled, paid
<1>4. fulfilled = today + paid
  BY <1>2
<1> HIDE DEF today
<1>5. /\ counts' \in Counts
      /\ counts'.demanded = counts.demanded + q
      /\ counts'.served = counts.served + fulfilled
      /\ counts'.onTime = counts.onTime + today
  <2> DEFINE d == counts.demanded + q
             s == counts.served + fulfilled
             o == counts.onTime + today
  <2>1. d \in Nat /\ s \in Nat /\ o \in Nat
    BY <1>1, <1>2 DEF Counts
  <2>2. counts' = [counts EXCEPT !.demanded = d, !.served = s, !.onTime = o]
    BY <1>3
  <2> HIDE DEF d, s, o
  <2>3. /\ counts' \in Counts
        /\ counts'.demanded = d /\ counts'.served = s /\ counts'.onTime = o
    BY <1>1, <2>1, <2>2 DEF Counts
  <2> QED
    BY <2>3 DEF d, s, o
<1> QED
  BY <1>2, <1>3, <1>4, <1>5

\* What Serve does to the ladder's view: its balance becomes the closing net
\* position, which is the ladder's closing balance of this bucket.
LEMMA ServeIsABucket ==
    ASSUME ReplayInv, NEW q \in 0..MaxDemand, Serve(q)
    PROVE  /\ Ladder!Bucket(arrived, q)
           /\ Ladder!Balance' = onHand' - backlog'
<1> USE DEF ReplayInv
<1> DEFINE available == Ladder!Balance + arrived
<1>1. PICK fulfilled \in Nat, paid \in Nat, today \in 0..q :
              /\ fulfilled = today + paid
              /\ fulfilled <= onHand /\ paid <= backlog
              /\ onHand = fulfilled \/ (paid = backlog /\ today = q)
              /\ backlog = 0 => paid = 0 /\ fulfilled = Less(onHand, q)
              /\ onHand' = onHand - fulfilled
              /\ backlog' = backlog - paid + NewlyOwed(today, q)
  BY ServeEffect
<1>2. q \in Nat /\ onHand \in Nat /\ backlog \in Nat
  BY SizeAssumption DEF TypeOK
<1>3. available = onHand - backlog
  BY DEF LadderInv
<1> HIDE DEF available
<1>4. onHand' - backlog' = Ladder!Closing(available, q)
  <2>1. CASE setting.unmet = "lost"
    <3>1. backlog = 0 /\ available = onHand
      BY <2>1, <1>2, <1>3 DEF DemandAddsUp
    <3>2. onHand' = onHand - Less(onHand, q) /\ backlog' = 0
      <4>1. NewlyOwed(today, q) = 0
        BY <2>1 DEF NewlyOwed
      <4>2. paid = 0 /\ fulfilled = Less(onHand, q)
        BY <3>1, <1>1
      <4> QED
        BY <4>1, <4>2, <3>1, <1>1
    <3> QED
      BY <2>1, <3>1, <3>2, <1>2 DEF Ladder!Closing, Less
  <2>2. CASE setting.unmet = "backorder"
    <3>1. backlog' = backlog - paid + (q - today)
      BY <2>2, <1>1 DEF NewlyOwed
    <3>2. onHand' - backlog' = available - q
      BY <3>1, <1>1, <1>2, <1>3
    <3>3. Ladder!Closing(available, q) = available - q
      BY <2>2 DEF Ladder!Closing
    <3> QED
      BY <3>2, <3>3
  <2> QED
    BY <2>1, <2>2 DEF TypeOK, Setting, Unmet
<1>5. onHand' - backlog' \in Int
  BY <1>1, <1>2 DEF NewlyOwed
<1>6. trace' = Append(trace, onHand' - backlog') /\ trace \in Seq(Int)
  BY DEF Serve, TypeOK
<1>7. trace' # <<>> /\ trace'[Len(trace')] = onHand' - backlog'
  BY <1>5, <1>6
<1>8. Ladder!Balance' = onHand' - backlog'
  BY <1>7 DEF Ladder!Balance
<1>9. Len(trace) < Horizon
  BY DEF LadderInv, PipelineInv, Serve
<1>10. Ladder!Bucket(arrived, q)
  BY <1>4, <1>6, <1>9 DEF Ladder!Bucket, Serve, available
<1> QED
  BY <1>8, <1>10

\* The bucket closes: Serve keeps the invariant.
LEMMA ServeInv ==
    ASSUME ReplayInv, NEW q \in 0..MaxDemand, Serve(q)
    PROVE  ReplayInv'
<1> USE DEF ReplayInv
<1>1. PICK fulfilled \in Nat, paid \in Nat, today \in 0..q :
              /\ fulfilled = today + paid
              /\ fulfilled <= onHand /\ paid <= backlog
              /\ onHand = fulfilled \/ (paid = backlog /\ today = q)
              /\ backlog = 0 => paid = 0
              /\ onHand' = onHand - fulfilled
              /\ backlog' = backlog - paid + NewlyOwed(today, q)
              /\ counts' \in Counts
              /\ counts'.demanded = counts.demanded + q
              /\ counts'.served = counts.served + fulfilled
              /\ counts'.onTime = counts.onTime + today
  BY ServeEffect
<1>2. /\ q \in Nat /\ onHand \in Nat /\ backlog \in Nat /\ t \in Nat
      /\ counts.demanded \in Nat /\ counts.served \in Nat /\ counts.onTime \in Nat
  BY SizeAssumption DEF TypeOK, Counts
<1>3. /\ pc = "serve" /\ pc' = "collect" /\ t' = t + 1 /\ arrived' = 0
      /\ receipts' = Append(receipts, arrived)
      /\ demand' = Append(demand, q)
      /\ trace' = Append(trace, onHand' - backlog')
      /\ UNCHANGED <<setting, pipeline, withheld>>
  BY DEF Serve
<1>4. t < Horizon /\ arrived \in 0..MaxOrder
  BY <1>3 DEF PipelineInv
<1>5. onHand' \in Nat /\ backlog' \in Nat
  BY <1>1, <1>2 DEF NewlyOwed
<1>6. TypeOK'
  <2>1. receipts' \in Seq(0..MaxOrder) /\ demand' \in Seq(0..MaxDemand)
    BY <1>3, <1>4 DEF TypeOK
  <2>2. trace' \in Seq(Int)
    BY <1>3, <1>5 DEF TypeOK
  <2>3. t' \in 0..Horizon
    BY <1>2, <1>3, <1>4, SizeAssumption
  <2> QED
    BY <1>1, <1>3, <1>5, <2>1, <2>2, <2>3 DEF TypeOK
<1>7. PipelineInv'
  <2>1. ASSUME NEW a \in Arrival
        PROVE  /\ pipeline[a] \in 0..MaxOrder
               /\ pipeline[a] # 0 => a < (t + 1) + setting.lead + 0
    <3>1. pipeline[a] \in 0..MaxOrder /\ (pipeline[a] # 0 => a < t + setting.lead + 1)
      BY <1>3 DEF PipelineInv
    <3> QED
      BY <3>1, DueLater
  <2>2. 0 \in 0..MaxOrder
    BY SizeAssumption
  <2> QED
    BY <1>3, <2>1, <2>2 DEF PipelineInv
<1>8. DemandAddsUp'
  <2>1. onHand' = 0 \/ backlog' = 0
    BY <1>1, <1>2 DEF NewlyOwed
  <2>2. setting.unmet = "backorder" => counts'.demanded = counts'.served + backlog'
    BY <1>1, <1>2 DEF DemandAddsUp, NewlyOwed
  <2>3. setting.unmet = "lost" => backlog' = 0 /\ counts'.served = counts'.onTime
    BY <1>1, <1>2 DEF DemandAddsUp, NewlyOwed
  <2> QED
    BY <1>3, <2>1, <2>2, <2>3 DEF DemandAddsUp
<1>9. LadderInv'
  <2>1. Ladder!Balance' = onHand' - backlog'
    BY ServeIsABucket
  <2>2. Len(trace') = t'
    BY <1>3, <1>5, SMTT(20) DEF LadderInv, TypeOK
  <2>3. onHand' - backlog' = Ladder!Balance' + arrived'
    BY <1>3, <1>5, <2>1
  <2> QED
    BY <2>2, <2>3 DEF LadderInv
<1> QED
  BY <1>6, <1>7, <1>8, <1>9

\* No step leaves the invariant.
LEMMA StepInv == ReplayInv /\ [Next]_vars => ReplayInv'
<1> SUFFICES ASSUME ReplayInv, [Next]_vars PROVE ReplayInv'
  OBVIOUS
<1>1. ASSUME NEW factor \in {0, 1}, Collect(factor) PROVE ReplayInv'
  BY <1>1, CollectInv
<1>2. CASE OrderNothing
  BY <1>2, OrderNothingInv
<1>3. ASSUME NEW q \in 1..MaxOrder, NEW factor \in {0, 1}, OrderForToday(q, factor)
      PROVE  ReplayInv'
  BY <1>3, OrderForTodayInv
<1>4. ASSUME NEW q \in 1..MaxOrder, OrderAhead(q) PROVE ReplayInv'
  BY <1>4, OrderAheadInv
<1>5. ASSUME NEW q \in 0..MaxDemand, Serve(q) PROVE ReplayInv'
  BY <1>5, ServeInv
<1>6. CASE UNCHANGED vars
  BY <1>6 DEF vars, ReplayInv, TypeOK, PipelineInv, DemandAddsUp, LadderInv, Ladder!Balance
<1> QED
  BY <1>1, <1>2, <1>3, <1>4, <1>5, <1>6 DEF Next

\* The invariant holds in every behaviour.
LEMMA InvHolds == Spec => []ReplayInv
  BY InitInv, StepInv, PTL DEF Spec

------------------------------------------------------------------------------
\* The variables keep their types, for every policy, demand and plant.
THEOREM ReplayTypeCorrect == Spec => []TypeOK
<1>1. ReplayInv => TypeOK
  BY DEF ReplayInv
<1> QED
  BY <1>1, InvHolds, PTL

\* Whatever the policy orders, every bucket of replay closes with stock or with
\* debt but never with both, units demanded are units served plus units owed,
\* and lost sales leave no debt behind.
THEOREM DemandAlwaysAddsUp == Spec => []DemandAddsUp
<1>1. ReplayInv => DemandAddsUp
  BY DEF ReplayInv
<1> QED
  BY <1>1, InvHolds, PTL

\* A unit counts as served on time only in a bucket that paid the whole backlog.
THEOREM OwedAreServedFirst == Spec => OwedFirst
<1> DEFINE PaidFirst == counts'.onTime > counts.onTime
                          => counts'.served - counts.served >= backlog
<1>1. ReplayInv /\ [Next]_vars => [PaidFirst]_vars
  <2> SUFFICES ASSUME ReplayInv, Next PROVE PaidFirst
    OBVIOUS
  <2>1. counts \in Counts /\ backlog \in Nat
    BY DEF ReplayInv, TypeOK
  <2>2. /\ counts.onTime \in Nat /\ counts.served \in Nat
        /\ ~(counts.onTime > counts.onTime)
    BY <2>1 DEF Counts
  <2>3. CASE counts'.onTime = counts.onTime
    BY <2>2, <2>3
  <2>4. ASSUME NEW factor \in {0, 1}, Collect(factor) PROVE PaidFirst
    BY <2>3, <2>4 DEF Collect
  <2>5. CASE OrderNothing
    BY <2>3, <2>5 DEF OrderNothing
  <2>6. ASSUME NEW q \in 1..MaxOrder, NEW factor \in {0, 1}, OrderForToday(q, factor)
        PROVE  PaidFirst
    <3>1. counts'.onTime = counts.onTime
      BY <2>1, <2>6 DEF OrderForToday, Counts
    <3> QED
      BY <2>3, <3>1
  <2>7. ASSUME NEW q \in 1..MaxOrder, OrderAhead(q) PROVE PaidFirst
    <3>1. counts'.onTime = counts.onTime
      BY <2>1, <2>7 DEF OrderAhead, Counts
    <3> QED
      BY <2>3, <3>1
  <2>8. ASSUME NEW q \in 0..MaxDemand, Serve(q) PROVE PaidFirst
    <3>1. PICK fulfilled \in Nat, paid \in Nat, today \in 0..q :
              /\ fulfilled = today + paid
              /\ today > 0 => paid = backlog
              /\ counts'.served = counts.served + fulfilled
              /\ counts'.onTime = counts.onTime + today
      BY <2>8, ServeEffect
    <3>2. q \in Nat
      BY SizeAssumption
    <3> QED
      BY <3>1, <3>2, <2>1, <2>2
  <2> QED
    BY <2>4, <2>5, <2>6, <2>7, <2>8 DEF Next
<1> QED
  BY <1>1, InvHolds, PTL DEF Spec, OwedFirst

\* The replay implements the reconciliation's schedule: each bucket closes at
\* the ladder's balance for what arrived, and every other step is a stutter.
THEOREM ReplayImplementsSchedule == Spec => ImplementsSchedule
<1>1. Init => Ladder!Init
  BY DEF Init, Ladder!Init
<1>2. ReplayInv /\ [Next]_vars => [Ladder!Next]_(Ladder!vars)
  <2> SUFFICES ASSUME ReplayInv, [Next]_vars
               PROVE  Ladder!Next \/ UNCHANGED Ladder!vars
    OBVIOUS
  <2> USE DEF Ladder!vars
  <2>1. ASSUME NEW factor \in {0, 1}, Collect(factor) PROVE UNCHANGED Ladder!vars
    BY <2>1 DEF Collect
  <2>2. CASE OrderNothing
    BY <2>2 DEF OrderNothing
  <2>3. ASSUME NEW q \in 1..MaxOrder, NEW factor \in {0, 1}, OrderForToday(q, factor)
        PROVE  UNCHANGED Ladder!vars
    BY <2>3 DEF OrderForToday
  <2>4. ASSUME NEW q \in 1..MaxOrder, OrderAhead(q) PROVE UNCHANGED Ladder!vars
    BY <2>4 DEF OrderAhead
  <2>5. ASSUME NEW q \in 0..MaxDemand, Serve(q) PROVE Ladder!Next
    <3>1. Ladder!Bucket(arrived, q)
      BY <2>5, ServeIsABucket
    <3>2. arrived \in 0..MaxOrder
      BY DEF ReplayInv, PipelineInv
    <3> QED
      BY <3>1, <3>2 DEF Ladder!Next
  <2>6. CASE UNCHANGED vars
    BY <2>6 DEF vars
  <2> QED
    BY <2>1, <2>2, <2>3, <2>4, <2>5, <2>6 DEF Next
<1> QED
  BY <1>1, <1>2, InvHolds, PTL DEF Spec, ImplementsSchedule, Ladder!Spec

------------------------------------------------------------------------------
(***************************************************************************)
(* No order vanishes.                                                      *)
(***************************************************************************)
\* What a pipeline still delivers from bucket n on.
LEMMA ComingFrom ==
    ASSUME NEW p \in [Arrival -> Nat], NEW n \in Nat
    PROVE  LET S == n..(Horizon + MaxLead)
           IN /\ SumFunction([a \in S |-> p[a]]) = SumFunctionOnSet(p, S)
              /\ IsFiniteSet(S) /\ S \subseteq Arrival
              /\ IntOn(p, S)
              /\ SumFunctionOnSet(p, S) \in Nat
<1> DEFINE S == n..(Horizon + MaxLead)
           f == [a \in S |-> p[a]]
<1>1. Horizon + MaxLead \in Int
  BY SizeAssumption
<1>2. IsFiniteSet(S)
  BY <1>1, FS_Interval
<1>3. S \subseteq Arrival /\ IntOn(p, S) /\ NatOn(p, S)
  BY <1>1 DEF Arrival, IntOn, NatOn
<1>4. SumFunction(f) = SumFunctionOnSet(f, S)
  BY DEF SumFunction
<1>5. Agree(f, p, S)
  BY DEF Agree
<1>6. SumFunctionOnSet(p, S) \in Nat
  BY <1>2, <1>3, SumInt
<1> HIDE DEF f
<1>7. SumFunctionOnSet(f, S) = SumFunctionOnSet(p, S)
  BY <1>2, <1>5, SumSame
<1> QED
  BY <1>2, <1>3, <1>4, <1>6, <1>7 DEF f

\* What is still coming, as a sum over the pipeline itself.
LEMMA ComingNow ==
    /\ TypeOK => Coming = SumFunctionOnSet(pipeline, NextArrival..(Horizon + MaxLead))
    /\ TypeOK' => Coming' = SumFunctionOnSet(pipeline', NextArrival'..(Horizon + MaxLead))
<1>1. ASSUME TypeOK
      PROVE  Coming = SumFunctionOnSet(pipeline, NextArrival..(Horizon + MaxLead))
  <2>1. NextArrival \in Nat /\ pipeline \in [Arrival -> Nat]
    BY <1>1, SizeAssumption DEF TypeOK, NextArrival
  <2> QED
    BY <2>1, ComingFrom DEF Coming
<1>2. ASSUME TypeOK'
      PROVE  Coming' = SumFunctionOnSet(pipeline', NextArrival'..(Horizon + MaxLead))
  <2>1. pipeline' \in [Arrival -> Nat]
    BY <1>2 DEF TypeOK
  <2>2. t' \in Nat
    BY <1>2, SizeAssumption DEF TypeOK
  <2>3. NextArrival' \in Nat
    <3> PICK u \in Nat : u = t'
      BY <2>2
    <3>1. NextArrival' = u \/ NextArrival' = u + 1
      BY DEF NextArrival
    <3> QED
      BY <3>1
  <2> QED
    BY <2>1, <2>3, ComingFrom DEF Coming
<1> QED
  BY <1>1, <1>2

\* The quantities of the balance are numbers.
LEMMA StockTypes ==
    ASSUME TypeOK
    PROVE  /\ t \in Nat /\ onHand \in Nat /\ backlog \in Nat /\ withheld \in Nat
           /\ Opening \in Nat
           /\ counts.ordered \in Nat /\ counts.served \in Nat
           /\ NextArrival \in Nat
           /\ Coming \in Nat
           /\ pipeline \in [Arrival -> Nat]
<1>1. /\ t \in Nat /\ onHand \in Nat /\ backlog \in Nat /\ withheld \in Nat
      /\ Opening \in Nat
  BY SizeAssumption DEF TypeOK
<1>2. counts.ordered \in Nat /\ counts.served \in Nat
  BY DEF TypeOK, Counts
<1>3. NextArrival \in Nat
  BY <1>1 DEF NextArrival
<1>4. pipeline \in [Arrival -> Nat]
  BY DEF TypeOK
<1>5. Coming \in Nat
  BY <1>3, <1>4, ComingNow, ComingFrom
<1> QED
  BY <1>1, <1>2, <1>3, <1>4, <1>5

LEMMA CollectKeepsStock ==
    ASSUME ReplayInv, ReplayInv', NoOrderVanishes, NEW factor \in {0, 1}, Collect(factor)
    PROVE  NoOrderVanishes'
<1> USE DEF ReplayInv
<1> PICK p, b, End : p = pipeline /\ b = t /\ End = Horizon + MaxLead
  OBVIOUS
<1> DEFINE S == b..End
           q == p[b]
<1>1. p \in [Arrival -> Nat] /\ b \in Nat /\ b \in S /\ b \in Arrival /\ q \in Nat /\ End \in Nat
  <2>1. Horizon \in Nat /\ MaxLead \in Nat
    BY SizeAssumption
  <2>2. p \in [Arrival -> Nat] /\ b \in 0..Horizon
    BY DEF TypeOK
  <2>3. End \in Nat /\ b \in Nat /\ b <= End
    BY <2>1, <2>2
  <2>4. b \in S /\ b \in Arrival
    BY <2>3 DEF Arrival
  <2>5. q \in Nat
    BY <2>2, <2>4
  <2> QED
    BY <2>2, <2>3, <2>4, <2>5
<1>2. NextArrival = b /\ NextArrival' = b + 1
  BY DEF Collect, NextArrival
<1>3. IsFiniteSet(S) /\ S \subseteq Arrival /\ IntOn(p, S)
  BY <1>1, ComingFrom
<1>4. S \ {b} = (b + 1)..End
  BY <1>1
<1>5. pipeline' = [p EXCEPT ![b] = 0]
  BY DEF Collect
<1>6. Agree(pipeline', p, S \ {b})
  BY <1>3, <1>5 DEF Agree
<1>7. Coming = SumFunctionOnSet(p, S)
  BY <1>2, ComingNow
<1>8. Coming' = SumFunctionOnSet(pipeline', S \ {b})
  BY <1>2, <1>4, ComingNow
<1>9. SumFunctionOnSet(pipeline', S \ {b}) = SumFunctionOnSet(p, S \ {b})
  <2>1. IsFiniteSet(S \ {b})
    BY <1>3, FS_Subset
  <2> QED
    BY <2>1, <1>6, SumSame
<1>10. SumFunctionOnSet(p, S) = q + SumFunctionOnSet(p, S \ {b})
  BY <1>1, <1>3, SumRemove
<1>11. Coming = q + Coming'
  BY <1>7, <1>8, <1>9, <1>10
<1>12. /\ onHand' = onHand + q * factor
       /\ withheld' = withheld + q * (1 - factor)
       /\ counts' = counts
  BY DEF Collect, TurnUp
<1>13. q * factor \in Nat /\ q * (1 - factor) \in Nat /\ q * factor + q * (1 - factor) = q
  <2>1. CASE factor = 0
    BY <1>1, <2>1
  <2>2. CASE factor = 1
    BY <1>1, <2>2
  <2> QED
    BY <2>1, <2>2
<1> PICK x \in Nat, y \in Nat : x = q * factor /\ y = q * (1 - factor)
  BY <1>13
<1>14. /\ onHand \in Nat /\ withheld \in Nat /\ counts.served \in Nat
       /\ counts.ordered \in Nat /\ Coming \in Nat /\ Opening \in Nat
  BY StockTypes
<1>15. Coming' \in Nat
  <2>1. pipeline' \in [Arrival -> Nat] /\ b + 1 \in Nat
    BY <1>1 DEF TypeOK
  <2>2. SumFunctionOnSet(pipeline', (b + 1)..End) \in Nat
    BY <2>1, ComingFrom
  <2> QED
    BY <1>4, <1>8, <2>2
<1>16. x + y = q /\ onHand' = onHand + x /\ withheld' = withheld + y
  BY <1>12, <1>13
<1> HIDE DEF q
<1>17. Opening + counts.ordered = onHand + counts.served + (q + Coming') + withheld
  BY <1>11 DEF NoOrderVanishes
<1> PICK a0 \in Int, o \in Int, h \in Int, s \in Int, c \in Int, w \in Int :
         /\ a0 = Opening /\ o = counts.ordered /\ h = onHand /\ s = counts.served
         /\ c = Coming' /\ w = withheld
  BY <1>14, <1>15
<1>18. a0 + o = h + s + ((x + y) + c) + w
  BY <1>16, <1>17
<1>19. a0 + o = (h + x) + s + c + (w + y)
  BY <1>18
<1> QED
  BY <1>12, <1>16, <1>19 DEF NoOrderVanishes

LEMMA OrderForTodayKeepsStock ==
    ASSUME ReplayInv, NoOrderVanishes, NEW q \in 1..MaxOrder, NEW factor \in {0, 1},
           OrderForToday(q, factor)
    PROVE  NoOrderVanishes'
<1> USE DEF ReplayInv
<1> PICK x \in Nat : x = q * factor
  BY SizeAssumption, AllOrNothing
<1>1. /\ onHand \in Nat /\ withheld \in Nat /\ counts.served \in Nat
      /\ counts.ordered \in Nat /\ Coming \in Nat /\ Opening \in Nat
  BY StockTypes
<1>2. /\ onHand' = onHand + x /\ withheld' = withheld
      /\ counts' = [counts EXCEPT !.ordered = @ + x]
      /\ pipeline' = pipeline /\ t' = t /\ pc = "review" /\ pc' = "serve"
  BY DEF OrderForToday
<1>3. counts'.ordered = counts.ordered + x /\ counts'.served = counts.served
  BY <1>2 DEF TypeOK, Counts
<1>4. Coming' = Coming
  BY <1>2 DEF Coming, NextArrival
<1> QED
  BY <1>1, <1>2, <1>3, <1>4 DEF NoOrderVanishes

\* An order more under way is an order more to come.
LEMMA ComingWithOrder ==
    ASSUME NEW p \in [Arrival -> Nat], NEW n \in Nat, NEW b \in n..(Horizon + MaxLead),
           NEW q \in Nat, NEW g \in [Arrival -> Nat],
           g[b] = p[b] + q, \A a \in Arrival \ {b} : g[a] = p[a]
    PROVE  SumFunctionOnSet(g, n..(Horizon + MaxLead))
             = SumFunctionOnSet(p, n..(Horizon + MaxLead)) + q
<1> DEFINE S == n..(Horizon + MaxLead)
<1>1. IsFiniteSet(S) /\ S \subseteq Arrival /\ b \in S
  BY ComingFrom
<1>2. IntOn(p, S) /\ IntOn(g, S) /\ Agree(p, g, S \ {b})
  BY <1>1 DEF IntOn, Agree
<1>3. SumFunctionOnSet(g, S) = SumFunctionOnSet(p, S) + (g[b] - p[b])
  BY <1>1, <1>2, SumChange, Zenon
<1>4. p[b] \in Nat /\ b \in Arrival
  BY <1>1
<1>5. g[b] - p[b] = q
  BY <1>4
<1> HIDE DEF S
<1>6. SumFunctionOnSet(g, S) = SumFunctionOnSet(p, S) + q
  BY <1>3, <1>5, Zenon
<1> QED
  BY <1>6 DEF S

LEMMA OrderAheadKeepsStock ==
    ASSUME ReplayInv, ReplayInv', NoOrderVanishes, NEW q \in 1..MaxOrder, OrderAhead(q)
    PROVE  NoOrderVanishes'
<1> USE DEF ReplayInv
<1> PICK p, b, n : p = pipeline /\ b = t + setting.lead /\ n = t + 1
  OBVIOUS
<1>1. /\ onHand \in Nat /\ withheld \in Nat /\ counts.served \in Nat /\ t \in Nat
      /\ counts.ordered \in Nat /\ Coming \in Nat /\ Opening \in Nat
  BY StockTypes
<1>2. p \in [Arrival -> Nat] /\ q \in Nat
  <2>1. MaxOrder \in Nat
    BY SizeAssumption
  <2> QED
    BY <2>1 DEF TypeOK
<1>3. n \in Nat /\ b \in n..(Horizon + MaxLead)
  <2>1. t < Horizon /\ setting.lead \in 1..MaxLead
    BY DEF OrderAhead, PipelineInv, TypeOK, Setting
  <2> QED
    BY <1>1, <2>1, SizeAssumption
<1>4. /\ pipeline' = [p EXCEPT ![b] = @ + q]
      /\ counts' = [counts EXCEPT !.ordered = @ + q]
      /\ onHand' = onHand /\ withheld' = withheld
      /\ t' = t /\ pc = "review" /\ pc' = "serve"
  BY DEF OrderAhead
<1>5. NextArrival = n /\ NextArrival' = n
  BY <1>4 DEF NextArrival
<1>6. /\ Coming = SumFunctionOnSet(p, n..(Horizon + MaxLead))
      /\ Coming' = SumFunctionOnSet(pipeline', n..(Horizon + MaxLead))
  BY <1>5, ComingNow
<1>7. SumFunctionOnSet(pipeline', n..(Horizon + MaxLead))
        = SumFunctionOnSet(p, n..(Horizon + MaxLead)) + q
  <2> PICK g \in [Arrival -> Nat] : g = pipeline'
    BY DEF TypeOK
  <2>1. b \in Arrival
    BY <1>2, <1>3, ComingFrom
  <2>3. g[b] = p[b] + q /\ \A a \in Arrival \ {b} : g[a] = p[a]
    BY <1>2, <1>4, <2>1
  <2>2. SumFunctionOnSet(g, n..(Horizon + MaxLead))
          = SumFunctionOnSet(p, n..(Horizon + MaxLead)) + q
    BY <1>2, <1>3, <2>3, ComingWithOrder
  <2> QED
    BY <2>2
<1>8. Coming' = Coming + q
  BY <1>6, <1>7
<1>9. counts'.ordered = counts.ordered + q /\ counts'.served = counts.served
  BY <1>4 DEF TypeOK, Counts
<1>10. \A a, o, h, s, c, w, x \in Int :
          a + o = h + s + c + w => a + (o + x) = h + s + (c + x) + w
  OBVIOUS
<1>11. Opening + (counts.ordered + q) = onHand + counts.served + (Coming + q) + withheld
  BY <1>1, <1>2, <1>10 DEF NoOrderVanishes
<1> QED
  BY <1>4, <1>8, <1>9, <1>11 DEF NoOrderVanishes

LEMMA ServeKeepsStock ==
    ASSUME ReplayInv, NoOrderVanishes, NEW q \in 0..MaxDemand, Serve(q)
    PROVE  NoOrderVanishes'
<1> PICK fulfilled \in Nat :
              /\ onHand' = onHand - fulfilled
              /\ counts'.served = counts.served + fulfilled
  BY ServeEffect
<1> USE DEF ReplayInv
<1>1. /\ onHand \in Nat /\ withheld \in Nat /\ counts.served \in Nat
      /\ counts.ordered \in Nat /\ Coming \in Nat /\ Opening \in Nat
  BY StockTypes
<1>2. counts'.ordered = counts.ordered
  BY DEF Serve, TypeOK, Counts
<1>3. withheld' = withheld /\ pipeline' = pipeline
      /\ pc = "serve" /\ pc' = "collect" /\ t' = t + 1
  BY DEF Serve
<1>4. Coming' = Coming
  BY <1>3 DEF Coming, NextArrival
<1> QED
  BY <1>1, <1>2, <1>3, <1>4 DEF NoOrderVanishes

\* Before the first bucket nothing is coming.
LEMMA StockInit == Init => NoOrderVanishes
<1> SUFFICES ASSUME Init PROVE NoOrderVanishes
  OBVIOUS
<1>1. TypeOK
  BY InitInv DEF ReplayInv
<1> PICK S : S = 0..(Horizon + MaxLead)
  OBVIOUS
<1>2. Coming = SumFunctionOnSet(pipeline, S)
  BY <1>1, ComingNow DEF Init, NextArrival
<1>3. IsFiniteSet(S)
  BY SizeAssumption, FS_Interval
<1> DEFINE z == [a \in S |-> 0]
<1>4. \A a \in S : pipeline[a] = 0
  BY DEF Init, Arrival
<1>5. SumFunctionOnSet(pipeline, S) = 0
  BY <1>3, <1>4, SumOfZeros
<1> QED
  BY <1>2, <1>5, SizeAssumption DEF Init, NoOrderVanishes

\* Every step keeps the balance.
LEMMA StockStep ==
    ASSUME ReplayInv, NoOrderVanishes, [Next]_vars
    PROVE  NoOrderVanishes'
<1>0. ReplayInv'
  BY StepInv
<1>1. ASSUME NEW factor \in {0, 1}, Collect(factor) PROVE NoOrderVanishes'
  BY <1>0, <1>1, CollectKeepsStock
<1>2. CASE OrderNothing
  BY <1>2 DEF OrderNothing, NoOrderVanishes, Coming, NextArrival
<1>3. ASSUME NEW q \in 1..MaxOrder, NEW factor \in {0, 1}, OrderForToday(q, factor)
      PROVE  NoOrderVanishes'
  BY <1>3, OrderForTodayKeepsStock
<1>4. ASSUME NEW q \in 1..MaxOrder, OrderAhead(q) PROVE NoOrderVanishes'
  BY <1>0, <1>4, OrderAheadKeepsStock
<1>5. ASSUME NEW q \in 0..MaxDemand, Serve(q) PROVE NoOrderVanishes'
  BY <1>5, ServeKeepsStock
<1>6. CASE UNCHANGED vars
  BY <1>6 DEF vars, NoOrderVanishes, Coming, NextArrival
<1> QED
  BY <1>1, <1>2, <1>3, <1>4, <1>5, <1>6 DEF Next

\* Every unit that was in stock or ordered is in stock, served, still coming or
\* withheld by the plant, at every lead time and under every policy.
THEOREM OrdersNeverVanish == Spec => []NoOrderVanishes
<1>1. Init => NoOrderVanishes
  BY StockInit
<1>2. ReplayInv /\ NoOrderVanishes /\ [Next]_vars => NoOrderVanishes'
  BY StockStep
<1> QED
  BY <1>1, <1>2, InvHolds, PTL DEF Spec

------------------------------------------------------------------------------
(***************************************************************************)
(* Replaying under a policy is replaying: what holds of every sequence of  *)
(* orders holds under every rule.                                          *)
(***************************************************************************)
\* Whatever the rule, a step is one of the replay's or leaves it alone.
LEMMA PolicyStep ==
    ASSUME [PolicyNext]_<<vars, rule, came>>
    PROVE  [Next]_vars
  <1>1. CASE UNCHANGED <<vars, rule, came>>
    BY <1>1
  <1>2. ASSUME NEW factor \in {0, 1}, PolicyCollect(factor)
        PROVE  Next
    BY <1>2 DEF PolicyCollect, Next
  <1>3. CASE PolicySilent
    BY <1>3 DEF PolicySilent, Next
  <1>4. ASSUME NEW q \in Orders, NEW factor \in {0, 1}, PolicyForToday(q, factor)
        PROVE  Next
    BY <1>4 DEF PolicyForToday, Orders, Next
  <1>5. ASSUME NEW q \in Orders, PolicyAhead(q)
        PROVE  Next
    BY <1>5 DEF PolicyAhead, Orders, Next
  <1>6. ASSUME NEW q \in 0..MaxDemand, PolicyServe(q)
        PROVE  Next
    BY <1>6 DEF PolicyServe, Next
  <1> QED
    BY <1>1, <1>2, <1>3, <1>4, <1>5, <1>6 DEF PolicyNext

\* A replay under any of the rules of policies.py is a replay of
\* simulate/core.py, and so a schedule of the reconciliation ladder.
THEOREM PoliciesAreReplays == PolicySpec => Spec
  <1>1. PolicyInit => Init
    BY DEF PolicyInit
  <1>2. [PolicyNext]_<<vars, rule, came>> => [Next]_vars
    BY PolicyStep
  <1> QED
    BY <1>1, <1>2, PTL DEF PolicySpec, Spec

\* Under every rule, units demanded are served, owed or lost on the day, no order
\* vanishes, nobody is served late beside stock, and each bucket closes at the
\* ladder's balance.
THEOREM PoliciesAddUp ==
    PolicySpec => []DemandAddsUp /\ []NoOrderVanishes /\ OwedFirst /\ ImplementsSchedule
  BY PoliciesAreReplays, DemandAlwaysAddsUp, OrdersNeverVanish, OwedAreServedFirst,
     ReplayImplementsSchedule

------------------------------------------------------------------------------
(***************************************************************************)
(* The protection window.                                                  *)
(***************************************************************************)
\* A review period after a review day is a review day.
LEMMA ReviewDaysRecur ==
    ASSUME NEW n \in Nat, NEW d \in Nat, d > 0, n % d = 0
    PROVE  (n + d) % d = 0
<1>1. n = (n \div d) * d + (n % d) /\ n \div d \in Nat
  OBVIOUS
<1> PICK k \in Nat : n = d * k
  BY <1>1
<1>2. n + d = d * (k + 1) /\ k + 1 \in Nat /\ 0 \in 0..(d - 1) /\ n + d \in Nat
  OBVIOUS
<1>3. ASSUME NEW m \in Nat, NEW j \in Nat, NEW r \in 0..(d - 1), m = d * j + r
      PROVE  m % d = r
  BY <1>3
<1> QED
  BY <1>2, <1>3

\* Rounding up to a lot adds less than a lot, and nothing to nothing.
LEMMA RoundUpBounds ==
    ASSUME NEW q \in Nat, NEW lot \in Nat
    PROVE  /\ RoundUp(q, lot) \in Nat
           /\ q <= RoundUp(q, lot)
           /\ RoundUp(q, lot) < q + (IF lot > 0 THEN lot ELSE 1)
           /\ q = 0 => RoundUp(q, lot) = 0
<1>1. CASE lot = 0
  BY <1>1 DEF RoundUp
<1>2. CASE lot > 0
  <2> PICK n \in Nat : n = q + lot - 1
    BY <1>2
  <2>1. n \div lot \in Nat /\ (n \div lot) * lot <= n /\ n < (n \div lot) * lot + lot
    BY <1>2
  <2> PICK k \in Nat : k = n \div lot
    BY <2>1
  <2>2. RoundUp(q, lot) = k * lot
    BY <1>2 DEF RoundUp
  <2> PICK m \in Nat : m = k * lot
    OBVIOUS
  <2>3. m <= n /\ n < m + lot
    BY <2>1
  <2>4. q = 0 => m = 0
    <3> SUFFICES ASSUME q = 0, k > 0 PROVE FALSE
      BY <1>2
    <3>1. k * lot >= lot
      OBVIOUS
    <3> QED
      BY <3>1, <2>3
  <2> QED
    BY <1>2, <2>2, <2>3, <2>4
<1> QED
  BY <1>1, <1>2

\* A run of buckets.
LEMMA Span ==
    ASSUME NEW f, NEW m \in Nat, NEW b \in Nat, NatOn(f, m..b)
    PROVE  /\ IsFiniteSet(m..b) /\ IntOn(f, m..b)
           /\ SumFunctionOnSet(f, m..b) \in Nat
<1>1. IsFiniteSet(m..b)
  BY FS_Interval
<1>2. IntOn(f, m..b)
  BY DEF IntOn, NatOn
<1> QED
  BY <1>1, <1>2, SumInt

\* The first bucket of a run.
LEMMA SpanFirst ==
    ASSUME NEW f, NEW m \in Nat, NEW b \in Nat, m <= b, NatOn(f, m..b)
    PROVE  /\ SumFunctionOnSet(f, m..b) = f[m] + SumFunctionOnSet(f, (m + 1)..b)
           /\ NatOn(f, (m + 1)..b)
<1>1. m \in m..b /\ (m..b) \ {m} = (m + 1)..b
  OBVIOUS
<1>2. NatOn(f, (m + 1)..b)
  BY DEF NatOn
<1> QED
  BY <1>1, <1>2, Span, SumRemove

LEMMA SpanOfOne ==
    ASSUME NEW f, NEW m \in Nat, f[m] \in Nat
    PROVE  SumFunctionOnSet(f, m..m) = f[m]
<1>1. (m + 1)..m = {} /\ m..m = {m}
  OBVIOUS
<1>2. NatOn(f, m..m)
  BY <1>1 DEF NatOn
<1>3. SumFunctionOnSet(f, m..m) = f[m] + SumFunctionOnSet(f, (m + 1)..m)
  <2>1. m <= m
    OBVIOUS
  <2> QED
    BY <1>2, <2>1, SpanFirst, Zenon
<1>4. SumFunctionOnSet(f, (m + 1)..m) = 0
  BY <1>1, SumEmpty
<1> QED
  BY <1>3, <1>4

\* A longer run has a larger sum.
LEMMA SpanGrows ==
    ASSUME NEW f, NEW m \in Nat, NEW b \in Nat, NEW c \in Nat, b <= c, NatOn(f, m..c)
    PROVE  SumFunctionOnSet(f, m..b) <= SumFunctionOnSet(f, m..c)
<1> DEFINE S == m..b
           R == (m..c) \ (m..b)
<1>1. S \cup R = m..c /\ S \cap R = {}
  OBVIOUS
<1>2. IsFiniteSet(m..c) /\ IntOn(f, m..c)
  BY Span
<1>3. IsFiniteSet(S) /\ IsFiniteSet(R)
  BY <1>1, <1>2, FS_Subset
<1>4. SumFunctionOnSet(f, m..c) = SumFunctionOnSet(f, S) + SumFunctionOnSet(f, R)
  BY <1>1, <1>2, <1>3, SumUnion
<1>5. NatOn(f, S) /\ NatOn(f, R) /\ IntOn(f, S) /\ IntOn(f, R)
  BY <1>1, <1>2 DEF NatOn, IntOn
<1>6. SumFunctionOnSet(f, S) \in Nat /\ SumFunctionOnSet(f, R) \in Nat
  BY <1>3, <1>5, SumInt
<1> QED
  BY <1>4, <1>6

\* The rule's expectation, as a function of the bucket.
Expectation == [i \in Nat |-> Expected(i)]

LEMMA ForecastTypes ==
    /\ rule \in Rules /\ rule.kind # "any" => Expectation \in [Nat -> Nat]
    /\ rule' = rule => Expectation' = Expectation
<1>1. ASSUME rule \in Rules, rule.kind # "any"
      PROVE  Expectation \in [Nat -> Nat]
  <2> SUFFICES ASSUME NEW i \in Nat PROVE Expected(i) \in Nat
    BY DEF Expectation
  <2>1. IsRule(rule)
    BY <1>1, RuleAssumption
  <2>2. CASE rule.kind = "up_to"
    <3>1. rule.forecast \in Seq(Nat)
      BY <2>1, <2>2 DEF IsRule, Fitted
    <3>2. i < Len(rule.forecast) => rule.forecast[i + 1] \in Nat
      BY <3>1
    <3> QED
      BY <2>2, <3>2 DEF Expected
  <2>3. CASE rule.kind # "up_to"
    <3>1. rule.rate \in Nat
      BY <1>1, <2>1, <2>3 DEF IsRule
    <3> QED
      BY <2>3, <3>1 DEF Expected
  <2> QED
    BY <2>2, <2>3
<1>2. ASSUME rule' = rule
      PROVE  Expectation' = Expectation
  BY <1>2 DEF Expectation, Expected
<1> QED
  BY <1>1, <1>2

\* Up to bucket b, stock and what is on its way cover what is expected.
Covered(E, m, b, net, p) ==
    SumFunctionOnSet(E, m..b) <= net + SumFunctionOnSet(p, m..b)

\* The sum over a run of buckets.
LEMMA SumOfRun ==
    ASSUME NEW f, NEW m \in Nat, NEW b \in Nat
    PROVE  SumFunction([i \in m..b |-> f[i]]) = SumFunctionOnSet(f, m..b)
<1> DEFINE g == [i \in m..b |-> f[i]]
<1>1. SumFunction(g) = SumFunctionOnSet(g, m..b)
  BY DEF SumFunction
<1>2. Agree(g, f, m..b)
  BY DEF Agree
<1>3. IsFiniteSet(m..b)
  BY FS_Interval
<1> HIDE DEF g
<1>4. SumFunctionOnSet(g, m..b) = SumFunctionOnSet(f, m..b)
  BY <1>3, <1>2, SumSame
<1> QED
  BY <1>1, <1>4 DEF g

\* The sums of CoverInv, over functions that do not change with the state.
LEMMA CoverSums ==
    ASSUME NEW E \in [Nat -> Nat], NEW p \in [Arrival -> Nat],
           NEW m \in Nat, NEW b \in Arrival
    PROVE  /\ NatOn(E, m..b) /\ NatOn(p, m..b)
           /\ m..b \subseteq Arrival /\ b \in Nat /\ IsFiniteSet(m..b)
           /\ SumFunctionOnSet(E, m..b) \in Nat /\ SumFunctionOnSet(p, m..b) \in Nat
<1>1. b \in Nat /\ m..b \subseteq Arrival
  BY SizeAssumption DEF Arrival
<1>2. NatOn(E, m..b) /\ NatOn(p, m..b)
  BY <1>1 DEF NatOn
<1>3. IsFiniteSet(m..b)
  BY <1>1, <1>2, Span
<1>5. SumFunctionOnSet(E, m..b) \in Nat /\ SumFunctionOnSet(p, m..b) \in Nat
  BY <1>1, <1>2, Span
<1> QED
  BY <1>1, <1>2, <1>3, <1>5

\* CoverInv in those terms.
LEMMA CoverMeans ==
    ASSUME TypeOK, rule \in Rules, CoverInv, AsExpected
    PROVE  /\ rule.kind # "any"
           /\ \A b \in Arrival : AnsweredFor(b) =>
                 Covered(Expectation, t, b, onHand - backlog, pipeline)
<1>1. rule.kind # "any"
  BY DEF CoverInv
<1> SUFFICES ASSUME NEW b \in Arrival, AnsweredFor(b)
             PROVE  Covered(Expectation, t, b, onHand - backlog, pipeline)
  BY <1>1
<1> PICK E : E = Expectation
  OBVIOUS
<1>2. E \in [Nat -> Nat] /\ pipeline \in [Arrival -> Nat] /\ t \in Nat
  <2>1. E \in [Nat -> Nat]
    BY <1>1, ForecastTypes
  <2>2. pipeline \in [Arrival -> Nat] /\ t \in Nat
    BY SizeAssumption DEF TypeOK
  <2> QED
    BY <2>1, <2>2
<1>3. [i \in t..b |-> Expected(i)] = [i \in t..b |-> E[i]]
  <2>1. \A i \in t..b : i \in Nat
    BY <1>2
  <2> QED
    BY <2>1 DEF Expectation
<1>4. SumFunction([i \in t..b |-> Expected(i)])
        <= onHand - backlog + SumFunction([a \in t..b |-> pipeline[a]])
  BY DEF CoverInv
<1>5. /\ SumFunction([i \in t..b |-> E[i]]) = SumFunctionOnSet(E, t..b)
      /\ SumFunction([i \in t..b |-> pipeline[i]]) = SumFunctionOnSet(pipeline, t..b)
  <2>1. b \in Nat
    BY SizeAssumption DEF Arrival
  <2>2. PICK p, m : p = pipeline /\ m = t
    OBVIOUS
  <2>3. p \in [Arrival -> Nat] /\ m \in Nat
    BY <1>2, <2>2
  <2>4. SumFunction([i \in m..b |-> E[i]]) = SumFunctionOnSet(E, m..b)
    BY <2>1, <2>3, SumOfRun
  <2>5. SumFunction([i \in m..b |-> p[i]]) = SumFunctionOnSet(p, m..b)
    BY <2>1, <2>3, SumOfRun
  <2> QED
    BY <2>2, <2>4, <2>5
<1> QED
  BY <1>3, <1>4, <1>5 DEF Covered

LEMMA CoverMeansNext ==
    ASSUME TypeOK', rule' = rule, rule \in Rules,
           AsExpected' => /\ rule.kind # "any"
                    /\ \A b \in Arrival : AnsweredFor(b)' =>
                          Covered(Expectation, t', b, onHand' - backlog', pipeline')
    PROVE  CoverInv'
<1> SUFFICES ASSUME AsExpected' PROVE CoverInv'
  BY DEF CoverInv
<1>1. rule'.kind # "any"
  OBVIOUS
<1> PICK E : E = Expectation
  OBVIOUS
<1>2. E \in [Nat -> Nat] /\ pipeline' \in [Arrival -> Nat] /\ t' \in Nat
  <2>1. E \in [Nat -> Nat]
    BY <1>1, ForecastTypes
  <2>2. pipeline' \in [Arrival -> Nat] /\ t' \in Nat
    BY SizeAssumption DEF TypeOK
  <2> QED
    BY <2>1, <2>2
<1>3. \A i \in Nat : Expected(i)' = E[i]
  BY DEF Expectation, Expected
<1> SUFFICES ASSUME NEW b \in Arrival, AnsweredFor(b)'
             PROVE  SumFunction([i \in t'..b |-> Expected(i)'])
                      <= onHand' - backlog' + SumFunction([a \in t'..b |-> pipeline'[a]])
  BY <1>1, Zenon DEF CoverInv
<1>4. [i \in t'..b |-> Expected(i)'] = [i \in t'..b |-> E[i]]
  <2>1. \A i \in t'..b : i \in Nat
    BY <1>2
  <2> QED
    BY <2>1, <1>3
<1>5. Covered(E, t', b, onHand' - backlog', pipeline')
  OBVIOUS
<1> PICK m, p : m = t' /\ p = pipeline'
  OBVIOUS
<1>6. /\ SumFunction([i \in m..b |-> E[i]]) = SumFunctionOnSet(E, m..b)
      /\ SumFunction([i \in m..b |-> p[i]]) = SumFunctionOnSet(p, m..b)
  <2>1. b \in Nat /\ m \in Nat
    BY <1>2, SizeAssumption DEF Arrival
  <2>2. SumFunction([i \in m..b |-> E[i]]) = SumFunctionOnSet(E, m..b)
    BY <2>1, SumOfRun
  <2>3. SumFunction([i \in m..b |-> p[i]]) = SumFunctionOnSet(p, m..b)
    BY <2>1, SumOfRun
  <2> QED
    BY <2>2, <2>3
<1> QED
  BY <1>4, <1>5, <1>6 DEF Covered

\* What every step may use.
LEMMA PolicyTypes ==
    ASSUME ReplayInv
    PROVE  /\ t \in Nat /\ t <= Horizon /\ onHand \in Nat /\ backlog \in Nat
           /\ pipeline \in [Arrival -> Nat]
           /\ setting.lead \in Nat /\ setting.lead <= MaxLead
           /\ setting.review \in Nat /\ setting.review > 0
           /\ Horizon \in Nat /\ MaxLead \in Nat /\ MaxOrder \in Nat
BY SizeAssumption DEF ReplayInv, TypeOK, Setting

\* Goods arrive as expected: what was on its way is in stock.
LEMMA CollectCovers ==
    ASSUME rule \in Rules, ReplayInv, ReplayInv', CoverInv, NEW factor \in {0, 1},
           PolicyCollect(factor)
    PROVE  CoverInv'
<1> USE DEF ReplayInv
<1>1. /\ pc = "collect" /\ pc' = "review" /\ t' = t /\ setting' = setting /\ rule' = rule
      /\ backlog' = backlog
      /\ AsExpected' => AsExpected /\ factor = 1
      /\ onHand' = onHand + pipeline[t] * factor
      /\ pipeline' = [pipeline EXCEPT ![t] = 0]
  BY DEF PolicyCollect, Collect, As, AsExpected, TurnUp
<1>2. \A b : AnsweredFor(b)' <=> AnsweredFor(b)
  BY <1>1 DEF AnsweredFor, ReviewsAhead
<1> SUFFICES ASSUME AsExpected'
             PROVE  /\ rule.kind # "any"
                    /\ \A b \in Arrival : AnsweredFor(b)' =>
                          Covered(Expectation, t', b, onHand' - backlog', pipeline')
  BY <1>1, CoverMeansNext
<1>3. rule.kind # "any"
  BY <1>1, CoverMeans
<1> SUFFICES ASSUME NEW b \in Arrival, AnsweredFor(b)
             PROVE  Covered(Expectation, t, b, onHand' - backlog', pipeline')
  BY <1>1, <1>2, <1>3
<1> PICK E, p, m, g : E = Expectation /\ p = pipeline /\ m = t /\ g = pipeline'
  OBVIOUS
<1>4. E \in [Nat -> Nat] /\ p \in [Arrival -> Nat] /\ g \in [Arrival -> Nat] /\ m \in Nat
  BY <1>3, ForecastTypes, PolicyTypes DEF TypeOK
<1>5. m <= b /\ m \in m..b /\ m \in Arrival
  <2>1. m <= b /\ m \in m..b
    BY <1>4, CoverSums DEF AnsweredFor
  <2> QED
    BY <1>4, <2>1, CoverSums
<1>6. g[m] = 0 /\ Agree(p, g, (m..b) \ {m}) /\ p[m] \in Nat
  <2>1. m..b \subseteq Arrival
    BY <1>4, CoverSums
  <2> QED
    BY <1>1, <1>4, <1>5, <2>1 DEF Agree
<1>7. IsFiniteSet(m..b) /\ IntOn(p, m..b) /\ IntOn(g, m..b)
  BY <1>4, CoverSums, Span
<1>8. SumFunctionOnSet(g, m..b) = SumFunctionOnSet(p, m..b) + (g[m] - p[m])
  BY <1>5, <1>6, <1>7, SumChange, Zenon
<1>9. Covered(E, m, b, onHand - backlog, p)
  BY <1>1, CoverMeans
<1>10. onHand' = onHand + p[m]
  <2>1. factor = 1
    BY <1>1
  <2>2. p[m] * factor = p[m]
    BY <2>1, <1>6
  <2> QED
    BY <1>1, <2>2
<1> PICK d \in Nat, x \in Int, y \in Int, z \in Int :
       d = p[m] /\ x = SumFunctionOnSet(p, m..b) /\ y = SumFunctionOnSet(E, m..b)
       /\ z = SumFunctionOnSet(g, m..b)
  <2>1. SumFunctionOnSet(p, m..b) \in Nat /\ SumFunctionOnSet(E, m..b) \in Nat
    BY <1>4, CoverSums
  <2>2. SumFunctionOnSet(g, m..b) \in Nat
    BY <1>4, CoverSums
  <2> QED
    BY <1>6, <2>1, <2>2
<1>11. z = x - d
  BY <1>6, <1>8
<1>12. y <= onHand - backlog + x
  BY <1>9 DEF Covered
<1>13. y <= onHand' - backlog' + z
  <2>1. PICK h \in Int, o \in Int : h = onHand /\ o = backlog
    BY PolicyTypes
  <2>2. y <= (h + d) - o + z
    BY <1>11, <1>12, <2>1
  <2>3. onHand' = h + d /\ backlog' = o
    BY <1>1, <1>10, <2>1
  <2> QED
    BY <2>2, <2>3, Zenon
<1> QED
  BY <1>13 DEF Covered

\* A bucket's demand lowers the net position by that much at most, and never
\* lifts it.
LEMMA ServeNet ==
    ASSUME ReplayInv, NEW q \in 0..MaxDemand, Serve(q)
    PROVE  /\ onHand' - backlog' >= onHand - backlog - q
           /\ onHand' - backlog' <= onHand - backlog
<1> PICK h \in Nat, l \in Nat, n \in Nat : h = onHand /\ l = backlog /\ n = q
  BY PolicyTypes, SizeAssumption
<1> PICK f \in Nat : f = Less(h, n + l)
  BY DEF Less
<1> PICK paid \in Nat : paid = PaidOff(f, n) /\ paid <= f /\ paid <= l
  BY DEF PaidOff, Less
<1> PICK new \in Nat : new = NewlyOwed(f - paid, n) /\ new <= n - (f - paid)
  <2>1. f - paid <= n /\ f - paid \in Nat
    BY DEF PaidOff, Less
  <2> QED
    BY <2>1 DEF NewlyOwed
<1>1. onHand' = h - f /\ backlog' = l - paid + new
  BY DEF Serve
<1> QED
  BY <1>1

\* Customers come as expected: what today was owed is served, or owed.
LEMMA ServeCovers ==
    ASSUME rule \in Rules, ReplayInv, ReplayInv', CollectedInv, CoverInv,
           NEW q \in 0..MaxDemand, PolicyServe(q)
    PROVE  CoverInv'
<1> USE DEF ReplayInv
<1>1. /\ pc = "serve" /\ pc' = "collect" /\ t' = t + 1 /\ setting' = setting /\ rule' = rule
      /\ pipeline' = pipeline
      /\ AsExpected' => AsExpected /\ q = Expected(t)
      /\ Serve(q)
  BY DEF PolicyServe, Serve, As, AsExpected
<1>2. \A b \in Arrival : AnsweredFor(b)' => AnsweredFor(b) /\ t + 1 <= b
  <2> SUFFICES ASSUME NEW b \in Arrival, AnsweredFor(b)'
               PROVE  AnsweredFor(b) /\ t + 1 <= b
    OBVIOUS
  <2>1. ReviewsAhead' = ReviewsAhead
    BY <1>1 DEF ReviewsAhead
  <2>2. b >= t + 1 /\ b \in Nat /\ t \in Nat
    BY <1>1, PolicyTypes DEF AnsweredFor, Arrival
  <2> QED
    BY <1>1, <2>1, <2>2 DEF AnsweredFor
<1> SUFFICES ASSUME AsExpected'
             PROVE  /\ rule.kind # "any"
                    /\ \A b \in Arrival : AnsweredFor(b)' =>
                          Covered(Expectation, t', b, onHand' - backlog', pipeline')
  BY <1>1, CoverMeansNext
<1>3. rule.kind # "any"
  BY <1>1, CoverMeans
<1> SUFFICES ASSUME NEW b \in Arrival, AnsweredFor(b), t + 1 <= b
             PROVE  Covered(Expectation, t + 1, b, onHand' - backlog', pipeline)
  BY <1>1, <1>2, <1>3
<1> PICK E, p, m : E = Expectation /\ p = pipeline /\ m = t
  OBVIOUS
<1>4. E \in [Nat -> Nat] /\ p \in [Arrival -> Nat] /\ m \in Nat /\ b \in Nat /\ m + 1 \in Nat
  <2>1. E \in [Nat -> Nat]
    BY <1>3, ForecastTypes
  <2>2. p \in [Arrival -> Nat] /\ m \in Nat /\ b \in Nat
    BY PolicyTypes DEF Arrival
  <2> QED
    BY <2>1, <2>2
<1>5. m <= b /\ m \in m..b /\ m \in Arrival
  BY <1>4, SizeAssumption DEF Arrival
<1>6. p[m] = 0
  BY <1>1, <1>4, <1>5 DEF CollectedInv, NextArrival
<1>7. E[m] = q
  BY <1>1, <1>4 DEF Expectation
<1>8. /\ SumFunctionOnSet(E, m..b) = E[m] + SumFunctionOnSet(E, (m + 1)..b)
      /\ SumFunctionOnSet(p, m..b) = p[m] + SumFunctionOnSet(p, (m + 1)..b)
  <2>1. NatOn(E, m..b) /\ NatOn(p, m..b)
    BY <1>4, CoverSums
  <2>2. SumFunctionOnSet(E, m..b) = E[m] + SumFunctionOnSet(E, (m + 1)..b)
    BY <1>4, <1>5, <2>1, SpanFirst, ZenonT(30)
  <2>3. SumFunctionOnSet(p, m..b) = p[m] + SumFunctionOnSet(p, (m + 1)..b)
    BY <1>4, <1>5, <2>1, SpanFirst
  <2> QED
    BY <2>2, <2>3
<1>9. onHand' - backlog' >= onHand - backlog - q
  BY <1>1, ServeNet
<1> PICK x \in Int, y \in Int :
       /\ x = SumFunctionOnSet(p, (m + 1)..b)
       /\ y = SumFunctionOnSet(E, (m + 1)..b)
  <2>1. SumFunctionOnSet(p, (m + 1)..b) \in Nat /\ SumFunctionOnSet(E, (m + 1)..b) \in Nat
    BY <1>4, CoverSums
  <2> QED
    BY <2>1
<1>10. Covered(E, m, b, onHand - backlog, p)
  BY <1>1, CoverMeans
<1>11. q + y <= onHand - backlog + x
  BY <1>6, <1>7, <1>8, <1>10 DEF Covered
<1>12. onHand' \in Nat /\ backlog' \in Nat
  BY DEF TypeOK
<1>13. y <= onHand' - backlog' + x
  <2> PICK h \in Int, l \in Int, u \in Int, v \in Int, w \in Int :
         h = onHand /\ l = backlog /\ u = onHand' /\ v = backlog' /\ w = q
    BY <1>12, PolicyTypes, SizeAssumption
  <2>1. u - v >= h - l - w /\ w + y <= h - l + x
    BY <1>9, <1>11
  <2>2. \A a, b0, c, d, e, f, g \in Int : a - b0 >= c - d - e /\ e + f <= c - d + g
                                            => f <= a - b0 + g
    OBVIOUS
  <2> QED
    BY <2>1, <2>2, Zenon
<1> QED
  BY <1>13 DEF Covered

\* Cover is the expectation summed over the window.
LEMMA CoverIsASum ==
    ASSUME rule \in Rules, rule.kind # "any", ReplayInv
    PROVE  Cover = SumFunctionOnSet(Expectation, t..(t + Window - 1)) /\ Cover \in Nat
<1> PICK m \in Nat, n \in Nat : m = t /\ n = t + Window - 1
  BY PolicyTypes DEF Window
<1>1. Cover = SumFunction([i \in m..n |-> Expected(i)])
  BY DEF Cover
<1>2. [i \in m..n |-> Expected(i)] = [i \in m..n |-> Expectation[i]]
  <2>1. \A i \in m..n : i \in Nat
    OBVIOUS
  <2> QED
    BY <2>1 DEF Expectation
<1>3. SumFunction([i \in m..n |-> Expectation[i]]) = SumFunctionOnSet(Expectation, m..n)
  BY SumOfRun
<1>4. Expectation \in [Nat -> Nat]
  BY ForecastTypes
<1>5. NatOn(Expectation, m..n)
  BY <1>4 DEF NatOn
<1>6. SumFunctionOnSet(Expectation, m..n) \in Nat
  BY <1>5, Span
<1> QED
  BY <1>1, <1>2, <1>3, <1>6

\* All that is on its way.
LEMMA PipelineSum ==
    ASSUME NEW g \in [Arrival -> Nat]
    PROVE  /\ IsFiniteSet(Arrival) /\ IntOn(g, Arrival)
           /\ SumFunction(g) = SumFunctionOnSet(g, Arrival)
           /\ SumFunction(g) \in Nat
<1>1. IsFiniteSet(Arrival)
  <2>1. 0 \in Int /\ Horizon + MaxLead \in Int
    BY SizeAssumption
  <2> QED
    BY <2>1, FS_Interval DEF Arrival
<1>2. IntOn(g, Arrival) /\ NatOn(g, Arrival)
  BY DEF IntOn, NatOn
<1>3. SumFunction(g) = SumFunctionOnSet(g, Arrival)
  BY DEF SumFunction
<1>4. SumFunctionOnSet(g, Arrival) \in Nat
  BY <1>1, <1>2, SumInt
<1> QED
  BY <1>1, <1>2, <1>3, <1>4

\* The quantities of a review are numbers, and the trigger covers what is expected.
LEMMA ReviewTypes ==
    ASSUME rule \in Rules, rule.kind # "any", ReplayInv
    PROVE  /\ rule.safety \in Int /\ rule.lot \in Nat
           /\ rule.kind \in {"up_to", "moving_average", "reorder_point"}
           /\ Window \in Nat /\ Window > 0
           /\ Cover \in Nat /\ Trigger \in Int /\ Target \in Int
           /\ Target >= Trigger /\ (rule.safety >= 0 => Trigger >= Cover)
           /\ Position \in Int /\ SumFunction(pipeline) \in Nat
           /\ Shortfall \in Nat /\ Wanted \in Nat
<1>1. /\ rule.safety \in Int /\ rule.lot \in Nat
      /\ rule.kind \in {"up_to", "moving_average", "reorder_point"}
  <2>1. IsRule(rule)
    BY RuleAssumption
  <2> QED
    BY <2>1 DEF IsRule, Fitted
<1>2. Window \in Nat /\ Window > 0
  BY PolicyTypes DEF Window
<1>3. Cover \in Nat
  BY CoverIsASum
<1>4. Trigger \in Int /\ (rule.safety >= 0 => Trigger >= Cover)
  BY <1>1, <1>3 DEF Trigger
<1>5. Target \in Int /\ Target >= Trigger
  <2>1. CASE rule.kind = "up_to"
    BY <1>4, <2>1 DEF Target
  <2>2. CASE rule.kind = "moving_average"
    BY <1>3, <1>4, <2>2 DEF Target
  <2>3. CASE rule.kind = "reorder_point"
    BY <1>1, <1>3, <1>4, <2>3 DEF Target
  <2> QED
    BY <1>1, <2>1, <2>2, <2>3
<1>6. SumFunction(pipeline) \in Nat
  <2>1. pipeline \in [Arrival -> Nat]
    BY PolicyTypes
  <2> QED
    BY <2>1, PipelineSum
<1>7. Position \in Int
  BY <1>6, PolicyTypes DEF Position
<1>8. Shortfall \in Nat
  BY <1>5, <1>7 DEF Shortfall
<1>9. RoundUp(Shortfall, rule.lot) \in Nat
  BY <1>1, <1>8, RoundUpBounds
<1>10. Wanted \in Nat
  BY <1>1, <1>8, <1>9 DEF Wanted
<1> QED
  BY <1>1, <1>2, <1>3, <1>4, <1>5, <1>6, <1>7, <1>8, <1>10

LEMMA WantedIsEnough ==
    ASSUME rule \in Rules, rule.kind # "any", rule.safety >= 0, ReplayInv
    PROVE  Position + Wanted >= Cover
<1>1. /\ Cover \in Nat /\ Trigger \in Int /\ Target \in Int
      /\ Target >= Trigger /\ Trigger >= Cover
      /\ Position \in Int /\ Shortfall \in Nat /\ Wanted \in Nat
      /\ rule.lot \in Nat
      /\ rule.kind \in {"up_to", "moving_average", "reorder_point"}
  BY ReviewTypes
<1>2. Position + Shortfall >= Target
  BY <1>1 DEF Shortfall
<1>3. Wanted >= Shortfall \/ Position > Trigger
  <2>1. RoundUp(Shortfall, rule.lot) >= Shortfall /\ RoundUp(Shortfall, rule.lot) \in Nat
    BY <1>1, RoundUpBounds
  <2> QED
    BY <1>1, <2>1 DEF Wanted
<1> QED
  BY <1>1, <1>2, <1>3

\* A review that is answered covers demand until the next one could arrive.
LEMMA ReviewCovers ==
    ASSUME rule \in Rules, rule.kind # "any", AsExpected, ReplayInv, CollectedInv, CoverInv,
           pc = "review", NEW net \in Int, NEW g \in [Arrival -> Nat],
           \A a \in Arrival : g[a] >= pipeline[a],
           \A a \in Arrival : a < t \/ a > t + setting.lead => g[a] = 0,
           net >= onHand - backlog,
           Position + Wanted = net + SumFunction(g),
           NEW b \in Arrival, b >= t, b >= setting.lead, b < t + Window
    PROVE  Covered(Expectation, t, b, net, g)
<1> PICK E, p, m, L, n : E = Expectation /\ p = pipeline /\ m = t /\ L = setting.lead
                         /\ n = t + Window - 1
  OBVIOUS
<1>1. /\ m \in Nat /\ L \in Nat /\ p \in [Arrival -> Nat] /\ b \in Nat /\ n \in Nat
      /\ b <= n
  <2>1. m \in Nat /\ L \in Nat /\ p \in [Arrival -> Nat] /\ b \in Nat
    BY PolicyTypes DEF Arrival
  <2>2. Window \in Nat /\ Window > 0
    BY ReviewTypes
  <2> QED
    BY <2>1, <2>2
<1>2. E \in [Nat -> Nat]
  BY ForecastTypes
<1>3. /\ NatOn(E, m..b) /\ NatOn(p, m..b) /\ NatOn(g, m..b)
      /\ m..b \subseteq Arrival /\ IsFiniteSet(m..b)
      /\ SumFunctionOnSet(E, m..b) \in Nat
      /\ SumFunctionOnSet(p, m..b) \in Nat /\ SumFunctionOnSet(g, m..b) \in Nat
  BY <1>1, <1>2, CoverSums
<1>4. CASE b < m + L
  <2>1. AnsweredFor(b)
    <3>1. \A r \in ReviewsAhead : r \in Int /\ r >= m
      BY <1>1, PolicyTypes DEF ReviewsAhead
    <3> QED
      BY <1>1, <1>4, <3>1 DEF AnsweredFor
  <2>2. Covered(E, m, b, onHand - backlog, p)
    BY <2>1, CoverMeans DEF ReplayInv
  <2>3. SumFunctionOnSet(p, m..b) <= SumFunctionOnSet(g, m..b)
    <3>1. IntOn(p, m..b) /\ IntOn(g, m..b)
      BY <1>3 DEF IntOn, NatOn
    <3>2. \A x \in m..b : p[x] <= g[x]
      BY <1>1, <1>3
    <3> QED
      BY <1>3, <3>1, <3>2, SumMonotone
  <2> PICK x \in Int, y \in Int, z \in Int, k \in Int :
         /\ x = SumFunctionOnSet(E, m..b) /\ y = SumFunctionOnSet(p, m..b)
         /\ z = SumFunctionOnSet(g, m..b) /\ k = onHand - backlog
    BY <1>3, PolicyTypes
  <2>4. x <= k + y /\ y <= z /\ net >= k
    BY <2>2, <2>3 DEF Covered
  <2>5. x <= net + z
    BY <2>4
  <2> QED
    BY <2>5 DEF Covered
<1>5. CASE b >= m + L
  <2>1. SumFunction(g) = SumFunctionOnSet(g, m..b)
    <3> DEFINE R == Arrival \ (m..b)
    <3>1. SumFunction(g) = SumFunctionOnSet(g, Arrival)
      BY DEF SumFunction
    <3>2. IsFiniteSet(Arrival) /\ IntOn(g, Arrival)
      BY PipelineSum
    <3>3. IsFiniteSet(R) /\ (m..b) \cup R = Arrival /\ (m..b) \cap R = {}
      BY <3>2, <1>3, FS_Subset
    <3>4. \A a \in R : g[a] = 0
      BY <1>1, <1>5 DEF Arrival
    <3> HIDE DEF R
    <3>5. SumFunctionOnSet(g, Arrival) = SumFunctionOnSet(g, m..b) + SumFunctionOnSet(g, R)
      BY <1>3, <3>2, <3>3, SumUnion
    <3>6. SumFunctionOnSet(g, R) = 0
      BY <3>3, <3>4, SumOfZeros
    <3> QED
      BY <1>3, <3>1, <3>5, <3>6
  <2>2. SumFunctionOnSet(E, m..b) <= Cover
    <3>1. NatOn(E, m..n)
      BY <1>1, <1>2 DEF NatOn
    <3>2. SumFunctionOnSet(E, m..b) <= SumFunctionOnSet(E, m..n)
      BY <1>1, <3>1, SpanGrows
    <3>3. Cover = SumFunctionOnSet(E, m..n)
      BY CoverIsASum
    <3> QED
      BY <3>2, <3>3
  <2>3. Position + Wanted >= Cover
    BY WantedIsEnough DEF AsExpected
  <2> PICK x \in Int, z \in Int, c \in Int :
         x = SumFunctionOnSet(E, m..b) /\ z = SumFunctionOnSet(g, m..b) /\ c = Cover
    BY <1>3, ReviewTypes
  <2>4. x <= c /\ net + z >= c
    BY <2>1, <2>2, <2>3
  <2>5. x <= net + z
    BY <2>4
  <2> QED
    BY <2>5 DEF Covered
<1> QED
  BY <1>1, <1>4, <1>5

\* After the review, the buckets answered for end before the next review's orders.
LEMMA AnsweredAfterReview ==
    ASSUME ReplayInv, pc = "review", pc' = "serve", t' = t, setting' = setting,
           NEW b \in Arrival, AnsweredFor(b)'
    PROVE  /\ b >= t /\ b >= setting.lead
           /\ ReviewDay => b < t + Window
           /\ ~ReviewDay => AnsweredFor(b)
<1> PICK m, L, R : m = t /\ L = setting.lead /\ R = setting.review
  OBVIOUS
<1>1. m \in Nat /\ L \in Nat /\ R \in Nat /\ R > 0 /\ b \in Nat
  BY PolicyTypes DEF Arrival
<1>2. ReviewsAhead' = {r \in (m + 1)..(m + 1 + R) : r % R = 0}
  BY DEF ReviewsAhead
<1>3. ReviewsAhead = {r \in m..(m + R) : r % R = 0}
  BY DEF ReviewsAhead
<1>4. b >= m /\ b >= L /\ \A r \in ReviewsAhead' : b < r + L
  BY DEF AnsweredFor
<1>5. ASSUME ReviewDay PROVE b < t + Window
  <2>1. (m + R) % R = 0
    BY <1>1, <1>5, ReviewDaysRecur DEF ReviewDay
  <2>2. m + R \in (m + 1)..(m + 1 + R)
    BY <1>1
  <2>3. m + R \in ReviewsAhead'
    BY <1>2, <2>1, <2>2
  <2>4. b < (m + R) + L
    BY <1>4, <2>3
  <2> QED
    BY <1>1, <2>4 DEF Window
<1>6. ASSUME ~ReviewDay PROVE AnsweredFor(b)
  <2> SUFFICES ASSUME NEW r \in ReviewsAhead PROVE r \in ReviewsAhead'
    BY <1>4 DEF AnsweredFor
  <2>1. r \in m..(m + R) /\ r % R = 0
    BY <1>3
  <2>2. r # m
    BY <2>1, <1>6 DEF ReviewDay
  <2>3. r \in (m + 1)..(m + 1 + R)
    BY <1>1, <2>1, <2>2
  <2> QED
    BY <1>2, <2>1, <2>3
<1> QED
  BY <1>4, <1>5, <1>6

\* Before an order, nothing is due outside the lead time.
LEMMA DueInLeadTime ==
    ASSUME ReplayInv, CollectedInv, pc = "review", NEW a \in Arrival,
           a < t \/ a >= t + setting.lead
    PROVE  pipeline[a] = 0
<1>1. a < t => a < NextArrival
  BY PolicyTypes DEF NextArrival, Arrival
<1>2. pipeline[a] # 0 => a < t + setting.lead
  BY PolicyTypes DEF ReplayInv, PipelineInv
<1>3. a < t => pipeline[a] = 0
  BY <1>1 DEF CollectedInv
<1> QED
  BY <1>2, <1>3, PolicyTypes DEF Arrival

\* A day without an order: between reviews nothing changes, and a review that
\* wants nothing has enough.
LEMMA SilentCovers ==
    ASSUME rule \in Rules, ReplayInv, ReplayInv', CollectedInv, CoverInv, PolicySilent
    PROVE  CoverInv'
<1>1. /\ pc = "review" /\ pc' = "serve" /\ t' = t /\ setting' = setting /\ rule' = rule
      /\ onHand' = onHand /\ backlog' = backlog /\ pipeline' = pipeline
      /\ AsExpected' => AsExpected
      /\ 0 \in Answers
  BY DEF PolicySilent, OrderNothing, As, AsExpected
<1>0. TypeOK /\ TypeOK'
  BY DEF ReplayInv
<1> SUFFICES ASSUME AsExpected'
             PROVE  /\ rule.kind # "any"
                    /\ \A b \in Arrival : AnsweredFor(b)' =>
                          Covered(Expectation, t', b, onHand' - backlog', pipeline')
  BY <1>0, <1>1, CoverMeansNext
<1>2. AsExpected /\ rule.kind # "any"
  BY <1>0, <1>1, CoverMeans
<1> SUFFICES ASSUME NEW b \in Arrival, AnsweredFor(b)'
             PROVE  Covered(Expectation, t, b, onHand - backlog, pipeline)
  BY <1>1, <1>2
<1>3. CASE ~ReviewDay
  BY <1>0, <1>1, <1>2, <1>3, AnsweredAfterReview, CoverMeans
<1>4. CASE ReviewDay
  <2>1. Wanted = 0
    BY <1>1, <1>2, <1>4 DEF Answers
  <2> PICK net \in Int, g \in [Arrival -> Nat] : net = onHand - backlog /\ g = pipeline
    BY PolicyTypes
  <2>2. Position + Wanted = net + SumFunction(g)
    BY <2>1, <1>2, ReviewTypes DEF Position
  <2>3. \A a \in Arrival : a < t \/ a > t + setting.lead => g[a] = 0
    <3> SUFFICES ASSUME NEW a \in Arrival, a < t \/ a > t + setting.lead
                 PROVE  g[a] = 0
      OBVIOUS
    <3>1. a < t \/ a >= t + setting.lead
      BY PolicyTypes DEF Arrival
    <3> QED
      BY <1>1, <3>1, DueInLeadTime
  <2>4. \A a \in Arrival : g[a] >= pipeline[a]
    BY PolicyTypes
  <2>5. b >= t /\ b >= setting.lead /\ b < t + Window
    BY <1>1, <1>4, AnsweredAfterReview
  <2>6. net >= onHand - backlog
    OBVIOUS
  <2>7. Covered(Expectation, t, b, net, g)
    BY <1>1, <1>2, <2>2, <2>3, <2>4, <2>5, <2>6, ReviewCovers
  <2> QED
    BY <2>7
<1> QED
  BY <1>3, <1>4

\* A same-bucket delivery lifts the stock by what the rule wants.
LEMMA ForTodayCovers ==
    ASSUME rule \in Rules, ReplayInv, ReplayInv', CollectedInv, CoverInv,
           NEW q \in Orders, NEW factor \in {0, 1}, PolicyForToday(q, factor)
    PROVE  CoverInv'
<1>1. /\ pc = "review" /\ pc' = "serve" /\ t' = t /\ setting' = setting /\ rule' = rule
      /\ onHand' = onHand + q * factor /\ backlog' = backlog /\ pipeline' = pipeline
      /\ AsExpected' => AsExpected /\ factor = 1
      /\ ReviewDay /\ setting.lead = 0
  BY DEF PolicyForToday, OrderForToday, As, AsExpected
<1>0. TypeOK /\ TypeOK'
  BY DEF ReplayInv
<1> SUFFICES ASSUME AsExpected'
             PROVE  /\ rule.kind # "any"
                    /\ \A b \in Arrival : AnsweredFor(b)' =>
                          Covered(Expectation, t', b, onHand' - backlog', pipeline')
  BY <1>0, <1>1, CoverMeansNext
<1>2. AsExpected /\ rule.kind # "any"
  BY <1>0, <1>1, CoverMeans
<1> SUFFICES ASSUME NEW b \in Arrival, AnsweredFor(b)'
             PROVE  Covered(Expectation, t, b, onHand' - backlog', pipeline)
  BY <1>1, <1>2
<1>3. q = Wanted /\ q \in Nat
  BY <1>1, <1>2, ReviewTypes DEF Orders, Answers
<1>4. onHand' = onHand + q
  <2>1. q * factor = q
    BY <1>1, <1>3
  <2> QED
    BY <1>1, <2>1
<1> PICK net \in Int, g \in [Arrival -> Nat] : net = onHand + q - backlog /\ g = pipeline
  BY <1>3, PolicyTypes
<1>5. Position + Wanted = net + SumFunction(g)
  BY <1>2, <1>3, ReviewTypes, PolicyTypes DEF Position
<1>6. \A a \in Arrival : a < t \/ a > t + setting.lead => g[a] = 0
  <2> SUFFICES ASSUME NEW a \in Arrival, a < t \/ a > t + setting.lead
               PROVE  g[a] = 0
    OBVIOUS
  <2>1. a < t \/ a >= t + setting.lead
    BY PolicyTypes DEF Arrival
  <2> QED
    BY <1>1, <2>1, DueInLeadTime
<1>7. \A a \in Arrival : g[a] >= pipeline[a]
  BY PolicyTypes
<1>8. b >= t /\ b >= setting.lead /\ b < t + Window
  BY <1>1, AnsweredAfterReview
<1>9. net >= onHand - backlog
  BY <1>3, PolicyTypes
<1>10. Covered(Expectation, t, b, net, g)
  BY <1>1, <1>2, <1>5, <1>6, <1>7, <1>8, <1>9, ReviewCovers
<1>11. onHand' - backlog' = net
  BY <1>1, <1>3, <1>4, PolicyTypes
<1> QED
  BY <1>1, <1>10, <1>11

\* An order under way lifts what is coming by what the rule wants.
LEMMA OrderUnderWay ==
    ASSUME ReplayInv, ReplayInv', NEW q \in 1..MaxOrder, OrderAhead(q)
    PROVE  /\ SumFunction(pipeline') = SumFunction(pipeline) + q
           /\ \A a \in Arrival : pipeline'[a] >= pipeline[a]
           /\ \A a \in Arrival : a # t + setting.lead => pipeline'[a] = pipeline[a]
<1> PICK p, b : p = pipeline /\ b = t + setting.lead
  OBVIOUS
<1>1. p \in [Arrival -> Nat] /\ pipeline' \in [Arrival -> Nat] /\ q \in Nat
  <2>1. p \in [Arrival -> Nat] /\ pipeline' \in [Arrival -> Nat]
    BY DEF ReplayInv, TypeOK
  <2>2. q \in Nat
    BY SizeAssumption
  <2> QED
    BY <2>1, <2>2
<1> PICK g \in [Arrival -> Nat] : g = pipeline'
  BY <1>1
<1>2. b \in Arrival
  BY PolicyTypes DEF ReplayInv, PipelineInv, Arrival
<1>3. pipeline' = [p EXCEPT ![b] = @ + q]
  BY DEF OrderAhead
<1>4. g[b] = p[b] + q /\ \A a \in Arrival \ {b} : g[a] = p[a]
  BY <1>1, <1>2, <1>3
<1>5. Agree(p, g, Arrival \ {b})
  BY <1>4 DEF Agree
<1>6. /\ IsFiniteSet(Arrival) /\ IntOn(p, Arrival) /\ IntOn(g, Arrival)
      /\ SumFunction(p) = SumFunctionOnSet(p, Arrival)
      /\ SumFunction(g) = SumFunctionOnSet(g, Arrival)
      /\ SumFunction(p) \in Nat
  BY <1>1, PipelineSum
<1>7. SumFunctionOnSet(g, Arrival) = SumFunctionOnSet(p, Arrival) + (g[b] - p[b])
  <2> PICK S : S = Arrival
    OBVIOUS
  <2>1. IsFiniteSet(S) /\ IntOn(p, S) /\ IntOn(g, S) /\ b \in S /\ Agree(p, g, S \ {b})
    BY <1>2, <1>5, <1>6
  <2>2. SumFunctionOnSet(g, S) = SumFunctionOnSet(p, S) + (g[b] - p[b])
    BY <2>1, SumChange
  <2> QED
    BY <2>2
<1>8. g[b] - p[b] = q
  BY <1>1, <1>2, <1>4
<1>9. SumFunction(g) = SumFunction(p) + q
  BY <1>6, <1>7, <1>8
<1>10. \A a \in Arrival : g[a] >= p[a]
  BY <1>1, <1>4
<1> QED
  BY <1>4, <1>9, <1>10

LEMMA AheadCovers ==
    ASSUME rule \in Rules, ReplayInv, ReplayInv', CollectedInv, CoverInv,
           NEW q \in Orders, PolicyAhead(q)
    PROVE  CoverInv'
<1>1. /\ pc = "review" /\ pc' = "serve" /\ t' = t /\ setting' = setting /\ rule' = rule
      /\ onHand' = onHand /\ backlog' = backlog
      /\ AsExpected' => AsExpected
      /\ ReviewDay /\ OrderAhead(q)
  BY DEF PolicyAhead, OrderAhead, As, AsExpected
<1>0. TypeOK /\ TypeOK'
  BY DEF ReplayInv
<1> SUFFICES ASSUME AsExpected'
             PROVE  /\ rule.kind # "any"
                    /\ \A b \in Arrival : AnsweredFor(b)' =>
                          Covered(Expectation, t', b, onHand' - backlog', pipeline')
  BY <1>0, <1>1, CoverMeansNext
<1>2. AsExpected /\ rule.kind # "any"
  BY <1>0, <1>1, CoverMeans
<1> SUFFICES ASSUME NEW b \in Arrival, AnsweredFor(b)'
             PROVE  Covered(Expectation, t, b, onHand - backlog, pipeline')
  BY <1>1, <1>2
<1>3. q = Wanted /\ q \in 1..MaxOrder /\ q \in Nat
  BY <1>1, <1>2, ReviewTypes DEF Orders, Answers
<1>4. /\ SumFunction(pipeline') = SumFunction(pipeline) + q
      /\ \A a \in Arrival : pipeline'[a] >= pipeline[a]
      /\ \A a \in Arrival : a # t + setting.lead => pipeline'[a] = pipeline[a]
  BY <1>1, <1>3, OrderUnderWay
<1> PICK net \in Int, g \in [Arrival -> Nat] : net = onHand - backlog /\ g = pipeline'
  BY <1>0, PolicyTypes DEF TypeOK
<1>5. Position + Wanted = net + SumFunction(g)
  BY <1>2, <1>3, <1>4, ReviewTypes, PolicyTypes DEF Position
<1>6. \A a \in Arrival : a < t \/ a > t + setting.lead => g[a] = 0
  <2> SUFFICES ASSUME NEW a \in Arrival, a < t \/ a > t + setting.lead
               PROVE  g[a] = 0
    OBVIOUS
  <2>1. (a < t \/ a >= t + setting.lead) /\ a # t + setting.lead
    BY PolicyTypes DEF Arrival
  <2> QED
    BY <1>1, <1>4, <2>1, DueInLeadTime
<1>7. b >= t /\ b >= setting.lead /\ b < t + Window
  BY <1>1, AnsweredAfterReview
<1>8. net >= onHand - backlog
  OBVIOUS
<1>9. \A a \in Arrival : g[a] >= pipeline[a]
  BY <1>4
<1>10. Covered(Expectation, t, b, net, g)
  BY <1>1, <1>2, <1>5, <1>6, <1>7, <1>8, <1>9, ReviewCovers
<1> QED
  BY <1>10

\* Each step empties the pipeline behind it and fills it ahead only.
LEMMA CollectedStep ==
    ASSUME ReplayInv, ReplayInv', CollectedInv, [Next]_vars
    PROVE  CollectedInv'
<1> SUFFICES ASSUME NEW a \in Arrival, a < NextArrival'
             PROVE  pipeline'[a] = 0
  BY DEF CollectedInv
<1> PICK p, m : p = pipeline /\ m = t
  OBVIOUS
<1>1. p \in [Arrival -> Nat] /\ m \in Nat /\ a \in Nat /\ setting.lead \in Nat
  BY PolicyTypes DEF Arrival
<1>2. a < NextArrival => p[a] = 0
  BY DEF CollectedInv
<1>3. ASSUME NEW factor \in {0, 1}, Collect(factor) PROVE pipeline'[a] = 0
  <2>1. pipeline' = [p EXCEPT ![m] = 0] /\ NextArrival = m /\ NextArrival' = m + 1
    BY <1>3 DEF Collect, NextArrival
  <2>2. a = m \/ a < m
    BY <1>1, <2>1
  <2> QED
    BY <1>1, <1>2, <2>1, <2>2
<1>4. CASE OrderNothing
  BY <1>2, <1>4 DEF OrderNothing, NextArrival
<1>5. ASSUME NEW q \in 1..MaxOrder, NEW factor \in {0, 1}, OrderForToday(q, factor)
      PROVE  pipeline'[a] = 0
  BY <1>2, <1>5 DEF OrderForToday, NextArrival
<1>6. ASSUME NEW q \in 1..MaxOrder, OrderAhead(q) PROVE pipeline'[a] = 0
  <2>1. /\ pipeline' = [p EXCEPT ![m + setting.lead] = @ + q]
        /\ setting.lead > 0 /\ NextArrival = m + 1 /\ NextArrival' = m + 1
    BY <1>6 DEF OrderAhead, NextArrival
  <2>2. a # m + setting.lead
    BY <1>1, <2>1
  <2> QED
    BY <1>1, <1>2, <2>1, <2>2
<1>7. ASSUME NEW q \in 0..MaxDemand, Serve(q) PROVE pipeline'[a] = 0
  BY <1>2, <1>7 DEF Serve, NextArrival
<1>8. CASE UNCHANGED vars
  BY <1>2, <1>8 DEF vars, NextArrival
<1> QED
  BY <1>3, <1>4, <1>5, <1>6, <1>7, <1>8 DEF Next

\* Before the first review no bucket is answered for.
LEMMA PolicyInitInv == PolicyInit => PolicyInv
<1> SUFFICES ASSUME PolicyInit PROVE PolicyInv
  OBVIOUS
<1>1. Init /\ rule \in Rules /\ came = (rule.kind # "any")
  BY DEF PolicyInit
<1>2. ReplayInv
  BY <1>1, InitInv
<1>3. CollectedInv
  BY <1>1 DEF Init, CollectedInv, Arrival
<1>4. CoverInv
  <2> SUFFICES ASSUME NEW b \in Arrival, AnsweredFor(b) PROVE FALSE
    BY <1>1 DEF CoverInv, AsExpected
  <2> PICK L, R : L = setting.lead /\ R = setting.review
    OBVIOUS
  <2>1. L \in Nat /\ R \in Nat /\ R > 0 /\ b \in Nat
    BY <1>2, PolicyTypes DEF Arrival
  <2>2. ReviewsAhead = {r \in 0..(0 + R) : r % R = 0}
    BY <1>1 DEF Init, ReviewsAhead
  <2>3. 0 % R = 0 /\ 0 \in 0..(0 + R)
    BY <2>1
  <2>4. 0 \in ReviewsAhead
    BY <2>2, <2>3
  <2>5. b >= L /\ b < 0 + L
    BY <2>4 DEF AnsweredFor
  <2> QED
    BY <2>1, <2>5
<1> QED
  BY <1>1, <1>2, <1>3, <1>4 DEF PolicyInv

LEMMA PolicyStepInv ==
    ASSUME PolicyInv, [PolicyNext]_<<vars, rule, came>>
    PROVE  PolicyInv'
<1> USE DEF PolicyInv
<1>1. [Next]_vars
  BY PolicyStep
<1>2. ReplayInv'
  BY <1>1, StepInv
<1>3. CollectedInv'
  BY <1>1, <1>2, CollectedStep
<1>4. rule' = rule
  BY DEF PolicyNext, PolicyCollect, PolicySilent, PolicyForToday, PolicyAhead, PolicyServe, As
<1>5. CoverInv'
  <2>1. ASSUME NEW factor \in {0, 1}, PolicyCollect(factor) PROVE CoverInv'
    BY <1>2, <2>1, CollectCovers
  <2>2. CASE PolicySilent
    BY <1>2, <2>2, SilentCovers
  <2>3. ASSUME NEW q \in Orders, NEW factor \in {0, 1}, PolicyForToday(q, factor)
        PROVE  CoverInv'
    BY <1>2, <2>3, ForTodayCovers
  <2>4. ASSUME NEW q \in Orders, PolicyAhead(q) PROVE CoverInv'
    BY <1>2, <2>4, AheadCovers
  <2>5. ASSUME NEW q \in 0..MaxDemand, PolicyServe(q) PROVE CoverInv'
    BY <1>2, <2>5, ServeCovers
  <2>6. CASE UNCHANGED <<vars, rule, came>>
    BY <2>6 DEF vars, CoverInv, AsExpected, AnsweredFor, ReviewsAhead, Expected
  <2> QED
    BY <2>1, <2>2, <2>3, <2>4, <2>5, <2>6 DEF PolicyNext
<1> QED
  BY <1>2, <1>3, <1>4, <1>5

\* The invariant holds under every rule.
LEMMA PolicyInvHolds == PolicySpec => []PolicyInv
<1>1. PolicyInv /\ [PolicyNext]_<<vars, rule, came>> => PolicyInv'
  BY PolicyStepInv
<1> QED
  BY <1>1, PolicyInitInv, PTL DEF PolicySpec

\* The protection window of the policies is long enough: while plant and
\* customers do as the rule expects, everyone is served on the day from the bucket
\* the first order can arrive in, for every lead time, review period, forecast,
\* lot and opening stock.
THEOREM ExpectedDemandAlwaysServed == PolicySpec => ExpectedDemandIsServed
<1>1. ASSUME PolicyInv, [PolicyNext]_<<vars, rule, came>>,
             AsExpected', t' > t, t >= setting.lead
      PROVE  counts'.onTime - counts.onTime = Expected(t)
  <2> USE DEF PolicyInv
  <2>1. PICK q \in 0..MaxDemand : PolicyServe(q)
    <3>1. t \in Nat /\ ~(t > t)
      BY <1>1, PolicyTypes
    <3> QED
      BY <1>1, <3>1 DEF PolicyNext, PolicyCollect, PolicySilent, PolicyForToday, PolicyAhead,
                        Collect, OrderNothing, OrderForToday, OrderAhead, vars
  <2>2. Serve(q) /\ AsExpected /\ q = Expected(t) /\ pc = "serve"
    BY <1>1, <2>1 DEF PolicyServe, As, AsExpected, Serve
  <2> PICK E, p, m, L, n : E = Expectation /\ p = pipeline /\ m = t /\ L = setting.lead /\ n = q
    OBVIOUS
  <2>3. /\ m \in Nat /\ L \in Nat /\ p \in [Arrival -> Nat] /\ m \in Arrival /\ n \in Nat
        /\ onHand \in Nat /\ backlog \in Nat
    <3>1. m \in Nat /\ m <= Horizon /\ L \in Nat /\ p \in [Arrival -> Nat]
          /\ onHand \in Nat /\ backlog \in Nat
      BY <1>1, PolicyTypes
    <3> QED
      BY <3>1, SizeAssumption DEF Arrival
  <2>4. rule.kind # "any" /\ E \in [Nat -> Nat]
    BY <1>1, <2>2, CoverMeans, ForecastTypes DEF ReplayInv
  <2>5. AnsweredFor(m)
    <3>1. \A r \in ReviewsAhead : r \in Int /\ r >= m + 1
      BY <1>1, <2>2, <2>3, PolicyTypes DEF ReviewsAhead
    <3>2. \A r \in ReviewsAhead : m < r + L
      BY <2>3, <3>1
    <3> QED
      BY <1>1, <2>3, <3>2 DEF AnsweredFor
  <2>6. Covered(E, m, m, onHand - backlog, p)
    BY <1>1, <2>2, <2>3, <2>5, CoverMeans DEF ReplayInv
  <2>7. SumFunctionOnSet(E, m..m) = E[m] /\ SumFunctionOnSet(p, m..m) = p[m]
    <3>1. E[m] \in Nat /\ p[m] \in Nat
      BY <2>3, <2>4
    <3> QED
      BY <2>3, <3>1, SpanOfOne
  <2>8. E[m] = n /\ p[m] = 0
    <3>1. E[m] = n
      BY <2>2, <2>3 DEF Expectation
    <3>2. m < NextArrival
      BY <2>2, <2>3 DEF NextArrival
    <3> QED
      BY <1>1, <2>3, <3>1, <3>2 DEF CollectedInv
  <2>9. n <= onHand - backlog
    BY <2>3, <2>6, <2>7, <2>8 DEF Covered
  <2> PICK h \in Nat, l \in Nat : h = onHand /\ l = backlog /\ n <= h - l
    BY <2>3, <2>9
  <2>10. Less(h, n + l) = n + l /\ PaidOff(n + l, n) = l
    BY <2>3 DEF Less, PaidOff
  <2>11. counts' = [counts EXCEPT !.demanded = @ + n, !.served = @ + (n + l),
                                  !.onTime = @ + ((n + l) - l)]
    BY <2>2, <2>10 DEF Serve
  <2>12. counts'.onTime = counts.onTime + ((n + l) - l) /\ counts.onTime \in Nat
    BY <1>1, <2>11 DEF ReplayInv, TypeOK, Counts
  <2> QED
    BY <2>2, <2>3, <2>12
<1>2. PolicyInv /\ [PolicyNext]_<<vars, rule, came>> =>
        [AsExpected' /\ t' > t /\ t >= setting.lead =>
           counts'.onTime - counts.onTime = Expected(t)]_<<vars, rule, came>>
  BY <1>1
<1> QED
  BY <1>2, PolicyInvHolds, PTL DEF PolicySpec, ExpectedDemandIsServed

\* An answer never aims past the target and one lot.
LEMMA WantedIsBounded ==
    ASSUME rule \in Rules, rule.kind # "any", ReplayInv, Wanted > 0
    PROVE  Position + Wanted < Target + (IF rule.lot > 0 THEN rule.lot ELSE 1)
<1>1. /\ Target \in Int /\ Position \in Int /\ Shortfall \in Nat /\ Wanted \in Nat
      /\ rule.lot \in Nat
      /\ rule.kind \in {"up_to", "moving_average", "reorder_point"}
  BY ReviewTypes
<1> PICK s \in Nat, lot \in Nat, T \in Int, P \in Int, w \in Nat :
       s = Shortfall /\ lot = rule.lot /\ T = Target /\ P = Position /\ w = Wanted
  BY <1>1
<1>2. P < T => P + s = T
  BY DEF Shortfall
<1>3. ~(P < T) => s = 0
  BY DEF Shortfall
<1>4. /\ RoundUp(s, lot) \in Nat /\ s = 0 => RoundUp(s, lot) = 0
      /\ RoundUp(s, lot) < s + (IF lot > 0 THEN lot ELSE 1)
  BY RoundUpBounds
<1>5. w \in {0, RoundUp(s, lot), s}
  BY <1>1 DEF Wanted
<1>6. s > 0 /\ P + s = T
  BY <1>2, <1>3, <1>4, <1>5
<1>7. w < s + (IF lot > 0 THEN lot ELSE 1)
  BY <1>4, <1>5
<1>8. P + w < T + (IF lot > 0 THEN lot ELSE 1)
  BY <1>6, <1>7
<1> QED
  BY <1>8

\* Goods that arrive were counted while they were on their way.
LEMMA CollectLowers ==
    ASSUME ReplayInv, ReplayInv', NEW factor \in {0, 1}, Collect(factor)
    PROVE  ~(Held' > Held)
<1> PICK p, m : p = pipeline /\ m = t
  OBVIOUS
<1>1. p \in [Arrival -> Nat] /\ pipeline' \in [Arrival -> Nat] /\ m \in Arrival
      /\ onHand \in Nat /\ backlog \in Nat
  <2>1. p \in [Arrival -> Nat] /\ m \in Nat /\ m <= Horizon
        /\ onHand \in Nat /\ backlog \in Nat
    BY PolicyTypes
  <2>2. pipeline' \in [Arrival -> Nat]
    BY DEF ReplayInv, TypeOK
  <2> QED
    BY <2>1, <2>2, SizeAssumption DEF Arrival
<1> PICK g \in [Arrival -> Nat] : g = pipeline'
  BY <1>1
<1>2. /\ pipeline' = [p EXCEPT ![m] = 0]
      /\ onHand' = onHand + p[m] * factor /\ backlog' = backlog
  BY DEF Collect, TurnUp
<1>3. g[m] = 0 /\ \A a \in Arrival \ {m} : g[a] = p[a]
  BY <1>1, <1>2
<1>4. Agree(p, g, Arrival \ {m})
  BY <1>3 DEF Agree
<1>5. /\ IsFiniteSet(Arrival) /\ IntOn(p, Arrival) /\ IntOn(g, Arrival)
      /\ SumFunction(p) = SumFunctionOnSet(p, Arrival)
      /\ SumFunction(g) = SumFunctionOnSet(g, Arrival)
      /\ SumFunction(p) \in Nat /\ SumFunction(g) \in Nat
  BY <1>1, PipelineSum
<1>6. SumFunctionOnSet(g, Arrival) = SumFunctionOnSet(p, Arrival) + (g[m] - p[m])
  <2> PICK S : S = Arrival
    OBVIOUS
  <2>1. IsFiniteSet(S) /\ IntOn(p, S) /\ IntOn(g, S) /\ m \in S /\ Agree(p, g, S \ {m})
    BY <1>1, <1>4, <1>5
  <2>2. SumFunctionOnSet(g, S) = SumFunctionOnSet(p, S) + (g[m] - p[m])
    BY <2>1, SumChange
  <2> QED
    BY <2>2
<1> PICK d \in Nat : d = p[m]
  BY <1>1
<1>7. SumFunction(g) = SumFunction(p) - d
  BY <1>3, <1>5, <1>6
<1>8. onHand' <= onHand + d
  <2>1. d * factor <= d
    OBVIOUS
  <2> QED
    BY <1>1, <1>2, <2>1
<1> PICK x \in Nat, y \in Nat, h \in Nat, l \in Nat, u \in Nat :
       x = SumFunction(p) /\ y = SumFunction(g) /\ h = onHand /\ l = backlog /\ u = onHand'
  BY <1>1, <1>5 DEF ReplayInv, TypeOK
<1>9. y = x - d /\ u <= h + d
  BY <1>7, <1>8
<1>10. ~(u + y - l > h + x - l)
  BY <1>9
<1> QED
  BY <1>2, <1>10 DEF Held

\* An order lifts the position by what the rule wants, if it turns up.
LEMMA ReviewLifts ==
    ASSUME rule \in Rules, rule.kind # "any", ReplayInv, NEW q \in Orders, Held' > Held
    PROVE  /\ \A factor \in {0, 1} : PolicyForToday(q, factor) =>
                 pc = "review" /\ Held' = Held + Wanted /\ Wanted > 0
           /\ ReplayInv' /\ PolicyAhead(q) =>
                 pc = "review" /\ Held' = Held + Wanted /\ Wanted > 0
<1>1. Wanted \in Nat /\ onHand \in Nat /\ backlog \in Nat /\ SumFunction(pipeline) \in Nat
  BY PolicyTypes, ReviewTypes
<1>2. q \in 1..MaxOrder /\ q \in Nat /\ q > 0
  BY SizeAssumption DEF Orders
<1>3. ReviewDay => q = Wanted
  BY DEF Orders, Answers
<1>4. ASSUME NEW factor \in {0, 1}, PolicyForToday(q, factor)
      PROVE  pc = "review" /\ Held' = Held + Wanted /\ Wanted > 0
  <2>1. /\ pc = "review" /\ ReviewDay /\ onHand' = onHand + q * factor
        /\ backlog' = backlog /\ pipeline' = pipeline
    BY <1>4 DEF PolicyForToday, OrderForToday
  <2>2. factor = 1
    <3> SUFFICES ASSUME factor = 0 PROVE FALSE
      OBVIOUS
    <3>1. onHand' = onHand
      BY <1>1, <1>2, <2>1
    <3> QED
      BY <1>1, <2>1, <3>1 DEF Held
  <2>3. onHand' = onHand + q
    BY <1>2, <2>1, <2>2
  <2> QED
    BY <1>1, <1>2, <1>3, <2>1, <2>3 DEF Held
<1>5. ASSUME ReplayInv', PolicyAhead(q)
      PROVE  pc = "review" /\ Held' = Held + Wanted /\ Wanted > 0
  <2>1. /\ pc = "review" /\ ReviewDay /\ onHand' = onHand /\ backlog' = backlog
        /\ OrderAhead(q)
    BY <1>5 DEF PolicyAhead, OrderAhead
  <2>2. SumFunction(pipeline') = SumFunction(pipeline) + q
    BY <1>2, <1>5, <2>1, OrderUnderWay
  <2> QED
    BY <1>1, <1>2, <1>3, <2>1, <2>2 DEF Held
<1> QED
  BY <1>4, <1>5

\* No review lifts the position past the rule's target and one lot, however many
\* orders are still on their way, and no other step lifts it at all: an order
\* that is under way is not ordered again.
THEOREM PoliciesNeverOrderTwice == PolicySpec => NeverOrderedTwice
<1>1. ASSUME PolicyInv, [PolicyNext]_<<vars, rule, came>>, rule.kind # "any", Held' > Held
      PROVE  pc = "review" /\ Held' < Target + (IF rule.lot > 0 THEN rule.lot ELSE 1)
  <2> USE DEF PolicyInv
  <2>0. ReplayInv'
    BY <1>1, PolicyStep, StepInv
  <2>1. /\ onHand \in Nat /\ backlog \in Nat /\ SumFunction(pipeline) \in Nat
        /\ onHand' \in Nat /\ backlog' \in Nat /\ SumFunction(pipeline') \in Nat
        /\ pipeline \in [Arrival -> Nat] /\ pipeline' \in [Arrival -> Nat]
    <3>1. pipeline \in [Arrival -> Nat] /\ onHand \in Nat /\ backlog \in Nat
      BY <1>1, PolicyTypes
    <3>2. pipeline' \in [Arrival -> Nat] /\ onHand' \in Nat /\ backlog' \in Nat
      BY <2>0 DEF ReplayInv, TypeOK
    <3> QED
      BY <3>1, <3>2, PipelineSum
  <2>2. Held = Position
    BY <2>1 DEF Held, Position
  <2>3. Held' = onHand' + SumFunction(pipeline') - backlog'
    BY DEF Held
  <2>4. ASSUME NEW factor \in {0, 1}, PolicyCollect(factor) PROVE FALSE
    BY <1>1, <2>0, <2>4, CollectLowers DEF PolicyCollect
  <2>5. ASSUME PolicySilent PROVE FALSE
    BY <1>1, <2>1, <2>5 DEF PolicySilent, OrderNothing, Held
  <2>6. ASSUME NEW q \in Orders, NEW factor \in {0, 1}, PolicyForToday(q, factor)
        PROVE  pc = "review" /\ Held' = Held + Wanted /\ Wanted > 0
    BY <1>1, <2>1, <2>6, ReviewLifts
  <2>7. ASSUME NEW q \in Orders, PolicyAhead(q)
        PROVE  pc = "review" /\ Held' = Held + Wanted /\ Wanted > 0
    BY <1>1, <2>0, <2>1, <2>7, ReviewLifts
  <2>8. ASSUME NEW q \in 0..MaxDemand, PolicyServe(q) PROVE FALSE
    <3>1. Serve(q) /\ pipeline' = pipeline
      BY <2>8 DEF PolicyServe, Serve
    <3>2. onHand' - backlog' <= onHand - backlog
      BY <1>1, <3>1, ServeNet
    <3> PICK h \in Int, l \in Int, u \in Int, v \in Int, x \in Int :
           /\ h = onHand /\ l = backlog /\ u = onHand' /\ v = backlog'
           /\ x = SumFunction(pipeline)
      BY <2>1
    <3>3. u - v <= h - l
      BY <3>2
    <3>4. \A a, b, c, d, e \in Int : a - b <= c - d => ~(a + e - b > c + e - d)
      OBVIOUS
    <3>5. ~(u + x - v > h + x - l)
      BY <3>3, <3>4, Zenon
    <3> QED
      BY <1>1, <3>1, <3>5 DEF Held
  <2>9. ASSUME UNCHANGED <<vars, rule, came>> PROVE FALSE
    BY <1>1, <2>1, <2>9 DEF vars, Held
  <2>10. pc = "review" /\ Held' = Held + Wanted /\ Wanted > 0
    BY <1>1, <2>4, <2>5, <2>6, <2>7, <2>8, <2>9 DEF PolicyNext
  <2> QED
    BY <1>1, <2>2, <2>10, WantedIsBounded
<1>2. PolicyInv /\ [PolicyNext]_<<vars, rule, came>> =>
        [rule.kind # "any" /\ Held' > Held =>
           /\ pc = "review"
           /\ Held' < Target + (IF rule.lot > 0 THEN rule.lot ELSE 1)
        ]_<<vars, rule, came>>
  BY <1>1
<1> QED
  BY <1>2, PolicyInvHolds, PTL DEF PolicySpec, NeverOrderedTwice

------------------------------------------------------------------------------
(***************************************************************************)
(* One series.                                                             *)
(***************************************************************************)
Pattern == {"unusable", "lumpy", "intermittent", "erratic", "smooth"}

LEMMA Splits == Holdout \in Nat /\ FoldLength \in Nat \ {0} /\ Week \in Nat \ {0}
BY WindowAssumption

LEMMA EveryPattern ==
    ASSUME NEW s
    PROVE  Classify(s) \in Pattern
BY DEF Classify, Pattern

LEMMA Pieces ==
    ASSUME NEW s \in Seq(Int), NEW n \in Nat, n <= Len(s)
    PROVE  /\ First(s, n) \in Seq(Int) /\ Len(First(s, n)) = n
           /\ Last(s, n) \in Seq(Int) /\ Len(Last(s, n)) = n
BY DEF First, Last

\* A forecast has a value for every bucket, none of them negative; unless the naive
\* forecast stands in, they are the fit's, clamped.
LEMMA ForecastIsSound ==
    ASSUME NEW pattern \in Pattern, NEW train \in Seq(Int), NEW fit \in Fits,
           NEW n \in Nat, n = Holdout \/ n = FoldLength,
           NEW f, f = Forecast(pattern, train, fit, n)
    PROVE  /\ f.finite
           /\ f.values \in [1..n -> Nat]
           /\ ModelForPattern[pattern] # "SeasonalNaive" /\ ~fit.raises /\ fit.finite =>
                 f.values = [b \in 1..n |-> IF fit.values[b] > 0 THEN fit.values[b] ELSE 0]
<1>1. fit.raises \in BOOLEAN /\ fit.finite \in BOOLEAN /\ fit.trend \in BOOLEAN
  BY FitAssumption
<1>2. ASSUME NEW g \in [1..n -> Int]
      PROVE  Clamp(g) \in [1..n -> Nat]
  BY DEF Clamp
<1>3. CASE ModelForPattern[pattern] = "SeasonalNaive" \/ FallsBack(pattern, fit)
  <2>1. f = [values |-> Clamp(SeasonalNaive(train, n)), finite |-> TRUE]
    BY <1>3 DEF Forecast
  <2>2. SeasonalNaive(train, n) \in [1..n -> Int]
    <3> PICK m \in Nat \ {0} : m = SeasonalPeriod
      BY WindowAssumption DEF SeasonalPeriod
    <3>1. ASSUME NEW b \in 1..n, train # <<>>
          PROVE  (IF Len(train) < m THEN train[Len(train)]
                  ELSE Last(train, m)[((b - 1) % m) + 1]) \in Int
      <4>1. CASE Len(train) < m
        BY <3>1, <4>1
      <4>2. CASE ~(Len(train) < m)
        <5>1. Last(train, m) \in Seq(Int) /\ Len(Last(train, m)) = m
          BY <4>2, Pieces
        <5>2. ((b - 1) % m) + 1 \in 1..m
          BY SMTT(20)
        <5> QED
          BY <4>2, <5>1, <5>2
      <4> QED
        BY <4>1, <4>2
    <3> QED
      BY <3>1 DEF SeasonalNaive
  <2>3. ~(ModelForPattern[pattern] # "SeasonalNaive" /\ ~fit.raises /\ fit.finite)
    BY <1>3 DEF FallsBack
  <2> QED
    BY <1>2, <2>1, <2>2, <2>3
<1>4. CASE ~(ModelForPattern[pattern] = "SeasonalNaive" \/ FallsBack(pattern, fit))
  <2>1. f = [values |-> Clamp(First(fit.values, n)), finite |-> fit.finite]
    BY <1>4 DEF Forecast
  <2>2. ~fit.raises /\ fit.finite
    BY <1>4 DEF FallsBack
  <2>3. PICK v : v = fit.values
    OBVIOUS
  <2>4. v \in Seq(Int) /\ n <= Len(v)
    BY <2>2, <2>3, FitAssumption, WindowAssumption
  <2>5. First(v, n) \in [1..n -> Int] /\ \A b \in 1..n : First(v, n)[b] = v[b]
    <3>1. First(v, n) \in Seq(Int) /\ Len(First(v, n)) = n
      BY <2>4, Pieces
    <3>2. \A b \in 1..n : First(v, n)[b] = v[b]
      BY <2>4 DEF First
    <3> QED
      BY <3>1, <3>2
  <2>6. Clamp(First(v, n)) = [b \in 1..n |-> IF v[b] > 0 THEN v[b] ELSE 0]
    BY <2>5 DEF Clamp
  <2> QED
    BY <1>2, <2>1, <2>2, <2>3, <2>5, <2>6
<1> QED
  BY <1>3, <1>4

------------------------------------------------------------------------------
(***************************************************************************)
(* The rungs of the ladder, each a walk over the holdout.                  *)
(***************************************************************************)
LEMMA LotForCovers ==
    ASSUME NEW need \in Nat, NEW lot, IsLot(lot)
    PROVE  LotFor(need, lot) \in Nat /\ LotFor(need, lot) >= need
<1>1. CASE need = 0
  <2>1. LotFor(need, lot) = 0
    BY <1>1 DEF LotFor
  <2> QED
    BY <1>1, <2>1
<1>2. CASE need > 0 /\ lot.policy = "lot_for_lot"
  <2>1. LotFor(need, lot) = need
    BY <1>2 DEF LotFor
  <2> QED
    BY <2>1
<1>3. CASE need > 0 /\ lot.policy = "fixed_qty"
  <2> PICK size \in Nat \ {0} : size = lot.qty
    BY <1>3 DEF IsLot
  <2> PICK q : q = (need + size - 1) \div size
    OBVIOUS
  <2>1. q \in Nat /\ q * size >= need
    BY SMTT(30)
  <2>2. q * size \in Nat
    BY <2>1
  <2>3. LotFor(need, lot) = q * size
    BY <1>3 DEF LotFor
  <2> QED
    BY <2>1, <2>2, <2>3
<1>4. CASE need > 0 /\ lot.policy = "min_max"
  <2>1. LotFor(need, lot) = IF need < lot.qty THEN lot.qty ELSE need
    BY <1>4 DEF LotFor
  <2>2. lot.qty \in Nat
    BY DEF IsLot
  <2> QED
    BY <2>1, <2>2
<1>5. need = 0 \/ need > 0
  OBVIOUS
<1> QED
  BY <1>1, <1>2, <1>3, <1>4, <1>5 DEF IsLot

LEMMA LotForLotIsNeed ==
    IsLot(LotForLot) /\ \A need \in Nat : LotFor(need, LotForLot) = need
BY DEF IsLot, LotFor, LotForLot

\* What the bucket of a plan, of the replay of one and of a simulation closes at.
PlanStep(x, d, safety, lot) == x + LotFor(LessThan(x, d + safety), lot) - d
ReplayStep(x, r, d, truncate) == LET left == x + r - d IN IF truncate /\ left < 0 THEN 0 ELSE left
SimulateStep(x, r, d) == LET stock == x + r IN stock - (IF stock < d THEN stock ELSE d)

\* A plan leaves safety stock at least, and at least what was there.
LEMMA PlanSteps ==
    ASSUME NEW x \in Int, NEW d \in Int, NEW safety \in Nat, NEW lot, IsLot(lot)
    PROVE  /\ PlanStep(x, d, safety, lot) \in Int
           /\ PlanStep(x, d, safety, lot) >= safety
           /\ PlanStep(x, d, safety, lot) >= x - d
           /\ lot = LotForLot => PlanStep(x, d, safety, lot) = IF x - d >= safety THEN x - d ELSE safety
<1> PICK need : need = LessThan(x, d + safety)
  OBVIOUS
<1>1. need \in Nat /\ need >= d + safety - x /\ need = IF x - d >= safety THEN 0 ELSE d + safety - x
  BY DEF LessThan
<1> PICK q : q = LotFor(need, lot)
  OBVIOUS
<1>2. q \in Nat /\ q >= need /\ (lot = LotForLot => q = need)
  BY <1>1, LotForCovers, LotForLotIsNeed
<1>3. PlanStep(x, d, safety, lot) = x + q - d
  BY DEF PlanStep
<1>4. /\ x + q - d \in Int /\ x + q - d >= safety /\ x + q - d >= x - d
      /\ lot = LotForLot => x + q - d = IF x - d >= safety THEN x - d ELSE safety
  BY <1>1, <1>2
<1> QED
  BY <1>3, <1>4, Zenon

\* A walk from opening: each bucket follows from the one before.
PlanWalk(g, forecast, opening, safety, lot) ==
    /\ g \in [0..Len(forecast) -> Int]
    /\ g[0] = opening
    /\ \A b \in 1..Len(forecast) : g[b] = PlanStep(g[b - 1], forecast[b], safety, lot)

LEMMA PlanWalks ==
    ASSUME NEW forecast \in Seq(Int), NEW opening \in Int, NEW safety \in Nat, NEW lot, IsLot(lot)
    PROVE  PlanWalk(Plan(forecast, opening, safety, lot), forecast, opening, safety, lot)
<1> DEFINE Is(g) == g = [b \in 0..Len(forecast) |-> IF b = 0 THEN opening ELSE PlanStep(g[b - 1], forecast[b], safety, lot)]
<1>n. PICK n \in Nat : n = Len(forecast)
  OBVIOUS
<1>0. PICK step : step = [p \in (1..n) \X Int |-> PlanStep(p[2], forecast[p[1]], safety, lot)]
  OBVIOUS
<1>1. ASSUME NEW b \in 1..n, NEW x \in Int
      PROVE  step[<<b, x>>] = PlanStep(x, forecast[b], safety, lot) /\ PlanStep(x, forecast[b], safety, lot) \in Int
  <2>1. forecast[b] \in Int
    BY <1>n
  <2>2. PlanStep(x, forecast[b], safety, lot) \in Int
    BY <2>1, PlanSteps
  <2>3. step[<<b, x>>] = PlanStep(x, forecast[b], safety, lot)
    BY <1>0
  <2> QED
    BY <2>2, <2>3
<1>2. PICK f \in [0..n -> Int] : f[0] = opening /\ \A b \in 1..n : f[b] = step[<<b, f[b - 1]>>]
  <2>1. Stepping(step, n, Int)
    BY <1>1 DEF Stepping
  <2>2. PICK f \in [0..n -> Int] : Walks(f, step, opening, n)
    BY <2>1, Walk
  <2> QED
    BY <2>2 DEF Walks
<1>3. ASSUME NEW b \in 1..n PROVE f[b] = PlanStep(f[b - 1], forecast[b], safety, lot)
  <2>1. f[b - 1] \in Int
    OBVIOUS
  <2> QED
    BY <1>1, <1>2, <2>1
<1>4. Is(f)
  <2>1. f = [b \in 0..n |-> f[b]]
    BY <1>2
  <2>2. \A b \in 0..n : f[b] = IF b = 0 THEN opening ELSE PlanStep(f[b - 1], forecast[b], safety, lot)
    <3>1. \A b \in 0..n : b = 0 \/ b \in 1..n
      OBVIOUS
    <3> QED
      BY <1>2, <1>3, <3>1, Zenon
  <2>3. f = [b \in 0..n |-> IF b = 0 THEN opening ELSE PlanStep(f[b - 1], forecast[b], safety, lot)]
    BY <2>1, <2>2, Zenon
  <2> QED
    BY <1>n, <2>3, Zenon
<1>5. PICK g : g = Plan(forecast, opening, safety, lot)
  OBVIOUS
<1>6. Is(g)
  BY <1>4, <1>5, Zenon DEF Plan, PlanStep
<1>7. /\ g[0] = opening /\ DOMAIN g = 0..n
      /\ g = [b \in 0..n |-> g[b]]
      /\ \A b \in 1..n : g[b] = PlanStep(g[b - 1], forecast[b], safety, lot)
  <2> PICK h : h = [b \in 0..n |-> IF b = 0 THEN opening ELSE PlanStep(g[b - 1], forecast[b], safety, lot)]
    OBVIOUS
  <2>1. g = h
    BY <1>n, <1>6, Zenon
  <2>2. /\ h[0] = opening /\ DOMAIN h = 0..n /\ h = [b \in 0..n |-> h[b]]
        /\ \A b \in 1..n : h[b] = PlanStep(g[b - 1], forecast[b], safety, lot)
    OBVIOUS
  <2> QED
    BY <2>1, <2>2, Zenon
<1>8. \A b \in 0..n : g[b] \in Int
  <2> DEFINE Good == {j \in 0..n : g[j] \in Int}
  <2>1. 0 \in Good
    BY <1>7
  <2>2. ASSUME NEW b \in 1..n, b - 1 \in Good PROVE b \in Good
    <3>1. g[b - 1] \in Int
      BY <2>2
    <3>2. g[b] = PlanStep(g[b - 1], forecast[b], safety, lot)
      BY <1>7
    <3>3. PlanStep(g[b - 1], forecast[b], safety, lot) \in Int
      BY <1>1, <3>1
    <3> QED
      BY <3>2, <3>3
  <2>3. Inductive(Good, n)
    BY <2>1, <2>2 DEF Inductive
  <2> HIDE DEF Good
  <2>4. 0..n \subseteq Good
    BY <2>3, Along
  <2> QED
    BY <2>4 DEF Good
<1>9. g \in [0..n -> Int]
  BY <1>7, <1>8
<1> QED
  BY <1>5, <1>7, <1>9, <1>n DEF PlanWalk

ReplayWalk(g, arriving, asked, opening, truncate) ==
    /\ g \in [0..Len(asked) -> Int]
    /\ g[0] = opening
    /\ \A b \in 1..Len(asked) : g[b] = ReplayStep(g[b - 1], arriving[b], asked[b], truncate)

LEMMA ReplayWalks ==
    ASSUME NEW asked \in Seq(Int), NEW arriving \in [1..Len(asked) -> Int], NEW opening \in Int,
           NEW truncate \in BOOLEAN
    PROVE  ReplayWalk(ReplaySchedule(arriving, asked, opening, truncate), arriving, asked, opening, truncate)
<1> DEFINE Is(g) == g = [b \in 0..Len(asked) |-> IF b = 0 THEN opening ELSE ReplayStep(g[b - 1], arriving[b], asked[b], truncate)]
<1>n. PICK n \in Nat : n = Len(asked)
  OBVIOUS
<1>0. PICK step : step = [p \in (1..n) \X Int |-> ReplayStep(p[2], arriving[p[1]], asked[p[1]], truncate)]
  OBVIOUS
<1>1. ASSUME NEW b \in 1..n, NEW x \in Int
      PROVE  step[<<b, x>>] = ReplayStep(x, arriving[b], asked[b], truncate) /\ ReplayStep(x, arriving[b], asked[b], truncate) \in Int
  <2>1. asked[b] \in Int /\ arriving[b] \in Int
    BY <1>n
  <2>2. ReplayStep(x, arriving[b], asked[b], truncate) \in Int
    BY <2>1 DEF ReplayStep
  <2>3. step[<<b, x>>] = ReplayStep(x, arriving[b], asked[b], truncate)
    BY <1>0
  <2> QED
    BY <2>2, <2>3
<1>2. PICK f \in [0..n -> Int] : f[0] = opening /\ \A b \in 1..n : f[b] = step[<<b, f[b - 1]>>]
  <2>1. Stepping(step, n, Int)
    BY <1>1 DEF Stepping
  <2>2. PICK f \in [0..n -> Int] : Walks(f, step, opening, n)
    BY <2>1, Walk
  <2> QED
    BY <2>2 DEF Walks
<1>3. ASSUME NEW b \in 1..n PROVE f[b] = ReplayStep(f[b - 1], arriving[b], asked[b], truncate)
  <2>1. f[b - 1] \in Int
    OBVIOUS
  <2> QED
    BY <1>1, <1>2, <2>1
<1>4. Is(f)
  BY <1>n, <1>2, <1>3
<1>5. PICK g : g = ReplaySchedule(arriving, asked, opening, truncate)
  OBVIOUS
<1>6. Is(g)
  BY <1>4, <1>5, Zenon DEF ReplaySchedule, ReplayStep
<1>7. /\ g[0] = opening /\ DOMAIN g = 0..n
      /\ g = [b \in 0..n |-> g[b]]
      /\ \A b \in 1..n : g[b] = ReplayStep(g[b - 1], arriving[b], asked[b], truncate)
  <2> PICK h : h = [b \in 0..n |-> IF b = 0 THEN opening ELSE ReplayStep(g[b - 1], arriving[b], asked[b], truncate)]
    OBVIOUS
  <2>1. g = h
    BY <1>n, <1>6, Zenon
  <2>2. /\ h[0] = opening /\ DOMAIN h = 0..n /\ h = [b \in 0..n |-> h[b]]
        /\ \A b \in 1..n : h[b] = ReplayStep(g[b - 1], arriving[b], asked[b], truncate)
    OBVIOUS
  <2> QED
    BY <2>1, <2>2, Zenon
<1>8. \A b \in 0..n : g[b] \in Int
  <2> DEFINE Good == {j \in 0..n : g[j] \in Int}
  <2>1. 0 \in Good
    BY <1>7
  <2>2. ASSUME NEW b \in 1..n, b - 1 \in Good PROVE b \in Good
    <3>1. g[b - 1] \in Int
      BY <2>2
    <3>2. g[b] = ReplayStep(g[b - 1], arriving[b], asked[b], truncate)
      BY <1>7
    <3>3. ReplayStep(g[b - 1], arriving[b], asked[b], truncate) \in Int
      BY <1>1, <3>1
    <3> QED
      BY <3>2, <3>3
  <2>3. Inductive(Good, n)
    BY <2>1, <2>2 DEF Inductive
  <2> HIDE DEF Good
  <2>4. 0..n \subseteq Good
    BY <2>3, Along
  <2> QED
    BY <2>4 DEF Good
<1>9. g \in [0..n -> Int]
  BY <1>7, <1>8
<1> QED
  BY <1>5, <1>7, <1>9, <1>n DEF ReplayWalk

SimulateWalk(g, arriving, asked, opening) ==
    /\ g \in [0..Len(asked) -> Int]
    /\ g[0] = opening
    /\ \A b \in 1..Len(asked) : g[b] = SimulateStep(g[b - 1], arriving[b], asked[b])

LEMMA SimulateWalks ==
    ASSUME NEW asked \in Seq(Int), NEW arriving \in [1..Len(asked) -> Int], NEW opening \in Int
    PROVE  SimulateWalk(SimulateSchedule(arriving, asked, opening), arriving, asked, opening)
<1> DEFINE Is(g) == g = [b \in 0..Len(asked) |-> IF b = 0 THEN opening ELSE SimulateStep(g[b - 1], arriving[b], asked[b])]
<1>n. PICK n \in Nat : n = Len(asked)
  OBVIOUS
<1>0. PICK step : step = [p \in (1..n) \X Int |-> SimulateStep(p[2], arriving[p[1]], asked[p[1]])]
  OBVIOUS
<1>1. ASSUME NEW b \in 1..n, NEW x \in Int
      PROVE  step[<<b, x>>] = SimulateStep(x, arriving[b], asked[b]) /\ SimulateStep(x, arriving[b], asked[b]) \in Int
  <2>1. asked[b] \in Int /\ arriving[b] \in Int
    BY <1>n
  <2>2. SimulateStep(x, arriving[b], asked[b]) \in Int
    BY <2>1 DEF SimulateStep
  <2>3. step[<<b, x>>] = SimulateStep(x, arriving[b], asked[b])
    BY <1>0
  <2> QED
    BY <2>2, <2>3
<1>2. PICK f \in [0..n -> Int] : f[0] = opening /\ \A b \in 1..n : f[b] = step[<<b, f[b - 1]>>]
  <2>1. Stepping(step, n, Int)
    BY <1>1 DEF Stepping
  <2>2. PICK f \in [0..n -> Int] : Walks(f, step, opening, n)
    BY <2>1, Walk
  <2> QED
    BY <2>2 DEF Walks
<1>3. ASSUME NEW b \in 1..n PROVE f[b] = SimulateStep(f[b - 1], arriving[b], asked[b])
  <2>1. f[b - 1] \in Int
    OBVIOUS
  <2> QED
    BY <1>1, <1>2, <2>1
<1>4. Is(f)
  BY <1>n, <1>2, <1>3
<1>5. PICK g : g = SimulateSchedule(arriving, asked, opening)
  OBVIOUS
<1>6. Is(g)
  BY <1>4, <1>5, Zenon DEF SimulateSchedule, SimulateStep
<1>7. /\ g[0] = opening /\ DOMAIN g = 0..n
      /\ g = [b \in 0..n |-> g[b]]
      /\ \A b \in 1..n : g[b] = SimulateStep(g[b - 1], arriving[b], asked[b])
  <2> PICK h : h = [b \in 0..n |-> IF b = 0 THEN opening ELSE SimulateStep(g[b - 1], arriving[b], asked[b])]
    OBVIOUS
  <2>1. g = h
    BY <1>n, <1>6, Zenon
  <2>2. /\ h[0] = opening /\ DOMAIN h = 0..n /\ h = [b \in 0..n |-> h[b]]
        /\ \A b \in 1..n : h[b] = SimulateStep(g[b - 1], arriving[b], asked[b])
    OBVIOUS
  <2> QED
    BY <2>1, <2>2, Zenon
<1>8. \A b \in 0..n : g[b] \in Int
  <2> DEFINE Good == {j \in 0..n : g[j] \in Int}
  <2>1. 0 \in Good
    BY <1>7
  <2>2. ASSUME NEW b \in 1..n, b - 1 \in Good PROVE b \in Good
    <3>1. g[b - 1] \in Int
      BY <2>2
    <3>2. g[b] = SimulateStep(g[b - 1], arriving[b], asked[b])
      BY <1>7
    <3>3. SimulateStep(g[b - 1], arriving[b], asked[b]) \in Int
      BY <1>1, <3>1
    <3> QED
      BY <3>2, <3>3
  <2>3. Inductive(Good, n)
    BY <2>1, <2>2 DEF Inductive
  <2> HIDE DEF Good
  <2>4. 0..n \subseteq Good
    BY <2>3, Along
  <2> QED
    BY <2>4 DEF Good
<1>9. g \in [0..n -> Int]
  BY <1>7, <1>8
<1> QED
  BY <1>5, <1>7, <1>9, <1>n DEF SimulateWalk

\* What safety stock and a lot add to it.
LEMMA PlanStepMonotone ==
    ASSUME NEW x \in Int, NEW y \in Int, x <= y, NEW d \in Int,
           NEW less \in Nat, NEW safety \in Nat, less <= safety, NEW lot, IsLot(lot)
    PROVE  PlanStep(x, d, less, LotForLot) <= PlanStep(y, d, safety, lot)
<1>1. PlanStep(x, d, less, LotForLot) = IF x - d >= less THEN x - d ELSE less
  BY LotForLotIsNeed, PlanSteps
<1>2. PICK w \in Int : w = PlanStep(y, d, safety, lot) /\ w >= safety /\ w >= y - d
  BY PlanSteps
<1>3. (IF x - d >= less THEN x - d ELSE less) <= w
  BY <1>2
<1> QED
  BY <1>1, <1>2, <1>3

Balances == [0..Holdout -> Int]
Above(g, f) == \A b \in 0..Holdout : f[b] <= g[b]

LEMMA StockOnHand ==
    ASSUME NEW f \in Balances
    PROVE  /\ OnHand(f) \in Int
           /\ \A g \in Balances : Above(g, f) => OnHand(f) <= OnHand(g)
<1> USE Splits
<1>1. IsFiniteSet(1..Holdout)
  BY FS_Interval
<1>2. ASSUME NEW g \in Balances
      PROVE  \E h : /\ OnHand(g) = SumFunctionOnSet(h, 1..Holdout)
                    /\ IntOn(h, 1..Holdout)
                    /\ \A b \in 1..Holdout : h[b] = g[b]
  <2> DEFINE h == [b \in 1..Holdout |-> g[b]]
  <2>1. OnHand(g) = SumFunctionOnSet(h, 1..Holdout)
    BY DEF OnHand, SumOf, SumFunction
  <2>2. IntOn(h, 1..Holdout) /\ \A b \in 1..Holdout : h[b] = g[b]
    BY DEF Balances, IntOn
  <2> HIDE DEF h
  <2> QED
    BY <2>1, <2>2
<1>3. PICK h : /\ OnHand(f) = SumFunctionOnSet(h, 1..Holdout)
               /\ IntOn(h, 1..Holdout)
               /\ \A b \in 1..Holdout : h[b] = f[b]
  BY <1>2
<1>4. OnHand(f) \in Int
  BY <1>1, <1>3, SumInt
<1>5. ASSUME NEW g \in Balances, Above(g, f)
      PROVE  OnHand(f) <= OnHand(g)
  <2>1. PICK k : /\ OnHand(g) = SumFunctionOnSet(k, 1..Holdout)
                 /\ IntOn(k, 1..Holdout)
                 /\ \A b \in 1..Holdout : k[b] = g[b]
    BY <1>2
  <2>2. \A b \in 1..Holdout : h[b] <= k[b]
    BY <1>3, <1>5, <2>1 DEF Above
  <2>3. SumFunctionOnSet(h, 1..Holdout) <= SumFunctionOnSet(k, 1..Holdout)
    BY <1>1, <1>3, <2>1, <2>2, SumMonotone
  <2> QED
    BY <1>3, <2>1, <2>3
<1> QED
  BY <1>4, <1>5

\* Safety stock, and then lots, only ever add stock.
LEMMA PlansAbove ==
    ASSUME NEW forecast \in Seq(Int), Len(forecast) = Holdout, NEW opening \in Int,
           NEW safety \in Nat, NEW lot, IsLot(lot), NEW less \in Nat, less <= safety,
           NEW f, PlanWalk(f, forecast, opening, less, LotForLot),
           NEW g, PlanWalk(g, forecast, opening, safety, lot)
    PROVE  Above(g, f)
<1> USE Splits
<1> DEFINE Good == {b \in 0..Holdout : f[b] <= g[b]}
<1>1. 0 \in Good
  BY DEF PlanWalk
<1>2. ASSUME NEW b \in 1..Holdout, b - 1 \in Good
      PROVE  b \in Good
  <2>1. f \in [0..Holdout -> Int] /\ g \in [0..Holdout -> Int]
    BY DEF PlanWalk
  <2>2. b - 1 \in 0..Holdout /\ forecast[b] \in Int
    OBVIOUS
  <2>3. f[b - 1] \in Int /\ g[b - 1] \in Int /\ f[b - 1] <= g[b - 1]
    BY <1>2, <2>1, <2>2
  <2>4. /\ f[b] = PlanStep(f[b - 1], forecast[b], less, LotForLot)
        /\ g[b] = PlanStep(g[b - 1], forecast[b], safety, lot)
    BY DEF PlanWalk
  <2>5. PlanStep(f[b - 1], forecast[b], less, LotForLot) <= PlanStep(g[b - 1], forecast[b], safety, lot)
    BY <2>2, <2>3, PlanStepMonotone
  <2>6. f[b] <= g[b]
    BY <2>4, <2>5, Zenon
  <2> QED
    BY <2>6
<1>3. Inductive(Good, Holdout)
  BY <1>1, <1>2 DEF Inductive
<1> HIDE DEF Good
<1>4. 0..Holdout \subseteq Good
  BY <1>3, Along
<1> QED
  BY <1>4 DEF Good, Above

\* Cutting a debt off only ever adds stock.
LEMMA TruncationAbove ==
    ASSUME NEW actual \in Seq(Int), Len(actual) = Holdout, NEW opening \in Int,
           NEW arriving \in [1..Holdout -> Int],
           NEW f, ReplayWalk(f, arriving, actual, opening, FALSE),
           NEW g, ReplayWalk(g, arriving, actual, opening, TRUE)
    PROVE  Above(g, f)
<1> USE Splits
<1> DEFINE Good == {b \in 0..Holdout : f[b] <= g[b]}
<1>1. 0 \in Good
  BY DEF ReplayWalk
<1>2. ASSUME NEW b \in 1..Holdout, b - 1 \in Good
      PROVE  b \in Good
  <2>1. f[b] = ReplayStep(f[b - 1], arriving[b], actual[b], FALSE)
    BY DEF ReplayWalk
  <2>2. g[b] = ReplayStep(g[b - 1], arriving[b], actual[b], TRUE)
    BY DEF ReplayWalk
  <2>3. /\ f \in [0..Holdout -> Int] /\ g \in [0..Holdout -> Int]
        /\ b - 1 \in 0..Holdout /\ arriving[b] \in Int /\ actual[b] \in Int
    BY DEF ReplayWalk
  <2>5. f[b - 1] \in Int /\ g[b - 1] \in Int /\ f[b - 1] <= g[b - 1]
    BY <1>2, <2>3
  <2>4. f[b] <= g[b]
    <3>1. PICK x \in Int, y \in Int : x = f[b - 1] /\ y = g[b - 1] /\ x <= y
      BY <2>5
    <3>2. PICK r \in Int, d \in Int : r = arriving[b] /\ d = actual[b]
      BY <2>3
    <3>3. ReplayStep(x, r, d, FALSE) <= ReplayStep(y, r, d, TRUE)
      BY <3>1 DEF ReplayStep
    <3> QED
      BY <2>1, <2>2, <3>1, <3>2, <3>3, Zenon
  <2> QED
    BY <2>4
<1>3. Inductive(Good, Holdout)
  BY <1>1, <1>2 DEF Inductive
<1> HIDE DEF Good
<1>4. 0..Holdout \subseteq Good
  BY <1>3, Along
<1> QED
  BY <1>4 DEF Good, Above

\* The two engines, written apart, close every bucket alike.
LEMMA EnginesAgree ==
    ASSUME NEW actual \in Seq(Int), Len(actual) = Holdout, NEW opening \in Int,
           NEW arriving \in [1..Holdout -> Int],
           NEW f, ReplayWalk(f, arriving, actual, opening, TRUE),
           NEW g, SimulateWalk(g, arriving, actual, opening)
    PROVE  Above(g, f) /\ Above(f, g)
<1> USE Splits
<1> DEFINE Good == {b \in 0..Holdout : f[b] = g[b]}
<1>1. 0 \in Good
  BY DEF ReplayWalk, SimulateWalk
<1>2. ASSUME NEW b \in 1..Holdout, b - 1 \in Good
      PROVE  b \in Good
  <2>1. f[b] = ReplayStep(f[b - 1], arriving[b], actual[b], TRUE)
    BY DEF ReplayWalk
  <2>2. g[b] = SimulateStep(g[b - 1], arriving[b], actual[b])
    BY DEF SimulateWalk
  <2>0. f \in [0..Holdout -> Int]
    BY DEF ReplayWalk
  <2>3. b - 1 \in 0..Holdout
    OBVIOUS
  <2>5. f[b - 1] \in Int /\ f[b - 1] = g[b - 1]
    BY <1>2, <2>0, <2>3
  <2>4. f[b] = g[b]
    <3>1. PICK x \in Int : x = f[b - 1] /\ x = g[b - 1]
      BY <2>5
    <3>2. PICK r \in Int : r = arriving[b]
      OBVIOUS
    <3>3. PICK d \in Int : d = actual[b]
      OBVIOUS
    <3>4. ReplayStep(x, r, d, TRUE) = SimulateStep(x, r, d)
      <4>1. r \in Int /\ d \in Int
        OBVIOUS
      <4> QED
        BY <3>1, <4>1 DEF ReplayStep, SimulateStep
    <3> QED
      BY <2>1, <2>2, <3>1, <3>2, <3>3, <3>4, Zenon
  <2> QED
    BY <2>4
<1>3. Inductive(Good, Holdout)
  BY <1>1, <1>2 DEF Inductive
<1> HIDE DEF Good
<1>4. 0..Holdout \subseteq Good
  BY <1>3, Along
<1>5. f \in [0..Holdout -> Int]
  BY DEF ReplayWalk
<1>6. \A b \in 0..Holdout : f[b] \in Int /\ f[b] = g[b]
  BY <1>4, <1>5 DEF Good
<1> QED
  BY <1>6 DEF Above

\* What is true of the rungs of any ladder.
Rungs == [pure_netting : Int, with_safety_stock : Int, with_lot_sizing : Int,
          against_actuals : Int, with_truncation : Int, simulated : Int]

Climbs(r) ==
    /\ r \in Rungs
    /\ r.pure_netting <= r.with_safety_stock
    /\ r.with_safety_stock <= r.with_lot_sizing
    /\ r.against_actuals <= r.with_truncation
    /\ r.with_truncation = r.simulated

LEMMA LadderClimbs ==
    ASSUME NEW forecast \in Seq(Int), Len(forecast) = Holdout,
           NEW actual \in Seq(Int), Len(actual) = Holdout,
           NEW opening \in Int, NEW part \in Parts
    PROVE  Climbs(BuildLadder(forecast, actual, opening, part))
<1> PICK safety \in Nat : safety = part.safety
  BY PortfolioAssumption
<1> PICK lot : lot = part.lot
  OBVIOUS
<1>0. IsLot(lot) /\ IsLot(LotForLot) /\ 0 \in Nat
  BY PortfolioAssumption, LotForLotIsNeed
<1>1. PICK p : p = Plan(forecast, opening, 0, LotForLot)
  OBVIOUS
<1>2. PICK s : s = Plan(forecast, opening, safety, LotForLot)
  OBVIOUS
<1>3. PICK l : l = Plan(forecast, opening, safety, lot)
  OBVIOUS
<1>4. /\ PlanWalk(p, forecast, opening, 0, LotForLot)
      /\ PlanWalk(s, forecast, opening, safety, LotForLot)
      /\ PlanWalk(l, forecast, opening, safety, lot)
  BY <1>0, <1>1, <1>2, <1>3, PlanWalks
<1>5. p \in Balances /\ s \in Balances /\ l \in Balances
  BY <1>4 DEF PlanWalk, Balances
<1>6. PICK schedule : schedule = Receipts(forecast, opening, safety, lot)
  OBVIOUS
<1>7. schedule \in [1..Holdout -> Int]
  <2>1. schedule = [b \in 1..Holdout |-> l[b] - l[b - 1] + forecast[b]]
    BY <1>3, <1>6 DEF Receipts
  <2>2. ASSUME NEW b \in 1..Holdout PROVE l[b] - l[b - 1] + forecast[b] \in Int
    <3>1. b \in 0..Holdout /\ b - 1 \in 0..Holdout
      OBVIOUS
    <3>2. l[b] \in Int /\ l[b - 1] \in Int
      BY <1>5, <3>1 DEF Balances
    <3>3. forecast[b] \in Int
      BY WindowAssumption
    <3> QED
      BY <3>2, <3>3
  <2> QED
    BY <2>1, <2>2
<1>8. PICK a : a = ReplaySchedule(schedule, actual, opening, FALSE)
  OBVIOUS
<1>9. PICK w : w = ReplaySchedule(schedule, actual, opening, TRUE)
  OBVIOUS
<1>10. PICK e : e = SimulateSchedule(schedule, actual, opening)
  OBVIOUS
<1>11. /\ ReplayWalk(a, schedule, actual, opening, FALSE)
       /\ ReplayWalk(w, schedule, actual, opening, TRUE)
       /\ SimulateWalk(e, schedule, actual, opening)
  BY <1>7, <1>8, <1>9, <1>10, ReplayWalks, SimulateWalks
<1>12. a \in Balances /\ w \in Balances /\ e \in Balances
  BY <1>11 DEF ReplayWalk, SimulateWalk, Balances
<1>13. Above(s, p) /\ Above(l, s)
  <2>1. Above(s, p)
    BY <1>0, <1>4, PlansAbove
  <2>2. Above(l, s)
    BY <1>0, <1>4, PlansAbove
  <2> QED
    BY <2>1, <2>2
<1>14. Above(w, a) /\ Above(w, e) /\ Above(e, w)
  BY <1>7, <1>11, TruncationAbove, EnginesAgree
<1>15. /\ OnHand(p) <= OnHand(s) /\ OnHand(s) <= OnHand(l) /\ OnHand(a) <= OnHand(w)
       /\ OnHand(w) <= OnHand(e) /\ OnHand(e) <= OnHand(w)
       /\ {OnHand(p), OnHand(s), OnHand(l), OnHand(a), OnHand(w), OnHand(e)} \subseteq Int
  BY <1>5, <1>12, <1>13, <1>14, StockOnHand
<1>16. OnHand(w) = OnHand(e)
  BY <1>15
<1>17. BuildLadder(forecast, actual, opening, part) =
         [pure_netting |-> OnHand(p), with_safety_stock |-> OnHand(s), with_lot_sizing |-> OnHand(l),
          against_actuals |-> OnHand(a), with_truncation |-> OnHand(w), simulated |-> OnHand(e)]
  BY <1>1, <1>2, <1>3, <1>6, <1>8, <1>9, <1>10 DEF BuildLadder
<1> HIDE DEF OnHand
<1> QED
  BY <1>15, <1>16, <1>17 DEF Climbs, Rungs

------------------------------------------------------------------------------
(***************************************************************************)
(* What became of a series.                                                *)
(***************************************************************************)
LEMMA FoldsAreDisjoint ==
    ASSUME NEW n \in Nat, NEW v \in RollingOriginWindows(n), NEW w \in RollingOriginWindows(n)
    PROVE  /\ v.train \in Nat /\ v.train <= n /\ (n - v.train) \div FoldLength \in 1..FoldCount
           /\ v.train >= MinTrain /\ v.train < v.from /\ v.to <= n
           /\ v = w \/ (v.from..v.to) \cap (w.from..w.to) = {}
<1> PICK F \in Nat \ {0} : F = FoldLength
  BY WindowAssumption
<1>1. PICK j \in 1..FoldCount :
          /\ n - j * F >= MinTrain
          /\ v = [train |-> n - j * F, from |-> n - j * F + 1, to |-> n - (j - 1) * F]
  BY DEF RollingOriginWindows
<1>2. PICK k \in 1..FoldCount :
          /\ n - k * F >= MinTrain
          /\ w = [train |-> n - k * F, from |-> n - k * F + 1, to |-> n - (k - 1) * F]
  BY DEF RollingOriginWindows
<1>3. MinTrain \in Nat /\ FoldCount \in Nat
  BY WindowAssumption
<1>4. \A x \in Nat, y \in Nat : x <= y => x * F \in Nat /\ y * F \in Nat /\ x * F <= y * F
  <2> SUFFICES ASSUME NEW x \in Nat, NEW y \in Nat, x <= y
               PROVE  x * F \in Nat /\ y * F \in Nat /\ x * F <= y * F
    OBVIOUS
  <2>1. y = x + (y - x) /\ y - x \in Nat
    OBVIOUS
  <2>2. (y - x) * F \in Nat /\ x * F \in Nat
    BY <2>1
  <2>3. y * F = x * F + (y - x) * F
    BY <2>1
  <2> QED
    BY <2>2, <2>3
<1>5. j * F \in Nat /\ k * F \in Nat /\ (j - 1) * F \in Nat /\ (k - 1) * F \in Nat
  BY <1>3, <1>4
<1>6. (n - v.train) \div F = j
  <2>1. n - v.train = j * F
    BY <1>1, <1>5
  <2>2. (j * F) \div F = j
    BY <1>3, SMTT(20)
  <2> QED
    BY <2>1, <2>2
<1>7. /\ v.train = n - j * F /\ v.from = n - j * F + 1 /\ v.to = n - (j - 1) * F
      /\ w.train = n - k * F /\ w.from = n - k * F + 1 /\ w.to = n - (k - 1) * F
  BY <1>1, <1>2
<1>8. /\ v.train \in Nat /\ v.train <= n
      /\ v.train >= MinTrain /\ v.train < v.from /\ v.to <= n
  BY <1>1, <1>3, <1>5, <1>7
<1>9. v = w \/ (v.from..v.to) \cap (w.from..w.to) = {}
  <2>1. CASE j = k
    BY <1>1, <1>2, <2>1
  <2>2. CASE j < k
    <3>1. j * F <= (k - 1) * F
      BY <1>3, <1>4, <2>2
    <3>2. w.to < v.from /\ w.to \in Int /\ v.from \in Int /\ v.to \in Int /\ w.from \in Int
      BY <1>5, <1>7, <3>1
    <3> QED
      BY <3>2
  <2>3. CASE k < j
    <3>1. k * F <= (j - 1) * F
      BY <1>3, <1>4, <2>3
    <3>2. v.to < w.from /\ w.to \in Int /\ v.from \in Int /\ v.to \in Int /\ w.from \in Int
      BY <1>5, <1>7, <3>1
    <3> QED
      BY <3>2
  <2> QED
    BY <1>3, <2>1, <2>2, <2>3
<1> QED
  BY <1>6, <1>8, <1>9

\* What reconcile plans with follows from what comes before the holdout: the forecast
\* from the training, the library's answer and the days worked, and so the rungs.
PeriodOf(days) == IF days = 0..(Week - 1) THEN 1 ELSE Week

PlannedOn(train, fit, m) ==
    IF ModelForPattern[Classify(train)] = "SeasonalNaive" \/ FallsBack(Classify(train), fit)
    THEN Clamp([b \in 1..Holdout |->
                  IF train = <<>> THEN 0
                  ELSE IF Len(train) < m THEN train[Len(train)]
                  ELSE Last(train, m)[((b - 1) % m) + 1]])
    ELSE Clamp(First(fit.values, Holdout))

PlanRung(train, fit, part, days, safety, lot) ==
    OnHand(Plan(PlannedOn(train, fit, PeriodOf(days)), OpeningOf(train, part), safety, lot))

LEMMA PlannedFromThePast ==
    ASSUME NEW train, NEW fit
    PROVE  Forecast(Classify(train), train, fit, Holdout).values = PlannedOn(train, fit, PeriodOf(working))
BY DEF Forecast, PlannedOn, SeasonalNaive, SeasonalPeriod, PeriodOf

\* A result of each kind, of the series s with the part it has, if any.
Filed(r, rate) ==
    /\ r.pattern \in Pattern /\ r.finite
    /\ r.filed \in [1..Holdout -> Nat]
    /\ rate # 0 /\ r.model = "AutoETS" => ~LastAnswer(r).trend
Scored(r, s) ==
    /\ r.pattern \in Pattern
    /\ r.model.scored = r.baseline.scored /\ r.model.isNumber = r.baseline.isNumber
    /\ r.model.scored \in SUBSET RollingOriginWindows(Len(s))
Judged(r, s, part) ==
    /\ r.pattern = Classify(TrainingOf(s))
    /\ r.fitted = FittedOn(TrainingOf(s))
    /\ r.opening = OpeningOf(TrainingOf(s), part)
Laddered(r, s, part, days) ==
    /\ r.pattern = Classify(TrainingOf(s))
    /\ Climbs(r.rungs)
    /\ r.rungs.pure_netting = PlanRung(TrainingOf(s), r.answer, part, days, 0, LotForLot)
    /\ r.rungs.with_safety_stock = PlanRung(TrainingOf(s), r.answer, part, days, part.safety, LotForLot)
    /\ r.rungs.with_lot_sizing = PlanRung(TrainingOf(s), r.answer, part, days, part.safety, part.lot)

Sound(r, j, rate, s, part, days) ==
    CASE j = "run"       -> r.status = "forecast" /\ Filed(r, rate)
      [] j = "backtest"  -> r.status = "scored" /\ Scored(r, s)
      [] j = "compare"   -> r.status \in {"short", "unmatched"} \/ (r.status = "replayed" /\ Judged(r, s, part))
      [] j = "reconcile" -> r.status \in {"short", "unmatched"} \/ (r.status = "reconciled" /\ Laddered(r, s, part, days))

StudyInv ==
    /\ job \in Jobs
    /\ history \in [Key -> Seq(Int)]
    /\ \A k \in DOMAIN parts : parts[k] \in Parts
    /\ growth \in Rates
    /\ \E R : results \in Seq(R)
    /\ Len(results) <= Len(Keys)
    /\ \A i \in 1..Len(results) :
          Sound(results[i], job, growth, history[Keys[i]], parts[Keys[i]], working)

LEMMA InitStudyInv == StudyInit => StudyInv
<1> SUFFICES ASSUME StudyInit PROVE StudyInv
  OBVIOUS
<1>1. history \in [Key -> Seq(Int)]
  BY PortfolioAssumption DEF StudyInit
<1>2. \A k \in DOMAIN parts : parts[k] \in Parts
  BY DEF StudyInit
<1>3. job \in Jobs /\ growth \in Rates
  BY GrowthAssumption DEF StudyInit, Jobs
<1>4. results \in Seq({}) /\ Len(results) = 0
  BY DEF StudyInit
<1>5. Len(Keys) \in Nat
  BY PortfolioAssumption
<1> QED
  BY <1>1, <1>2, <1>3, <1>4, <1>5 DEF StudyInv

\* The series a job is at, with its history.
LEMMA AtSeries ==
    ASSUME StudyInv, Len(results) < Len(Keys)
    PROVE  NextKey \in Key /\ history[NextKey] \in Seq(Int)
<1>1. Len(results) + 1 \in 1..Len(Keys)
  BY PortfolioAssumption DEF StudyInv
<1>2. NextKey \in Key
  BY <1>1, PortfolioAssumption DEF NextKey, Key
<1> QED
  BY <1>2 DEF StudyInv

\* A sound result keeps the invariant.
LEMMA EnterSound ==
    ASSUME StudyInv, Len(results) < Len(Keys), NEW r, Enter(r),
           Sound(r, job, growth, history[NextKey], parts[NextKey], working)
    PROVE  StudyInv'
<1>1. PICK R : results \in Seq(R)
  BY DEF StudyInv
<1>2. PICK n \in Nat : n = Len(results)
  BY <1>1
<1>3. /\ results' \in Seq(R \cup {r}) /\ Len(results') = n + 1
      /\ results'[n + 1] = r /\ \A i \in 1..n : results'[i] = results[i]
  BY <1>1, <1>2 DEF Enter
<1>4. UNCHANGED <<job, history, parts, working, growth, report>>
  BY DEF Enter
<1>5. ASSUME NEW i \in 1..(n + 1)
      PROVE  Sound(results'[i], job, growth, history[Keys[i]], parts[Keys[i]], working)
  <2>1. CASE i = n + 1
    BY <1>2, <1>3, <2>1 DEF NextKey
  <2>2. CASE i # n + 1
    <3>1. i \in 1..n
      BY <2>2
    <3> QED
      BY <1>2, <1>3, <3>1 DEF StudyInv
  <2> QED
    BY <2>1, <2>2
<1>6. n + 1 <= Len(Keys)
  BY <1>2, PortfolioAssumption
<1>7. \A i \in 1..Len(results') : Sound(results'[i], job', growth', history'[Keys[i]], parts'[Keys[i]], working')
  BY <1>3, <1>4, <1>5
<1>8. \E Q : results' \in Seq(Q)
  BY <1>3
<1>9. /\ job' \in Jobs /\ history' \in [Key -> Seq(Int)] /\ growth' \in Rates
      /\ \A k \in DOMAIN parts' : parts'[k] \in Parts
  BY <1>4 DEF StudyInv
<1>10. Len(results') <= Len(Keys)
  BY <1>3, <1>6
<1> QED
  BY <1>7, <1>8, <1>9, <1>10 DEF StudyInv

\* Honoured, of a result under a rate.
IsHonoured(r, rate) ==
    /\ r.model # "SeasonalNaive" /\ ~LastAnswer(r).raises /\ LastAnswer(r).finite
    /\ r.filed = [b \in 1..Holdout |->
                    LET v == LastAnswer(r).values[b] IN IF v < 0 THEN 0 ELSE v * Factor(rate, b)]

\* What a run enters: a sound forecast; and it is counted as a fallback exactly if it is
\* not the model's, as a suppression exactly if a trend was taken away.
LEMMA RunEnters ==
    ASSUME StudyInv, NEW probe \in Fits, NEW refit \in Fits, ForecastSeries(probe, refit)
    PROVE  \E r : \E e, n, s \in BOOLEAN :
              /\ Enter(r) /\ Count(One(e), One(n), One(s))
              /\ r.status = "forecast" /\ Filed(r, growth)
              /\ e \/ n <=> r.model # "SeasonalNaive" /\ ~IsHonoured(r, growth)
              /\ ~(e /\ n)
              /\ s <=> growth # 0 /\ r.model = "AutoETS" /\ r.answers[1].trend
<1>1. job = "run" /\ Len(results) < Len(Keys) /\ growth \in Rates /\ ~refit.trend
  BY DEF ForecastSeries, UnderWay, StudyInv
<1>2. PICK s \in Seq(Int) : s = history[NextKey]
  BY <1>1, AtSeries
<1>3. PICK pattern \in Pattern : pattern = Classify(s)
  BY EveryPattern
<1>4. PICK suppress \in BOOLEAN : suppress = (growth # 0)
  OBVIOUS
<1>5. PICK answers : answers = AnswersOf(pattern, probe, refit, suppress)
  OBVIOUS
<1>6. PICK fit : fit = answers[Len(answers)]
  OBVIOUS
<1>7. /\ answers[1] = probe
      /\ fit \in Fits
      /\ fit = IF TrendTaken(pattern, probe, suppress) THEN refit ELSE probe
  BY <1>5, <1>6 DEF AnswersOf
<1>8. PICK f : f = Forecast(pattern, s, fit, Holdout)
  OBVIOUS
<1>9. /\ f.finite
      /\ f.values \in [1..Holdout -> Nat]
      /\ ModelForPattern[pattern] # "SeasonalNaive" /\ ~fit.raises /\ fit.finite =>
           f.values = [b \in 1..Holdout |-> IF fit.values[b] > 0 THEN fit.values[b] ELSE 0]
  <2>1. fit \in Fits /\ Holdout \in Nat
    BY <1>7, Splits
  <2>2. PICK h \in Nat : h = Holdout
    BY <2>1
  <2>3. f = Forecast(pattern, s, fit, h)
    BY <1>8, <2>2
  <2>4. /\ f.finite
        /\ f.values \in [1..h -> Nat]
        /\ ModelForPattern[pattern] # "SeasonalNaive" /\ ~fit.raises /\ fit.finite =>
             f.values = [b \in 1..h |-> IF fit.values[b] > 0 THEN fit.values[b] ELSE 0]
    BY <2>1, <2>2, <2>3, ForecastIsSound
  <2> QED
    BY <2>2, <2>4
<1>10. PICK filed : filed = Grown(f.values)
  OBVIOUS
<1>11. filed = [b \in 1..Holdout |-> f.values[b] * Factor(growth, b)]
  BY <1>9, <1>10 DEF Grown
<1>12. filed \in [1..Holdout -> Nat]
  <2> SUFFICES ASSUME NEW b \in 1..Holdout PROVE f.values[b] * Factor(growth, b) \in Nat
    BY <1>11
  <2>1. PICK x \in Nat : x = f.values[b]
    BY <1>9
  <2>2. PICK y \in Nat : y = Factor(growth, b)
    BY <1>1, GrowthAssumption
  <2>3. x * y \in Nat
    OBVIOUS
  <2> QED
    BY <2>1, <2>2, <2>3
<1>13. PICK r : r = [status |-> "forecast", pattern |-> pattern, model |-> ModelForPattern[pattern],
                     finite |-> f.finite, filed |-> filed, answers |-> answers]
  OBVIOUS
<1>14. /\ r.status = "forecast" /\ r.pattern = pattern /\ r.model = ModelForPattern[pattern]
       /\ r.finite = f.finite /\ r.filed = filed /\ r.answers = answers /\ LastAnswer(r) = fit
  BY <1>6, <1>13 DEF LastAnswer
<1>15. Enter(r)
  BY <1>2, <1>3, <1>4, <1>5, <1>6, <1>8, <1>10, <1>13 DEF ForecastSeries
<1>16. Count(One(FallsBack(pattern, fit) /\ fit.raises), One(FallsBack(pattern, fit) /\ ~fit.raises),
             One(TrendTaken(pattern, probe, suppress)))
  BY <1>2, <1>3, <1>4, <1>5, <1>6 DEF ForecastSeries
<1>17. Filed(r, growth)
  <2>1. growth # 0 /\ ModelForPattern[pattern] = "AutoETS" => ~fit.trend
    BY <1>1, <1>4, <1>7 DEF TrendTaken
  <2> QED
    BY <1>9, <1>12, <1>14, <2>1 DEF Filed
<1>18. ModelForPattern[pattern] # "SeasonalNaive" /\ ~fit.raises /\ fit.finite => IsHonoured(r, growth)
  <2> SUFFICES ASSUME ModelForPattern[pattern] # "SeasonalNaive", ~fit.raises, fit.finite
               PROVE  IsHonoured(r, growth)
    OBVIOUS
  <2>1. PICK v : v = fit.values
    OBVIOUS
  <2>2. ASSUME NEW b \in 1..Holdout
        PROVE  f.values[b] * Factor(growth, b) = IF v[b] < 0 THEN 0 ELSE v[b] * Factor(growth, b)
    <3>1. PICK y \in Nat : y = Factor(growth, b)
      BY <1>1, GrowthAssumption
    <3>2. PICK x \in Int : x = v[b]
      <4>1. v \in Seq(Int) /\ Len(v) >= Holdout
        BY <1>7, <2>1, FitAssumption
      <4> QED
        BY <4>1, WindowAssumption
    <3>3. f.values[b] = IF x > 0 THEN x ELSE 0
      BY <1>9, <2>1, <3>2
    <3>4. (IF x > 0 THEN x ELSE 0) * y = IF x < 0 THEN 0 ELSE x * y
      <4>1. CASE x > 0
        BY <4>1
      <4>2. CASE x = 0
        BY <4>2
      <4>3. CASE x < 0
        BY <4>3
      <4> QED
        BY <4>1, <4>2, <4>3
    <3> QED
      BY <3>1, <3>2, <3>3, <3>4
  <2>3. filed = [b \in 1..Holdout |-> IF v[b] < 0 THEN 0 ELSE v[b] * Factor(growth, b)]
    BY <1>11, <2>2
  <2> QED
    BY <1>14, <2>1, <2>3 DEF IsHonoured
<1>19. IsHonoured(r, growth) => ModelForPattern[pattern] # "SeasonalNaive" /\ ~fit.raises /\ fit.finite
  BY <1>14 DEF IsHonoured
<1> PICK e \in BOOLEAN : e = (FallsBack(pattern, fit) /\ fit.raises)
  OBVIOUS
<1> PICK n \in BOOLEAN : n = (FallsBack(pattern, fit) /\ ~fit.raises)
  OBVIOUS
<1> PICK taken \in BOOLEAN : taken = TrendTaken(pattern, probe, suppress)
  BY <1>7, FitAssumption DEF TrendTaken
<1>20. Count(One(e), One(n), One(taken))
  BY <1>16
<1>21. e \/ n <=> r.model # "SeasonalNaive" /\ ~IsHonoured(r, growth)
  <2>1. e \/ n <=> FallsBack(pattern, fit)
    OBVIOUS
  <2>2. FallsBack(pattern, fit) <=> r.model # "SeasonalNaive" /\ (fit.raises \/ ~fit.finite)
    BY <1>14 DEF FallsBack
  <2> QED
    BY <1>14, <1>18, <1>19, <2>1, <2>2
<1>22. taken <=> growth # 0 /\ r.model = "AutoETS" /\ r.answers[1].trend
  BY <1>4, <1>7, <1>14 DEF TrendTaken
<1>23. ~(e /\ n)
  OBVIOUS
<1> QED
  BY <1>14, <1>15, <1>17, <1>20, <1>21, <1>22, <1>23

LEMMA RunStep ==
    ASSUME StudyInv, NEW probe \in Fits, NEW refit \in Fits, ForecastSeries(probe, refit)
    PROVE  StudyInv'
<1>1. job = "run" /\ Len(results) < Len(Keys)
  BY DEF ForecastSeries, UnderWay
<1>2. PICK r : Enter(r) /\ r.status = "forecast" /\ Filed(r, growth)
  BY RunEnters
<1>3. Sound(r, job, growth, history[NextKey], parts[NextKey], working)
  BY <1>1, <1>2 DEF Sound
<1> QED
  BY <1>1, <1>2, <1>3, EnterSound

LEMMA BacktestStep ==
    ASSUME StudyInv, NEW fits \in [1..FoldCount -> Fits], BacktestKey(fits)
    PROVE  StudyInv'
<1>1. job = "backtest" /\ Len(results) < Len(Keys)
  BY DEF BacktestKey, UnderWay
<1>2. PICK s \in Seq(Int) : s = history[NextKey]
  BY <1>1, AtSeries
<1>3. PICK pattern \in Pattern : pattern = Classify(s)
  BY EveryPattern
<1>4. PICK windows : windows = RollingOriginWindows(Len(s))
  OBVIOUS
<1>5. PICK fitOf : fitOf = [w \in windows |-> fits[(Len(s) - w.train) \div FoldLength]]
  OBVIOUS
<1>6. PICK sound : sound = [w \in windows |->
          Forecast(pattern, First(s, w.train), fitOf[w], FoldLength).finite]
  OBVIOUS
<1>7. \A w \in windows : sound[w]
  <2> SUFFICES ASSUME NEW w \in windows PROVE sound[w]
    OBVIOUS
  <2>1. /\ w.train \in Nat /\ w.train <= Len(s)
        /\ (Len(s) - w.train) \div FoldLength \in 1..FoldCount
    BY <1>2, <1>4, FoldsAreDisjoint
  <2>2. fitOf[w] \in Fits
    BY <1>5, <2>1
  <2>3. First(s, w.train) \in Seq(Int)
    BY <2>1, Pieces
  <2>4. PICK f : f = Forecast(pattern, First(s, w.train), fitOf[w], FoldLength)
    OBVIOUS
  <2>5. f.finite
    BY <2>2, <2>3, <2>4, ForecastIsSound, WindowAssumption
  <2> QED
    BY <1>6, <2>4, <2>5
<1>8. PICK model, baseline : /\ model = BacktestSeries(s, sound)
                             /\ baseline = BacktestSeries(s, [w \in windows |-> TRUE])
  OBVIOUS
<1>9. PICK scored : scored = {w \in windows : HasScale(First(s, w.train))}
  OBVIOUS
<1>10. /\ model.scored = scored /\ baseline.scored = scored
       /\ model.isNumber = (scored # {} /\ \A w \in scored : sound[w])
       /\ baseline.isNumber = (scored # {} /\ \A w \in scored : [v \in windows |-> TRUE][w])
  BY <1>4, <1>8, <1>9 DEF BacktestSeries
<1>11. model.isNumber = baseline.isNumber /\ scored \in SUBSET windows
  <2>1. scored \in SUBSET windows
    BY <1>9
  <2>2. \A w \in scored : [v \in windows |-> TRUE][w]
    BY <2>1
  <2>3. \A w \in scored : sound[w]
    BY <1>7, <2>1
  <2> QED
    BY <1>10, <2>1, <2>2, <2>3
<1>12. PICK r : r = [status |-> "scored", pattern |-> pattern, model |-> model, baseline |-> baseline]
  OBVIOUS
<1>13. Enter(r)
  BY <1>2, <1>3, <1>4, <1>5, <1>6, <1>8, <1>12 DEF BacktestKey
<1>14. r.status = "scored" /\ r.pattern = pattern /\ r.model = model /\ r.baseline = baseline
  BY <1>12
<1>15. Sound(r, job, growth, history[NextKey], parts[NextKey], working)
  BY <1>1, <1>2, <1>4, <1>10, <1>11, <1>14 DEF Sound, Scored
<1> QED
  BY <1>1, <1>13, <1>15, EnterSound

LEMMA LeaveOutStep ==
    ASSUME StudyInv, TooShort \/ Unmatched
    PROVE  StudyInv'
<1>1. job \in {"compare", "reconcile"} /\ Len(results) < Len(Keys)
  BY DEF TooShort, Unmatched, UnderWay
<1>2. PICK r : Enter(r) /\ r.status \in {"short", "unmatched"}
  BY DEF TooShort, Unmatched
<1>3. Sound(r, job, growth, history[NextKey], parts[NextKey], working)
  BY <1>1, <1>2 DEF Sound
<1> QED
  BY <1>1, <1>2, <1>3, EnterSound

LEMMA CompareStep ==
    ASSUME StudyInv, CompareKey
    PROVE  StudyInv'
<1>1. job = "compare" /\ Len(results) < Len(Keys)
  BY DEF CompareKey, UnderWay
<1>2. PICK s : s = history[NextKey]
  OBVIOUS
<1>3. PICK train : train = TrainingOf(s)
  OBVIOUS
<1>4. PICK part : part = parts[NextKey]
  OBVIOUS
<1>5. PICK r : r = [status |-> "replayed", pattern |-> Classify(train),
                    fitted |-> FittedOn(train), opening |-> OpeningOf(train, part),
                    demanded |-> SumOf(HoldoutOf(s)), cost |-> part.cost]
  OBVIOUS
<1>6. Enter(r)
  BY <1>2, <1>3, <1>4, <1>5 DEF CompareKey
<1>7. /\ r.status = "replayed" /\ r.pattern = Classify(train)
      /\ r.fitted = FittedOn(train) /\ r.opening = OpeningOf(train, part)
  BY <1>5
<1>8. Sound(r, job, growth, s, part, working)
  BY <1>1, <1>3, <1>7 DEF Sound, Judged
<1> QED
  BY <1>1, <1>2, <1>4, <1>6, <1>8, EnterSound

LEMMA ReconcileStep ==
    ASSUME StudyInv, NEW fit \in Fits, ReconcileKey(fit)
    PROVE  StudyInv'
<1>1. /\ job = "reconcile" /\ Len(results) < Len(Keys) /\ NextKey \in DOMAIN parts
      /\ Holdout \in Nat
  BY WindowAssumption DEF ReconcileKey, UnderWay
<1>2. PICK s \in Seq(Int) : s = history[NextKey]
  BY <1>1, AtSeries
<1>3. PICK train : train = TrainingOf(s)
  OBVIOUS
<1>4. PICK actual : actual = HoldoutOf(s)
  OBVIOUS
<1>5. /\ train \in Seq(Int) /\ actual \in Seq(Int) /\ Len(actual) = Holdout
  <2>1. Len(s) > Holdout
    BY <1>2 DEF ReconcileKey
  <2>2. Len(s) - Holdout \in Nat /\ Len(s) - Holdout <= Len(s) /\ Holdout <= Len(s)
    BY <1>1, <2>1
  <2> QED
    BY <1>1, <1>3, <1>4, <2>2, Pieces DEF TrainingOf, HoldoutOf
<1>6. PICK pattern \in Pattern : pattern = Classify(train)
  BY EveryPattern
<1>7. PICK part \in Parts : part = parts[NextKey]
  BY <1>1 DEF StudyInv
<1>8. PICK opening \in Int : opening = OpeningOf(train, part)
  <2>1. CASE train = <<>>
    BY <2>1 DEF OpeningOf
  <2>2. CASE train # <<>>
    <3>1. IsFiniteSet(1..Len(train)) /\ DOMAIN train = 1..Len(train) /\ IntOn(train, 1..Len(train))
      <4>1. Len(train) \in Int /\ DOMAIN train = 1..Len(train) /\ \A i \in 1..Len(train) : train[i] \in Int
        BY <1>5
      <4> QED
        BY <4>1, FS_Interval DEF IntOn
    <3>2. SumOf(train) \in Int
      BY <3>1, SumInt DEF SumOf, SumFunction
    <3>3. part.lead + 1 \in Int
      BY PortfolioAssumption
    <3>4. Len(train) \in Nat \ {0}
      BY <1>5, <2>2
    <3>5. SumOf(train) * (part.lead + 1) \in Int
      BY <3>2, <3>3
    <3>6. (SumOf(train) * (part.lead + 1)) \div Len(train) \in Int
      BY <3>4, <3>5
    <3> QED
      BY <2>2, <3>6 DEF OpeningOf
  <2> QED
    BY <2>1, <2>2
<1>9. PICK f : f = Forecast(pattern, train, fit, Holdout)
  OBVIOUS
<1>10. f.values \in Seq(Int) /\ Len(f.values) = Holdout
  <2>1. f.values \in [1..Holdout -> Nat]
    BY <1>1, <1>5, <1>9, ForecastIsSound
  <2> PICK n \in Nat : n = Holdout
    BY <1>1
  <2>2. ASSUME NEW g \in [1..n -> Nat] PROVE g \in Seq(Int) /\ Len(g) = n
    <3>1. g \in UNION {[1..k -> Int] : k \in Nat}
      OBVIOUS
    <3>2. g \in Seq(Int)
      BY <3>1, SeqDef
    <3>3. Len(g) \in Nat /\ 1..Len(g) = 1..n
      BY <3>2
    <3> QED
      BY <3>2, <3>3
  <2> QED
    BY <2>1, <2>2
<1>11. PICK rungs : rungs = BuildLadder(f.values, actual, opening, part)
  OBVIOUS
<1>12. Climbs(rungs)
  BY <1>5, <1>10, <1>11, LadderClimbs
<1>13. PICK r : r = [status |-> "reconciled", pattern |-> pattern, answer |-> fit, rungs |-> rungs]
  OBVIOUS
<1>14. Enter(r)
  BY <1>2, <1>3, <1>4, <1>6, <1>7, <1>8, <1>9, <1>11, <1>13 DEF ReconcileKey
<1>15. r.status = "reconciled" /\ r.pattern = pattern /\ r.answer = fit /\ r.rungs = rungs
  BY <1>13
<1>16. f.values = PlannedOn(train, fit, PeriodOf(working))
  BY <1>6, <1>9, PlannedFromThePast
<1>17. /\ rungs.pure_netting = OnHand(Plan(f.values, opening, 0, LotForLot))
       /\ rungs.with_safety_stock = OnHand(Plan(f.values, opening, part.safety, LotForLot))
       /\ rungs.with_lot_sizing = OnHand(Plan(f.values, opening, part.safety, part.lot))
  <2> HIDE DEF OnHand, Plan, Receipts, ReplaySchedule, SimulateSchedule
  <2> QED
    BY <1>11 DEF BuildLadder
<1>18. Laddered(r, s, part, working)
  <2> HIDE DEF OnHand, Plan, TrainingOf, PlannedOn, OpeningOf
  <2> QED
    BY <1>3, <1>6, <1>8, <1>12, <1>15, <1>16, <1>17 DEF Laddered, PlanRung
<1>19. Sound(r, job, growth, history[NextKey], parts[NextKey], working)
  BY <1>1, <1>2, <1>7, <1>15, <1>18 DEF Sound
<1> QED
  BY <1>1, <1>14, <1>19, EnterSound

LEMMA AnswersKeep ==
    ASSUME StudyInv, UNCHANGED <<job, history, parts, working, growth, results>>
    PROVE  StudyInv'
BY DEF StudyInv

LEMMA StepStudyInv == StudyInv /\ [StudyNext]_studyVars => StudyInv'
<1> SUFFICES ASSUME StudyInv, [StudyNext]_studyVars PROVE StudyInv'
  OBVIOUS
<1>1. CASE \E probe, refit \in Fits : ForecastSeries(probe, refit)
  BY <1>1, RunStep
<1>4. CASE \E fit \in Fits : ReconcileKey(fit)
  BY <1>4, ReconcileStep
<1>2. CASE \E fits \in [1..FoldCount -> Fits] : BacktestKey(fits)
  BY <1>2, BacktestStep
<1>3. CASE ForecastReport \/ BacktestReport \/ CompareReport \/ ReconcileReport
           \/ RefuseUnmatched \/ RefuseNothing \/ UNCHANGED studyVars
  <2>1. UNCHANGED <<job, history, parts, working, growth, results>>
    BY <1>3 DEF ForecastReport, BacktestReport, CompareReport, ReconcileReport,
                RefuseUnmatched, RefuseNothing, Answer, studyVars
  <2> QED
    BY <2>1, AnswersKeep
<1> QED
  BY <1>1, <1>2, <1>3, <1>4, LeaveOutStep, CompareStep DEF StudyNext

\* No fold reaches into its training or into another fold; and a comparison and a
\* reconciliation classify, fit, stock and plan a series from nothing but what comes before
\* its holdout: for any portfolio, history and way of splitting it.
THEOREM HoldoutIsAlwaysUnseen == StudySpec => []HoldoutIsUnseen
<1>1. StudyInv => HoldoutIsUnseen
  <2> SUFFICES ASSUME StudyInv PROVE HoldoutIsUnseen
    OBVIOUS
  <2>1. DOMAIN results = 1..Len(results) /\ Len(results) <= Len(Keys) /\ Len(results) \in Nat
    BY DEF StudyInv
  <2>2. ASSUME NEW i \in With("scored"),
               NEW v \in results[i].model.scored, NEW w \in results[i].model.scored
        PROVE  /\ v.train >= MinTrain /\ v.train < v.from /\ v.to <= Len(history[Keys[i]])
               /\ v = w \/ (v.from..v.to) \cap (w.from..w.to) = {}
    <3>1. i \in 1..Len(results) /\ results[i].status = "scored"
      BY <2>1 DEF With
    <3>2. PICK s : s = history[Keys[i]]
      OBVIOUS
    <3>3. Sound(results[i], job, growth, s, parts[Keys[i]], working) /\ job \in Jobs
      BY <3>1, <3>2 DEF StudyInv
    <3>4. Scored(results[i], s)
      BY <3>1, <3>3 DEF Sound, Jobs
    <3>5. v \in RollingOriginWindows(Len(s)) /\ w \in RollingOriginWindows(Len(s))
      BY <3>4 DEF Scored
    <3>6. Len(s) \in Nat
      <4>1. i \in 1..Len(Keys) /\ Keys \in Seq(Range(Keys))
        BY <2>1, <3>1, PortfolioAssumption
      <4>2. Keys[i] \in Key
        BY <4>1 DEF Key
      <4>3. s \in Seq(Int)
        BY <3>2, <4>2 DEF StudyInv
      <4> QED
        BY <4>3
    <3> QED
      BY <3>2, <3>5, <3>6, FoldsAreDisjoint
  <2>3. ASSUME NEW i \in With("replayed"), NEW j \in With("replayed"), SamePast(i, j)
        PROVE  /\ results[i].pattern = results[j].pattern
               /\ results[i].fitted = results[j].fitted
               /\ results[i].opening = results[j].opening
    <3>1. /\ i \in 1..Len(results) /\ results[i].status = "replayed"
          /\ j \in 1..Len(results) /\ results[j].status = "replayed"
      BY <2>1 DEF With
    <3>2. /\ Sound(results[i], job, growth, history[Keys[i]], parts[Keys[i]], working)
          /\ Sound(results[j], job, growth, history[Keys[j]], parts[Keys[j]], working)
          /\ job \in Jobs
      BY <3>1 DEF StudyInv
    <3>3. /\ Judged(results[i], history[Keys[i]], parts[Keys[i]])
          /\ Judged(results[j], history[Keys[j]], parts[Keys[j]])
      BY <3>1, <3>2 DEF Sound, Jobs
    <3>4. /\ TrainingOf(history[Keys[i]]) = TrainingOf(history[Keys[j]])
          /\ parts[Keys[i]] = parts[Keys[j]]
      BY <2>3 DEF SamePast, TrainingOf
    <3> QED
      BY <3>3, <3>4, Zenon DEF Judged
  <2>4. ASSUME NEW i \in With("reconciled"), NEW j \in With("reconciled"),
               SamePast(i, j), results[i].answer = results[j].answer
        PROVE  /\ results[i].pattern = results[j].pattern
               /\ \A rung \in {"pure_netting", "with_safety_stock", "with_lot_sizing"} :
                     results[i].rungs[rung] = results[j].rungs[rung]
    <3>1. /\ i \in 1..Len(results) /\ results[i].status = "reconciled"
          /\ j \in 1..Len(results) /\ results[j].status = "reconciled"
      BY <2>1 DEF With
    <3>2. /\ Sound(results[i], job, growth, history[Keys[i]], parts[Keys[i]], working)
          /\ Sound(results[j], job, growth, history[Keys[j]], parts[Keys[j]], working)
          /\ job \in Jobs
      BY <3>1 DEF StudyInv
    <3>3. /\ Laddered(results[i], history[Keys[i]], parts[Keys[i]], working)
          /\ Laddered(results[j], history[Keys[j]], parts[Keys[j]], working)
      BY <3>1, <3>2 DEF Sound, Jobs
    <3>4. /\ TrainingOf(history[Keys[i]]) = TrainingOf(history[Keys[j]])
          /\ parts[Keys[i]] = parts[Keys[j]]
      BY <2>4 DEF SamePast, TrainingOf
    <3>5. /\ results[i].pattern = results[j].pattern
          /\ results[i].rungs.pure_netting = results[j].rungs.pure_netting
          /\ results[i].rungs.with_safety_stock = results[j].rungs.with_safety_stock
          /\ results[i].rungs.with_lot_sizing = results[j].rungs.with_lot_sizing
      BY <2>4, <3>3, <3>4, Zenon DEF Laddered
    <3> QED
      BY <3>5
  <2> QED
    BY <2>2, <2>3, <2>4 DEF HoldoutIsUnseen
<1> QED
  BY <1>1, InitStudyInv, StepStudyInv, PTL DEF StudySpec

------------------------------------------------------------------------------
(***************************************************************************)
(* The reports.                                                            *)
(***************************************************************************)
\* h is the size of each group of S.
Sizes(S, group, P, h) ==
    /\ IsFiniteSet(S)
    /\ P = {group[i] : i \in S}
    /\ \A p \in P : h[p] = Cardinality({i \in S : group[i] = p})

\* The groups of a set are as large together as the set.
LEMMA GroupSizes ==
    ASSUME NEW S, NEW group, NEW P, NEW h, Sizes(S, group, P, h)
    PROVE  SumFunctionOnSet(h, P) = Cardinality(S)
<1>0. /\ IsFiniteSet(S) /\ P = {group[i] : i \in S}
      /\ \A p \in P : h[p] = Cardinality({i \in S : group[i] = p})
  BY DEF Sizes
<1> USE <1>0
<1> PICK one : one = [i \in S |-> 1]
  OBVIOUS
<1>1. IntOn(one, S) /\ SumFunctionOnSet(one, S) = Cardinality(S)
  <2>1. \A i \in S : one[i] = 1
    OBVIOUS
  <2> QED
    BY <2>1, SumOfOnes DEF IntOn
<1>2. IsFiniteSet(P)
  BY ImageIsFinite
<1>3. \A i \in S : group[i] \in P
  OBVIOUS
<1>4. ASSUME NEW p \in P
      PROVE  h[p] = SumFunctionOnSet(one, {i \in S : group[i] = p})
  <2> PICK Q : Q = {i \in S : group[i] = p}
    OBVIOUS
  <2>1. IsFiniteSet(Q) /\ \A i \in Q : one[i] = 1
    BY FS_Subset
  <2>2. SumFunctionOnSet(one, Q) = Cardinality(Q)
    BY <2>1, SumOfOnes
  <2> QED
    BY <2>2
<1>5. SumFunctionOnSet(h, P) = SumFunctionOnSet(one, S)
  <2>1. Grouped(one, S, P, group, h)
    BY <1>1, <1>2, <1>3, <1>4 DEF Grouped
  <2> QED
    BY <2>1, SumOfGroups
<1> QED
  BY <1>1, <1>5

\* What is scored and what is not make up the whole.
LEMMA MeansAreWhole ==
    ASSUME NEW S, IsFiniteSet(S), NEW T \in SUBSET S
    PROVE  Whole(ScoredMean(S, T)) = Cardinality(S)
<1>1. IsFiniteSet(T) /\ IsFiniteSet(S \ T)
  BY FS_Subset
<1>2. Cardinality(S \ T) = Cardinality(S) - Cardinality(S \cap T) /\ S \cap T = T
  BY FS_Difference
<1>3. Cardinality(S) \in Nat /\ Cardinality(T) \in Nat
  BY <1>1, FS_CardinalityType
<1>4. Whole(ScoredMean(S, T)) = Cardinality(T) + Cardinality(S \ T)
  BY DEF Whole, ScoredMean
<1>5. Cardinality(S \ T) = Cardinality(S) - Cardinality(T)
  BY <1>2, Zenon
<1> QED
  BY <1>3, <1>4, <1>5

\* The means of the groups make up the whole.
LEMMA GroupsAreWhole ==
    ASSUME NEW S, IsFiniteSet(S), S \subseteq DOMAIN results, NEW T \in SUBSET S,
           NEW by, by = [p \in {results[i].pattern : i \in S} |->
                            ScoredMean(OfPattern(S, p), OfPattern(T, p))]
    PROVE  Groups(by) = Cardinality(S)
<1> PICK group : group = [i \in S |-> results[i].pattern]
  OBVIOUS
<1> PICK P : P = {results[i].pattern : i \in S}
  OBVIOUS
<1> PICK h : h = [p \in P |-> Whole(by[p])]
  OBVIOUS
<1>1. P = {group[i] : i \in S}
  OBVIOUS
<1>2. ASSUME NEW p \in P
      PROVE  h[p] = Cardinality({i \in S : group[i] = p})
  <2>1. IsFiniteSet(OfPattern(S, p)) /\ OfPattern(T, p) \in SUBSET OfPattern(S, p)
    BY FS_Subset DEF OfPattern
  <2>2. h[p] = Cardinality(OfPattern(S, p))
    BY <2>1, MeansAreWhole
  <2>3. OfPattern(S, p) = {i \in S : group[i] = p}
    BY DEF OfPattern
  <2> QED
    BY <2>2, <2>3
<1>3. SumFunctionOnSet(h, P) = Cardinality(S)
  <2>1. Sizes(S, group, P, h)
    BY <1>1, <1>2 DEF Sizes
  <2> QED
    BY <2>1, GroupSizes
<1>4. Groups(by) = SumFunctionOnSet(h, P)
  BY DEF Groups, SumFunction
<1> QED
  BY <1>3, <1>4

LEMMA UpTo ==
    IsFiniteSet(1..Len(Keys)) /\ Cardinality(1..Len(Keys)) = Len(Keys)
<1> PICK n \in Nat : n = Len(Keys)
  BY PortfolioAssumption
<1>1. IsFiniteSet(1..n)
  BY FS_Interval
<1>2. Cardinality(1..n) = IF 1 > n THEN 0 ELSE n - 1 + 1
  <2>1. \A a \in Int : \A b \in Int : Cardinality(a..b) = IF a > b THEN 0 ELSE b - a + 1
    BY FS_Interval, Zenon
  <2>2. 1 \in Int /\ n \in Int
    OBVIOUS
  <2> QED
    BY <2>1, <2>2, Zenon
<1>3. Cardinality(1..n) = n
  BY <1>2
<1> QED
  BY <1>1, <1>3

LEMMA BacktestCounts ==
    ASSUME StudyInv, BacktestReport
    PROVE  HardSeriesAreCounted'
<1>1. /\ job = "backtest" /\ Len(results) = Len(Keys)
      /\ UNCHANGED <<job, history, parts, working, growth, results>>
  BY DEF BacktestReport, Settled, Answer
<1>2. PICK S : S = DOMAIN results
  OBVIOUS
<1>3. S = 1..Len(Keys) /\ IsFiniteSet(S) /\ Cardinality(S) = Len(Keys)
  <2>1. DOMAIN results = 1..Len(results)
    BY DEF StudyInv
  <2>2. S = 1..Len(Keys)
    BY <1>1, <1>2, <2>1
  <2> QED
    BY <2>2, UpTo
<1>4. ASSUME NEW i \in S
      PROVE  /\ results[i].model.scored = results[i].baseline.scored
             /\ results[i].model.isNumber = results[i].baseline.isNumber
  <2>1. Sound(results[i], job, growth, history[Keys[i]], parts[Keys[i]], working)
    BY <1>1, <1>3 DEF StudyInv
  <2> QED
    BY <1>1, <2>1 DEF Sound, Scored
<1>5. PICK T : T = {i \in S : results[i].model.isNumber}
  OBVIOUS
<1>6. Summarise("model") = ScoredMean(S, T) /\ Summarise("baseline") = ScoredMean(S, T)
  <2>1. T = {i \in S : results[i].baseline.isNumber}
    BY <1>4, <1>5
  <2> QED
    BY <1>2, <1>5, <2>1 DEF Summarise
<1>7. PICK by : by = [p \in {results[i].pattern : i \in S} |->
                        ScoredMean(OfPattern(S, p), OfPattern(T, p))]
  OBVIOUS
<1>8. /\ report'.model = Summarise("model") /\ report'.baseline = Summarise("baseline")
      /\ report'.byPattern = by
  <2>1. \A p : {i \in OfPattern(S, p) : results[i].model.isNumber} = OfPattern(T, p)
    BY <1>5 DEF OfPattern
  <2> QED
    BY <1>2, <1>7, <2>1 DEF BacktestReport, Answer
<1>9. Groups(by) = Len(Keys)
  <2>1. T \in SUBSET S /\ S \subseteq DOMAIN results
    BY <1>2, <1>5
  <2>2. Groups(by) = Cardinality(S)
    BY <1>3, <1>7, <2>1, GroupsAreWhole
  <2> QED
    BY <1>3, <2>2
<1>10. Whole(ScoredMean(S, T)) = Len(Keys)
  <2>1. T \in SUBSET S
    BY <1>5
  <2> QED
    BY <1>3, <2>1, MeansAreWhole
<1>11. /\ report'.model = report'.baseline /\ Whole(report'.model) = Len(Keys)
       /\ Groups(report'.byPattern) = Len(Keys)
  BY <1>6, <1>8, <1>9, <1>10
<1> QED
  BY <1>1, <1>2, <1>4, <1>11 DEF HardSeriesAreCounted

LEMMA CompareCounts ==
    ASSUME StudyInv, CompareReport
    PROVE  HardSeriesAreCounted'
<1>1. /\ job = "compare" /\ Len(results) = Len(Keys) /\ With("unmatched") = {}
      /\ UNCHANGED <<job, history, parts, working, growth, results>>
  BY DEF CompareReport, Settled, Answer
<1>2. PICK D : D = DOMAIN results
  OBVIOUS
<1>3. D = 1..Len(Keys) /\ IsFiniteSet(D) /\ Cardinality(D) = Len(Keys)
  <2>1. DOMAIN results = 1..Len(results)
    BY DEF StudyInv
  <2>2. D = 1..Len(Keys)
    BY <1>1, <1>2, <2>1
  <2> QED
    BY <2>2, UpTo
<1>4. ASSUME NEW i \in D
      PROVE  results[i].status \in {"short", "replayed"}
  <2>1. Sound(results[i], job, growth, history[Keys[i]], parts[Keys[i]], working)
    BY <1>1, <1>3 DEF StudyInv
  <2>2. results[i].status # "unmatched"
    BY <1>1, <1>2 DEF With
  <2> QED
    BY <1>1, <2>1, <2>2 DEF Sound
<1>5. PICK S : S = With("replayed")
  OBVIOUS
<1>6. PICK U : U = With("short")
  OBVIOUS
<1>7. D = S \cup U /\ S \cap U = {}
  BY <1>2, <1>4, <1>5, <1>6 DEF With
<1>8. IsFiniteSet(S) /\ IsFiniteSet(U)
  <2>1. S \in SUBSET D /\ U \in SUBSET D
    BY <1>7
  <2> QED
    BY <1>3, <2>1, FS_Subset
<1>9. Cardinality(S) + Cardinality(U) = Len(Keys)
  <2>1. Cardinality(S \cup U) = Cardinality(S) + Cardinality(U) - Cardinality(S \cap U)
    BY <1>8, FS_Union
  <2>2. Cardinality(S \cap U) = 0 /\ Cardinality(S \cup U) = Len(Keys)
    BY <1>3, <1>7, FS_EmptySet
  <2>3. Cardinality(S) \in Nat /\ Cardinality(U) \in Nat
    BY <1>8, FS_CardinalityType
  <2> QED
    BY <2>1, <2>2, <2>3
<1>10. PICK T : T = {i \in S : results[i].demanded # 0}
  OBVIOUS
<1>11. T \in SUBSET S /\ S \in SUBSET S
  BY <1>10
<1>12. PICK by : by = [p \in {results[i].pattern : i \in S} |->
                        ScoredMean(OfPattern(S, p), OfPattern(T, p))]
  OBVIOUS
<1>13. /\ report'.evaluated = Cardinality(S) /\ report'.portfolio = Len(Keys)
       /\ report'.fillRate = [p \in Policy |-> ScoredMean(S, T)]
       /\ report'.onHand = [p \in Policy |-> ScoredMean(S, S)]
       /\ report'.byPattern = by
  BY <1>5, <1>10, <1>12 DEF CompareReport, Answer
<1>14. Groups(by) = Cardinality(S)
  <2>1. S \subseteq DOMAIN results
    BY <1>2, <1>7
  <2> QED
    BY <1>8, <1>11, <1>12, <2>1, GroupsAreWhole
<1>15. Whole(ScoredMean(S, T)) = Cardinality(S) /\ Whole(ScoredMean(S, S)) = Cardinality(S)
  BY <1>8, <1>11, MeansAreWhole
<1>16. /\ report'.evaluated + Cardinality(U) = report'.portfolio
       /\ \A p \in Policy :
            {Whole(report'.fillRate[p]), Whole(report'.onHand[p])} = {report'.evaluated}
       /\ Groups(report'.byPattern) = report'.evaluated
  BY <1>9, <1>13, <1>14, <1>15
<1>17. With("short")' = U
  BY <1>1, <1>6 DEF With
<1> QED
  BY <1>1, <1>16, <1>17 DEF HardSeriesAreCounted

LEMMA SeriesSteps ==
    ASSUME StudyNext
    PROVE  \/ \E r : Enter(r) /\ report = NoReport
           \/ ForecastReport \/ BacktestReport \/ CompareReport \/ ReconcileReport
           \/ RefuseUnmatched \/ RefuseNothing
BY DEF StudyNext, ForecastSeries, ReconcileKey, BacktestKey, TooShort, Unmatched, CompareKey, UnderWay

LEMMA StepCounted ==
    ASSUME StudyInv, HardSeriesAreCounted, [StudyNext]_studyVars
    PROVE  HardSeriesAreCounted'
<1>1. CASE UNCHANGED studyVars
  BY <1>1 DEF studyVars, HardSeriesAreCounted, With
<1>2. CASE \E r : Enter(r) /\ report = NoReport
  <2>1. report'.status = "none"
    BY <1>2 DEF Enter, NoReport
  <2> QED
    BY <2>1 DEF HardSeriesAreCounted
<1>3. CASE RefuseUnmatched \/ RefuseNothing
  <2>1. report'.status = "refused"
    BY <1>3 DEF RefuseUnmatched, RefuseNothing, Answer
  <2> QED
    BY <2>1 DEF HardSeriesAreCounted
<1>4. CASE ForecastReport \/ ReconcileReport
  <2>1. job' = "run" \/ job' = "reconcile"
    BY <1>4 DEF ForecastReport, ReconcileReport, Settled, Answer
  <2> QED
    BY <2>1 DEF HardSeriesAreCounted
<1> QED
  BY <1>1, <1>2, <1>3, <1>4, SeriesSteps, BacktestCounts, CompareCounts

\* Nothing is dropped for being hard: what could not be scored is counted, and the groups add
\* up to the whole, whatever the portfolio.
THEOREM HardSeriesAreAlwaysCounted == StudySpec => []HardSeriesAreCounted
<1>1. StudyInit => HardSeriesAreCounted
  BY DEF StudyInit, NoReport, HardSeriesAreCounted
<1>2. StudyInv /\ HardSeriesAreCounted /\ [StudyNext]_studyVars => HardSeriesAreCounted'
  BY StepCounted
<1> QED
  BY <1>1, <1>2, InitStudyInv, StepStudyInv, PTL DEF StudySpec

\* The pattern mix of a forecast run counts every series.
LEMMA MixIsWhole ==
    ASSUME StudyInv, ForecastReport
    PROVE  SumFunction(report'.mix) = Len(Keys)
<1>1. Len(results) = Len(Keys)
  BY DEF ForecastReport, Settled
<1> PICK S : S = DOMAIN results
  OBVIOUS
<1>2. IsFiniteSet(S) /\ Cardinality(S) = Len(Keys)
  <2>1. DOMAIN results = 1..Len(results)
    BY DEF StudyInv
  <2>2. S = 1..Len(Keys)
    BY <1>1, <2>1
  <2> QED
    BY <2>2, UpTo
<1> PICK group : group = [i \in S |-> results[i].pattern]
  OBVIOUS
<1> PICK P : P = {results[i].pattern : i \in S}
  OBVIOUS
<1> PICK mix : mix = [p \in P |-> Cardinality(OfPattern(S, p))]
  OBVIOUS
<1>3. report'.mix = mix
  BY DEF ForecastReport, Answer
<1>4. Sizes(S, group, P, mix)
  <2>1. P = {group[i] : i \in S}
    OBVIOUS
  <2>2. \A p \in P : mix[p] = Cardinality({i \in S : group[i] = p})
    BY DEF OfPattern
  <2> QED
    BY <1>2, <2>1, <2>2 DEF Sizes
<1>5. SumFunctionOnSet(mix, P) = Len(Keys)
  BY <1>2, <1>4, GroupSizes
<1>6. SumFunction(mix) = SumFunctionOnSet(mix, P)
  BY DEF SumFunction
<1> QED
  BY <1>3, <1>5, <1>6

\* The tally of a run counts the series so far that did not get their model's numbers,
\* and those that lost a trend.
TallyInv ==
    job = "run" =>
        /\ {tally.model_error, tally.non_finite, tally.suppressed} \subseteq Nat
        /\ tally.model_error + tally.non_finite = Cardinality(Replaced)
        /\ tally.suppressed = Cardinality(Displaced)

\* A numbered set that the next number may join.
LEMMA OneMore ==
    ASSUME NEW n \in Nat, NEW A \in SUBSET (1..n), NEW p \in BOOLEAN,
           NEW B, B = IF p THEN A \cup {n + 1} ELSE A
    PROVE  Cardinality(B) = Cardinality(A) + One(p) /\ Cardinality(A) \in Nat
<1>1. IsFiniteSet(1..n)
  BY FS_Interval
<1>2. IsFiniteSet(A)
  BY <1>1, FS_Subset
<1>3. Cardinality(A) \in Nat
  BY <1>2, FS_CardinalityType
<1>4. CASE p
  <2>1. n + 1 \notin A
    OBVIOUS
  <2>2. Cardinality(A \cup {n + 1}) = Cardinality(A) + 1
    BY <1>2, <2>1, FS_AddElement
  <2> QED
    BY <1>3, <1>4, <2>2 DEF One
<1>5. CASE ~p
  BY <1>3, <1>5 DEF One
<1> QED
  BY <1>3, <1>4, <1>5

LEMMA CountRun ==
    ASSUME StudyInv, TallyInv, NEW probe \in Fits, NEW refit \in Fits, ForecastSeries(probe, refit)
    PROVE  TallyInv'
<1>1. job = "run" /\ Len(results) < Len(Keys)
  BY DEF ForecastSeries, UnderWay
<1>2. PICK r : \E e, n, s \in BOOLEAN :
          /\ Enter(r) /\ Count(One(e), One(n), One(s))
          /\ r.status = "forecast" /\ Filed(r, growth)
          /\ e \/ n <=> r.model # "SeasonalNaive" /\ ~IsHonoured(r, growth)
          /\ ~(e /\ n)
          /\ s <=> growth # 0 /\ r.model = "AutoETS" /\ r.answers[1].trend
  BY RunEnters
<1>3. PICK e \in BOOLEAN, n \in BOOLEAN, s \in BOOLEAN :
          /\ Enter(r) /\ Count(One(e), One(n), One(s))
          /\ e \/ n <=> r.model # "SeasonalNaive" /\ ~IsHonoured(r, growth)
          /\ ~(e /\ n)
          /\ s <=> growth # 0 /\ r.model = "AutoETS" /\ r.answers[1].trend
  BY <1>2
<1>4. PICK R : results \in Seq(R)
  BY DEF StudyInv
<1>5. PICK m \in Nat : m = Len(results)
  BY <1>4
<1>6. /\ DOMAIN results = 1..m /\ DOMAIN results' = 1..(m + 1)
      /\ results'[m + 1] = r /\ \A i \in 1..m : results'[i] = results[i]
      /\ growth' = growth /\ job' = job
  BY <1>3, <1>4, <1>5 DEF Enter
<1>7. PICK A : A = Replaced
  OBVIOUS
<1>8. PICK D : D = Displaced
  OBVIOUS
<1>9. PICK p \in BOOLEAN : p = (e \/ n)
  OBVIOUS
<1>10. A = {i \in 1..m : results[i].model # "SeasonalNaive" /\ ~IsHonoured(results[i], growth)}
  BY <1>6, <1>7 DEF Replaced, Honoured, IsHonoured
<1>11. Replaced' = {i \in 1..(m + 1) : results'[i].model # "SeasonalNaive" /\ ~IsHonoured(results'[i], growth)}
  BY <1>6 DEF Replaced, Honoured, IsHonoured, LastAnswer
<1>12. Replaced' = IF p THEN A \cup {m + 1} ELSE A
  <2>1. \A i \in 1..(m + 1) : i \in 1..m \/ i = m + 1
    OBVIOUS
  <2>2. m + 1 \in 1..(m + 1) /\ m + 1 \notin 1..m /\ 1..m \subseteq 1..(m + 1)
    OBVIOUS
  <2> QED
    BY <1>3, <1>6, <1>9, <1>10, <1>11, <2>1, <2>2, Zenon
<1>13. D = {i \in 1..m : growth # 0 /\ results[i].model = "AutoETS" /\ results[i].answers[1].trend}
  BY <1>6, <1>8 DEF Displaced
<1>14. Displaced' = {i \in 1..(m + 1) : growth # 0 /\ results'[i].model = "AutoETS" /\ results'[i].answers[1].trend}
  BY <1>6 DEF Displaced
<1>15. Displaced' = IF s THEN D \cup {m + 1} ELSE D
  <2>1. \A i \in 1..(m + 1) : i \in 1..m \/ i = m + 1
    OBVIOUS
  <2>2. m + 1 \in 1..(m + 1) /\ m + 1 \notin 1..m /\ 1..m \subseteq 1..(m + 1)
    OBVIOUS
  <2> QED
    BY <1>3, <1>6, <1>13, <1>14, <2>1, <2>2, Zenon
<1>16. Cardinality(Replaced') = Cardinality(A) + One(p) /\ Cardinality(A) \in Nat
  <2>1. A \in SUBSET (1..m)
    BY <1>10
  <2> QED
    BY <1>12, <2>1, OneMore
<1>17. Cardinality(Displaced') = Cardinality(D) + One(s) /\ Cardinality(D) \in Nat
  <2>1. D \in SUBSET (1..m)
    BY <1>13
  <2> QED
    BY <1>15, <2>1, OneMore
<1>18. /\ {tally.model_error, tally.non_finite, tally.suppressed} \subseteq Nat
       /\ tally.model_error + tally.non_finite = Cardinality(A)
       /\ tally.suppressed = Cardinality(D)
  BY <1>1, <1>7, <1>8 DEF TallyInv
<1>19. /\ tally'.model_error = tally.model_error + One(e)
       /\ tally'.non_finite = tally.non_finite + One(n)
       /\ tally'.suppressed = tally.suppressed + One(s)
  BY <1>3 DEF Count
<1>20. One(p) = One(e) + One(n) /\ {One(e), One(n), One(s)} \subseteq Nat
  BY <1>3, <1>9 DEF One
<1>21. PICK a, b \in Nat : a = Cardinality(Replaced)' /\ b = Cardinality(Displaced)'
                           /\ a = Cardinality(A) + One(p) /\ b = Cardinality(D) + One(s)
  BY <1>16, <1>17, <1>20
<1>22. /\ {tally'.model_error, tally'.non_finite, tally'.suppressed} \subseteq Nat
       /\ tally'.model_error + tally'.non_finite = a
       /\ tally'.suppressed = b
  BY <1>18, <1>19, <1>20, <1>21
<1> QED
  BY <1>21, <1>22 DEF TallyInv

LEMMA StepTally ==
    ASSUME StudyInv, TallyInv, [StudyNext]_studyVars
    PROVE  TallyInv'
<1>1. CASE \E probe, refit \in Fits : ForecastSeries(probe, refit)
  BY <1>1, CountRun
<1>2. CASE UNCHANGED <<job, growth, results, tally>>
  BY <1>2 DEF TallyInv, Replaced, Displaced, Honoured, LastAnswer
<1>3. CASE \/ \E fit \in Fits : ReconcileKey(fit)
           \/ \E fits \in [1..FoldCount -> Fits] : BacktestKey(fits)
           \/ TooShort \/ Unmatched \/ CompareKey
  <2>1. job' # "run"
    BY <1>3 DEF ReconcileKey, BacktestKey, TooShort, Unmatched, CompareKey, UnderWay, Enter
  <2> QED
    BY <2>1 DEF TallyInv
<1>4. CASE ForecastReport \/ BacktestReport \/ CompareReport \/ ReconcileReport
           \/ RefuseUnmatched \/ RefuseNothing \/ UNCHANGED studyVars
  <2>1. UNCHANGED <<job, growth, results, tally>>
    BY <1>4 DEF ForecastReport, BacktestReport, CompareReport, ReconcileReport,
                RefuseUnmatched, RefuseNothing, Answer, studyVars
  <2> QED
    BY <1>2, <2>1
<1> QED
  BY <1>1, <1>3, <1>4 DEF StudyNext

\* A run's report says what the tally and the patterns come to.
RunReported ==
    job = "run" /\ report.status = "answered" =>
        /\ report.fallbacks.model_error + report.fallbacks.non_finite = Cardinality(Replaced)
        /\ report.suppressed = Cardinality(Displaced)
        /\ SumFunction(report.mix) = Len(Keys)

LEMMA ReportOfRun ==
    ASSUME StudyInv, TallyInv, ForecastReport
    PROVE  RunReported'
<1>1. /\ job = "run" /\ UNCHANGED <<job, growth, results>>
      /\ report'.fallbacks = [f \in {"model_error", "non_finite"} |-> tally[f]]
      /\ report'.suppressed = tally.suppressed
  BY DEF ForecastReport, Settled, Answer
<1>2. report'.fallbacks.model_error = tally.model_error /\ report'.fallbacks.non_finite = tally.non_finite
  BY <1>1
<1>3. Replaced' = Replaced /\ Displaced' = Displaced
  BY <1>1 DEF Replaced, Displaced, Honoured, LastAnswer
<1>4. SumFunction(report'.mix) = Len(Keys)
  BY MixIsWhole
<1>5. /\ tally.model_error + tally.non_finite = Cardinality(Replaced)
      /\ tally.suppressed = Cardinality(Displaced)
  BY <1>1 DEF TallyInv
<1> QED
  BY <1>1, <1>2, <1>3, <1>4, <1>5, Zenon DEF RunReported

LEMMA StepRunReported ==
    ASSUME StudyInv, TallyInv, RunReported, [StudyNext]_studyVars
    PROVE  RunReported'
<1>1. CASE UNCHANGED studyVars
  BY <1>1 DEF studyVars, RunReported, Replaced, Displaced, Honoured, LastAnswer
<1>2. CASE \E r : Enter(r) /\ report = NoReport
  <2>1. report'.status = "none"
    BY <1>2 DEF Enter, NoReport
  <2> QED
    BY <2>1 DEF RunReported
<1>3. CASE RefuseUnmatched \/ RefuseNothing
  <2>1. report'.status = "refused"
    BY <1>3 DEF RefuseUnmatched, RefuseNothing, Answer
  <2> QED
    BY <2>1 DEF RunReported
<1>4. CASE BacktestReport \/ CompareReport \/ ReconcileReport
  <2>1. job' \in {"backtest", "compare", "reconcile"}
    BY <1>4 DEF BacktestReport, CompareReport, ReconcileReport, Settled, Answer
  <2> QED
    BY <2>1 DEF RunReported
<1>5. CASE ForecastReport
  BY <1>5, ReportOfRun
<1> QED
  BY <1>1, <1>2, <1>3, <1>4, <1>5, SeriesSteps

\* A forecast that is filed can be planned with, whatever the models return, and under a
\* growth rate rests on no fitted trend; and a run's report counts every series that got
\* other numbers than its model's, and every one that lost a trend.
THEOREM FiledForecastsAreAlwaysSound == StudySpec => []FiledForecastsAreSound
<1>1. StudyInit => TallyInv /\ RunReported
  <2> SUFFICES ASSUME StudyInit PROVE TallyInv /\ RunReported
    OBVIOUS
  <2>1. results = <<>> /\ tally = Uncounted /\ report = NoReport
    BY DEF StudyInit
  <2>2. Replaced = {} /\ Displaced = {}
    BY <2>1 DEF Replaced, Displaced
  <2>3. Cardinality({}) = 0
    BY FS_EmptySet
  <2>4. tally.model_error = 0 /\ tally.non_finite = 0 /\ tally.suppressed = 0
    BY <2>1 DEF Uncounted
  <2> QED
    BY <2>1, <2>2, <2>3, <2>4 DEF TallyInv, RunReported, NoReport
<1>2. StudyInv /\ TallyInv /\ [StudyNext]_studyVars => TallyInv'
  BY StepTally
<1>3. StudyInv /\ TallyInv /\ RunReported /\ [StudyNext]_studyVars => RunReported'
  BY StepRunReported
<1>4. StudyInv /\ RunReported => FiledForecastsAreSound
  <2> SUFFICES ASSUME StudyInv, RunReported PROVE FiledForecastsAreSound
    OBVIOUS
  <2>1. ASSUME NEW i \in With("forecast")
        PROVE  LET r == results[i]
               IN  /\ r.finite
                   /\ \A b \in 1..Holdout : r.filed[b] >= 0
                   /\ growth # 0 /\ r.model = "AutoETS" /\ Honoured(r) => ~LastAnswer(r).trend
    <3>1. i \in 1..Len(results) /\ results[i].status = "forecast"
      BY DEF With, StudyInv
    <3>2. Sound(results[i], job, growth, history[Keys[i]], parts[Keys[i]], working) /\ job \in Jobs
      BY <3>1 DEF StudyInv
    <3>3. Filed(results[i], growth)
      BY <3>1, <3>2 DEF Sound, Jobs
    <3>4. PICK filed : filed = results[i].filed
      OBVIOUS
    <3>5. \A b \in 1..Holdout : filed[b] >= 0
      <4>1. filed \in [1..Holdout -> Nat]
        BY <3>3, <3>4 DEF Filed
      <4> QED
        BY <4>1
    <3> QED
      BY <3>3, <3>4, <3>5 DEF Filed
  <2> QED
    BY <2>1 DEF FiledForecastsAreSound, RunReported
<1> QED
  BY <1>1, <1>2, <1>3, <1>4, InitStudyInv, StepStudyInv, PTL DEF StudySpec

RungNames == {"pure_netting", "with_safety_stock", "with_lot_sizing", "against_actuals",
              "with_truncation", "simulated"}

\* The series that went up the ladder.
LEMMA Climbers ==
    ASSUME StudyInv
    PROVE  /\ IsFiniteSet(With("reconciled"))
           /\ With("reconciled") \subseteq DOMAIN results
           /\ \A i \in With("reconciled") : Climbs(results[i].rungs)
<1>1. IsFiniteSet(DOMAIN results) /\ DOMAIN results = 1..Len(results)
  <2>1. DOMAIN results = 1..Len(results) /\ Len(results) \in Nat
    BY DEF StudyInv
  <2> PICK n \in Nat : n = Len(results)
    BY <2>1
  <2>2. IsFiniteSet(1..n)
    BY FS_Interval
  <2> QED
    BY <2>1, <2>2
<1>2. With("reconciled") \in SUBSET (DOMAIN results)
  BY DEF With
<1>3. ASSUME NEW i \in With("reconciled") PROVE Climbs(results[i].rungs)
  <2>1. i \in 1..Len(results) /\ results[i].status = "reconciled"
    BY <1>1 DEF With
  <2>2. Sound(results[i], job, growth, history[Keys[i]], parts[Keys[i]], working) /\ job \in Jobs
    BY <2>1 DEF StudyInv
  <2> QED
    BY <2>1, <2>2 DEF Sound, Jobs, Laddered
<1>4. IsFiniteSet(With("reconciled"))
  BY <1>1, <1>2, FS_Subset
<1> QED
  BY <1>2, <1>3, <1>4

LEMMA RungInt ==
    ASSUME NEW r, Climbs(r), NEW rung \in RungNames
    PROVE  r[rung] \in Int
BY DEF Climbs, Rungs, RungNames

\* A rung's total over some series.
LEMMA Totals ==
    ASSUME NEW S, IsFiniteSet(S), \A i \in S : Climbs(results[i].rungs), NEW rung \in RungNames,
           NEW f, f = [i \in S |-> results[i].rungs[rung]]
    PROVE  IntOn(f, S) /\ Total(S, rung) = SumFunctionOnSet(f, S) /\ Total(S, rung) \in Int
<1>1. IntOn(f, S)
  BY RungInt DEF IntOn
<1>2. Total(S, rung) = SumFunctionOnSet(f, S)
  BY DEF Total, SumOf, SumFunction
<1> QED
  BY <1>1, <1>2, SumInt

LEMMA TotalOfOne ==
    ASSUME NEW i, Climbs(results[i].rungs), NEW rung \in RungNames
    PROVE  Total({i}, rung) = results[i].rungs[rung]
<1> PICK S : S = {i}
  OBVIOUS
<1>1. IsFiniteSet(S) /\ \A j \in S : Climbs(results[j].rungs)
  BY FS_Singleton
<1> PICK f : f = [j \in S |-> results[j].rungs[rung]]
  OBVIOUS
<1>2. IntOn(f, S) /\ Total(S, rung) = SumFunctionOnSet(f, S)
  BY <1>1, Totals
<1>3. SumFunctionOnSet(f, S) = f[i] + SumFunctionOnSet(f, S \ {i})
  BY <1>1, <1>2, SumRemove
<1>4. SumFunctionOnSet(f, S \ {i}) = 0
  <2>1. S \ {i} = {}
    OBVIOUS
  <2> QED
    BY <2>1, SumEmpty
<1>5. f[i] = results[i].rungs[rung] /\ f[i] \in Int
  BY <1>2 DEF IntOn
<1>6. SumFunctionOnSet(f, S) = f[i]
  BY <1>3, <1>4, <1>5
<1> QED
  BY <1>2, <1>5, <1>6

\* Series by series the terms mean what they say.
LEMMA TermsOfOne ==
    ASSUME StudyInv, NEW i \in With("reconciled")
    PROVE  LET terms == Terms({i})
           IN  /\ terms.safety_stock >= 0 /\ terms.lot_granularity >= 0
               /\ terms.stockout_truncation >= 0
               /\ results[i].rungs.with_truncation = results[i].rungs.simulated
<1> PICK r : r = results[i].rungs
  OBVIOUS
<1>1. Climbs(r)
  BY Climbers
<1>2. \A rung \in RungNames : Total({i}, rung) = r[rung]
  BY <1>1, TotalOfOne
<1>3. /\ Total({i}, "pure_netting") = r.pure_netting
      /\ Total({i}, "with_safety_stock") = r.with_safety_stock
      /\ Total({i}, "with_lot_sizing") = r.with_lot_sizing
      /\ Total({i}, "against_actuals") = r.against_actuals
      /\ Total({i}, "with_truncation") = r.with_truncation
  BY <1>2 DEF RungNames
<1> PICK u : u = Terms({i})
  OBVIOUS
<1>4. /\ u.safety_stock = r.with_safety_stock - r.pure_netting
      /\ u.lot_granularity = r.with_lot_sizing - r.with_safety_stock
      /\ u.stockout_truncation = r.with_truncation - r.against_actuals
  BY <1>3 DEF Terms
<1>5. /\ r.pure_netting \in Int /\ r.with_safety_stock \in Int /\ r.with_lot_sizing \in Int
      /\ r.against_actuals \in Int /\ r.with_truncation \in Int
  BY <1>1 DEF Climbs, Rungs
<1>6. /\ r.pure_netting <= r.with_safety_stock /\ r.with_safety_stock <= r.with_lot_sizing
      /\ r.against_actuals <= r.with_truncation /\ r.with_truncation = r.simulated
  BY <1>1 DEF Climbs
<1>7. u.safety_stock >= 0 /\ u.lot_granularity >= 0 /\ u.stockout_truncation >= 0
  BY <1>4, <1>5, <1>6
<1> QED
  BY <1>6, <1>7

\* Over any series, the two terms after the plan lead from its stock to the replayed one.
LEMMA TermsBridge ==
    ASSUME NEW S, IsFiniteSet(S), \A i \in S : Climbs(results[i].rungs),
           NEW d, d = [i \in S |-> results[i].rungs.with_truncation - results[i].rungs.with_lot_sizing]
    PROVE  /\ IntOn(d, S)
           /\ SumFunctionOnSet(d, S) = Total(S, "with_truncation") - Total(S, "with_lot_sizing")
           /\ Terms(S).forecast_error + Terms(S).stockout_truncation = SumFunctionOnSet(d, S)
           /\ SumFunctionOnSet(d, S) \in Int
<1> PICK lot, trunc : /\ lot = [i \in S |-> results[i].rungs["with_lot_sizing"]]
                      /\ trunc = [i \in S |-> results[i].rungs["with_truncation"]]
  OBVIOUS
<1>0. {"with_lot_sizing", "with_truncation", "against_actuals"} \subseteq RungNames
  BY DEF RungNames
<1>1. IntOn(lot, S) /\ IntOn(trunc, S) /\ Total(S, "with_lot_sizing") = SumFunctionOnSet(lot, S)
      /\ Total(S, "with_truncation") = SumFunctionOnSet(trunc, S)
  BY <1>0, Totals
<1>2. PICK a, l, u : a = Total(S, "against_actuals") /\ l = Total(S, "with_lot_sizing")
                     /\ u = Total(S, "with_truncation")
  OBVIOUS
<1>3. a \in Int /\ l \in Int /\ u \in Int
  BY <1>0, <1>2, Totals
<1>4. IntOn(d, S) /\ \A i \in S : trunc[i] = d[i] + lot[i]
  <2> SUFFICES ASSUME NEW i \in S PROVE d[i] \in Int /\ trunc[i] = d[i] + lot[i]
    BY DEF IntOn
  <2>1. lot[i] \in Int /\ trunc[i] \in Int
    BY <1>1 DEF IntOn
  <2>2. d[i] = trunc[i] - lot[i]
    OBVIOUS
  <2> QED
    BY <2>1, <2>2
<1>5. SumFunctionOnSet(trunc, S) = SumFunctionOnSet(d, S) + SumFunctionOnSet(lot, S)
  BY <1>1, <1>4, SumPlus
<1>6. PICK s \in Int : s = SumFunctionOnSet(d, S)
  BY <1>4, SumInt
<1>7. s = u - l
  BY <1>1, <1>2, <1>3, <1>5, <1>6
<1>8. Terms(S).forecast_error = a - l /\ Terms(S).stockout_truncation = u - a
  BY <1>2 DEF Terms
<1>9. Terms(S).forecast_error + Terms(S).stockout_truncation = s
  BY <1>3, <1>7, <1>8
<1> QED
  BY <1>2, <1>4, <1>6, <1>7, <1>9

\* Over the groups the terms add up to the gap between the two engines.
LEMMA TermsAddUp ==
    ASSUME StudyInv, ReconcileReport
    PROVE  /\ report'.plan - report'.replayed =
                - SumFunction([p \in DOMAIN report'.byPattern |->
                    report'.byPattern[p].forecast_error + report'.byPattern[p].stockout_truncation])
           /\ report'.residual = 0
<1> PICK S : S = With("reconciled")
  OBVIOUS
<1>1. IsFiniteSet(S) /\ \A i \in S : Climbs(results[i].rungs)
  BY Climbers
<1> PICK P : P = {results[i].pattern : i \in S}
  OBVIOUS
<1> PICK group : group = [i \in S |-> results[i].pattern]
  OBVIOUS
<1> PICK by : by = [p \in P |-> Terms(OfPattern(S, p))]
  OBVIOUS
<1> PICK h : h = [p \in P |-> by[p].forecast_error + by[p].stockout_truncation]
  OBVIOUS
<1> PICK d : d = [i \in S |-> results[i].rungs.with_truncation - results[i].rungs.with_lot_sizing]
  OBVIOUS
<1>2. /\ report'.plan = Total(S, "with_lot_sizing") /\ report'.replayed = Total(S, "with_truncation")
      /\ report'.residual = Total(S, "with_truncation") - Total(S, "simulated")
      /\ report'.byPattern = by
  BY DEF ReconcileReport, Answer
<1>3. /\ IntOn(d, S) /\ SumFunctionOnSet(d, S) \in Int
      /\ SumFunctionOnSet(d, S) = Total(S, "with_truncation") - Total(S, "with_lot_sizing")
  BY <1>1, TermsBridge
<1>4. ASSUME NEW p \in P
      PROVE  h[p] = SumFunctionOnSet(d, {i \in S : group[i] = p})
  <2> PICK Q : Q = OfPattern(S, p)
    OBVIOUS
  <2>1. Q \in SUBSET S /\ Q = {i \in S : group[i] = p}
    BY DEF OfPattern
  <2>2. IsFiniteSet(Q) /\ \A i \in Q : Climbs(results[i].rungs)
    BY <1>1, <2>1, FS_Subset
  <2> PICK e : e = [i \in Q |-> results[i].rungs.with_truncation - results[i].rungs.with_lot_sizing]
    OBVIOUS
  <2>3. /\ Terms(Q).forecast_error + Terms(Q).stockout_truncation = SumFunctionOnSet(e, Q)
    BY <2>2, TermsBridge
  <2>4. h[p] = Terms(Q).forecast_error + Terms(Q).stockout_truncation
    OBVIOUS
  <2>5. SumFunctionOnSet(e, Q) = SumFunctionOnSet(d, Q)
    <3>1. Agree(e, d, Q)
      BY <2>1 DEF Agree
    <3> QED
      BY <2>2, <3>1, SumSame
  <2> QED
    BY <2>1, <2>3, <2>4, <2>5
<1>5. SumFunctionOnSet(h, P) = SumFunctionOnSet(d, S)
  <2>1. IsFiniteSet(P)
    <3>1. IsFiniteSet({group[i] : i \in S})
      BY <1>1, ImageIsFinite
    <3>2. P = {group[i] : i \in S}
      OBVIOUS
    <3> QED
      BY <3>1, <3>2
  <2>2. \A i \in S : group[i] \in P
    OBVIOUS
  <2>3. Grouped(d, S, P, group, h)
    BY <1>1, <1>3, <1>4, <2>1, <2>2 DEF Grouped
  <2> QED
    BY <2>3, SumOfGroups
<1>6. SumFunction(h) = SumFunctionOnSet(h, P)
  BY DEF SumFunction
<1>7. Total(S, "with_lot_sizing") \in Int /\ Total(S, "with_truncation") \in Int
  <2>1. "with_lot_sizing" \in RungNames /\ "with_truncation" \in RungNames
    BY DEF RungNames
  <2> QED
    BY <1>1, <2>1, Totals
<1>8. Total(S, "with_truncation") = Total(S, "simulated")
  <2> PICK f, g : /\ f = [i \in S |-> results[i].rungs["with_truncation"]]
                  /\ g = [i \in S |-> results[i].rungs["simulated"]]
    OBVIOUS
  <2>1. Agree(f, g, S)
    <3>1. \A i \in S : results[i].rungs.with_truncation = results[i].rungs.simulated
      BY <1>1 DEF Climbs
    <3> QED
      BY <3>1 DEF Agree
  <2>2. SumFunctionOnSet(f, S) = SumFunctionOnSet(g, S)
    BY <1>1, <2>1, SumSame
  <2>3. "simulated" \in RungNames /\ "with_truncation" \in RungNames
    BY DEF RungNames
  <2> QED
    BY <1>1, <2>2, <2>3, Totals
<1>9. report'.residual = 0
  BY <1>2, <1>7, <1>8
<1>10. report'.plan - report'.replayed = - SumFunction(h)
  <2> PICK p, q, s : p = Total(S, "with_lot_sizing") /\ q = Total(S, "with_truncation")
                     /\ s = SumFunction(h)
    OBVIOUS
  <2>1. p \in Int /\ q \in Int /\ s = q - p
    BY <1>3, <1>5, <1>6, <1>7
  <2>2. p - q = - s
    BY <2>1
  <2> QED
    BY <1>2, <2>2
<1>11. h = [p \in DOMAIN report'.byPattern |->
              report'.byPattern[p].forecast_error + report'.byPattern[p].stockout_truncation]
  BY <1>2
<1> QED
  BY <1>9, <1>10, <1>11

TermsReported ==
    job = "reconcile" /\ report.status = "answered" =>
        /\ report.plan - report.replayed =
              - SumFunction([p \in DOMAIN report.byPattern |->
                  report.byPattern[p].forecast_error + report.byPattern[p].stockout_truncation])
        /\ report.residual = 0

LEMMA StepTermsReported ==
    ASSUME StudyInv, TermsReported, [StudyNext]_studyVars
    PROVE  TermsReported'
<1>1. CASE UNCHANGED studyVars
  BY <1>1 DEF studyVars, TermsReported
<1>2. CASE \E r : Enter(r) /\ report = NoReport
  <2>1. report'.status = "none"
    BY <1>2 DEF Enter, NoReport
  <2> QED
    BY <2>1 DEF TermsReported
<1>3. CASE RefuseUnmatched \/ RefuseNothing
  <2>1. report'.status = "refused"
    BY <1>3 DEF RefuseUnmatched, RefuseNothing, Answer
  <2> QED
    BY <2>1 DEF TermsReported
<1>4. CASE BacktestReport \/ CompareReport \/ ForecastReport
  <2>1. job' \in {"backtest", "compare", "run"}
    BY <1>4 DEF BacktestReport, CompareReport, ForecastReport, Settled, Answer
  <2> QED
    BY <2>1 DEF TermsReported
<1>5. CASE ReconcileReport
  BY <1>5, TermsAddUp DEF TermsReported
<1> QED
  BY <1>1, <1>2, <1>3, <1>4, <1>5, SeriesSteps

\* The ladder's terms mean what they say, series by series and over the groups, for any
\* portfolio: safety stock and lots only add stock, a stockout only cuts off a debt, and the
\* separately written engine leaves no residual.
THEOREM TermsAlwaysMeanWhatTheySay == StudySpec => []TermsMeanWhatTheySay
<1>1. StudyInit => TermsReported
  BY DEF StudyInit, NoReport, TermsReported
<1>2. StudyInv /\ TermsReported /\ [StudyNext]_studyVars => TermsReported'
  BY StepTermsReported
<1>3. StudyInv /\ TermsReported => TermsMeanWhatTheySay
  BY TermsOfOne DEF TermsMeanWhatTheySay, TermsReported
<1> QED
  BY <1>1, <1>2, <1>3, InitStudyInv, StepStudyInv, PTL DEF StudySpec
==============================================================================
