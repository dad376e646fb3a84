------------------------------- MODULE Policies -------------------------------
(***************************************************************************)
(* The replay under the rules of planbrain/simulate/policies.py: order up  *)
(* to a forecast, the textbook reorder point, and the spreadsheet's moving *)
(* average.  A zero forecast is a list of one zero.                        *)
(*                                                                         *)
(* What a rule is fitted on is abstracted: a forecast is a list of whole   *)
(* numbers, the mean or moving average a rate, and the sigma term or the   *)
(* days of cover a safety stock.  The rule "any" orders what it likes, up  *)
(* to a bound.                                                             *)
(***************************************************************************)
EXTENDS Replay

CONSTANT Rules    \* the rules to replay under

Fitted == {"reorder_point", "moving_average"}

\* The reorder point's sigma term is negative at a service level below one half.
IsRule(r) ==
    \/ r.kind = "any" /\ r.most \in Nat
    \/ /\ r.kind = "up_to"
       /\ r.forecast \in Seq(Nat)
       /\ r.safety \in Int /\ r.lot \in Nat
    \/ /\ r.kind \in Fitted
       /\ r.safety \in Int /\ {r.rate, r.lot} \subseteq Nat

ASSUME RuleAssumption == \A r \in Rules : IsRule(r)

VARIABLES
    rule,   \* the policy
    came    \* history: so far every delivery and every demand came as expected

------------------------------------------------------------------------------
\* What the rule expects bucket b to ask for; a forecast is clipped at its end.
Expected(b) ==
    IF rule.kind = "up_to"
    THEN IF b < Len(rule.forecast) THEN rule.forecast[b + 1] ELSE 0
    ELSE rule.rate

\* Mutant of Window: an order only has to last until it arrives.
LeadOnly == setting.lead

\* An order of today covers demand until the next one could arrive.
Window == setting.lead + setting.review

\* _cover from bucket t.
Cover == SumFunction([b \in t..(t + Window - 1) |-> Expected(b)])

\* Mutant of Position: what is on its way is forgotten.
OnTheShelf == onHand - backlog

\* What the policy sees: stock less debt, and everything on its way.
Position == onHand - backlog + SumFunction(pipeline)

\* s of the reorder point, reorder_at of the moving average.
Trigger == Cover + rule.safety

\* The position an order aims at.  The reorder point adds its order quantity,
\* the moving average a second window and rounds to the quantity.
Target ==
    CASE rule.kind = "up_to"          -> Trigger
      [] rule.kind = "moving_average" -> Trigger + Cover
      [] rule.kind = "reorder_point"  ->
            Trigger + (IF rule.lot > 0 THEN rule.lot ELSE Cover)

RoundUp(q, lot) == IF lot = 0 THEN q ELSE ((q + lot - 1) \div lot) * lot

Shortfall == IF Position < Target THEN Target - Position ELSE 0

\* The quantity the policy answers a review with.
Wanted ==
    CASE rule.kind = "up_to"          -> RoundUp(Shortfall, rule.lot)
      [] Position > Trigger           -> 0
      [] rule.kind = "moving_average" -> RoundUp(Shortfall, rule.lot)
      [] OTHER                        -> Shortfall

\* What it may answer; nothing is asked between reviews.
Answers ==
    IF rule.kind = "any" THEN 0..rule.most ELSE {IF ReviewDay THEN Wanted ELSE 0}
Orders == Answers \cap 1..MaxOrder

------------------------------------------------------------------------------
PolicyInit ==
    /\ Init
    /\ rule \in Rules
    /\ came = (rule.kind # "any")

As(expected) == came' = (came /\ expected) /\ UNCHANGED rule

\* A replay, with orders that are the policy's.
PolicyCollect(factor) == Collect(factor) /\ As(factor = 1)
PolicySilent == OrderNothing /\ 0 \in Answers /\ As(TRUE)
PolicyForToday(q, factor) == OrderForToday(q, factor) /\ As(factor = 1)
PolicyAhead(q) == OrderAhead(q) /\ As(TRUE)
PolicyServe(q) == Serve(q) /\ As(came /\ q = Expected(t))

PolicyNext ==
    \/ \E factor \in {0, 1} : PolicyCollect(factor)
    \/ PolicySilent
    \/ \E q \in Orders, factor \in {0, 1} : PolicyForToday(q, factor)
    \/ \E q \in Orders : PolicyAhead(q)
    \/ \E q \in 0..MaxDemand : PolicyServe(q)

PolicySpec == PolicyInit /\ [][PolicyNext]_<<vars, rule, came>>

------------------------------------------------------------------------------
(***************************************************************************)
(* Properties.                                                             *)
(***************************************************************************)
\* All came as expected, and the rule means to have what it expects to be asked for.
AsExpected == came /\ rule.safety >= 0

\* The protection window is long enough: while plant and customers do as the
\* rule expects, every customer is served on the day from the bucket the first
\* order can arrive in, at every lead time and review period and however little
\* stock there was to begin with.  Only a rule that aims below what it expects,
\* because its service level is below one half, promises nobody anything.
ExpectedDemandIsServed ==
    [][AsExpected' /\ t' > t /\ t >= setting.lead =>
           counts'.onTime - counts.onTime = Expected(t)]_<<vars, rule, came>>

Held == onHand + SumFunction(pipeline) - backlog

\* No review lifts the position past the rule's target and one lot, however many
\* orders are still on their way, and no step but a review lifts it at all.
NeverOrderedTwice ==
    [][rule.kind # "any" /\ Held' > Held =>
           /\ pc = "review"
           /\ Held' < Target + (IF rule.lot > 0 THEN rule.lot ELSE 1)
       ]_<<vars, rule, came>>

------------------------------------------------------------------------------
(***************************************************************************)
(* The inductive invariants behind the theorems of ReplayProofs.           *)
(***************************************************************************)
\* What was collected has left the pipeline.
CollectedInv == \A a \in Arrival : a < NextArrival => pipeline[a] = 0

\* The reviews still to be held, as far as one period ahead.
ReviewsAhead ==
    LET next == IF pc = "serve" THEN t + 1 ELSE t
    IN {r \in next..(next + setting.review) : r % setting.review = 0}

\* A bucket the reviews held so far answer for: an order could have reached it, and
\* the next one cannot.
AnsweredFor(b) == b >= t /\ b >= setting.lead /\ \A r \in ReviewsAhead : b < r + setting.lead

\* Up to every such bucket there is as much in stock and on its way as is owed and
\* expected.
CoverInv ==
    AsExpected =>
        /\ rule.kind # "any"
        /\ \A b \in Arrival : AnsweredFor(b) =>
              SumFunction([i \in t..b |-> Expected(i)])
                <= onHand - backlog + SumFunction([a \in t..b |-> pipeline[a]])

PolicyInv == rule \in Rules /\ ReplayInv /\ CollectedInv /\ CoverInv
===============================================================================
