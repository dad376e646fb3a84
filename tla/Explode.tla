------------------------------- MODULE Explode -------------------------------
(***************************************************************************)
(* The plan of a whole product structure: cost_lot_sizing and explode of   *)
(* planbrain/netreq/explode.py, called in that order by netreq.run.  The   *)
(* SKUs with a routing are priced for Wagner-Whitin if the run asks for    *)
(* it.  Every SKU gets its low-level code, by relaxing the BOM edges in    *)
(* list order until a round changes nothing.  Then the SKUs are planned in *)
(* the order of their codes, each by plan_item (module Netting), and each  *)
(* hands what its releases consume down to its components.                 *)
(*                                                                         *)
(* A plant is a dataset: parts maps a SKU to its item, with the            *)
(* independent demand as gross requirement; cost to its unit cost in money *)
(* per bucket held; setup maps a routed SKU to the cost of a changeover;   *)
(* bom is the list of edges; costBased is the lot_sizing option.  Its shop *)
(* is described in Capacity, raw and reasons in Screens.  The members of   *)
(* Plant are families of plants, with a set of parts and a set of shops.   *)
(***************************************************************************)
EXTENDS Netting, Sequences

CONSTANT Plant

ASSUME PlantAssumption ==
    \A p \in Plant :
        /\ {"parts", "shop", "cost", "setup", "bom", "costBased"} \subseteq DOMAIN p
        /\ \A f \in p.parts :
             /\ DOMAIN f \subseteq Nat /\ DOMAIN f # {} /\ IsFiniteSet(DOMAIN f)
             /\ \A s \in DOMAIN f : IsItem(f[s])
             /\ \A r, s \in DOMAIN f : f[r].working = f[s].working
             /\ p.cost \in [DOMAIN f -> Nat]
        /\ p.bom \in Seq([parent : Nat, child : Nat, qty : Nat])
        /\ DOMAIN p.setup \subseteq Nat /\ \A s \in DOMAIN p.setup : p.setup[s] \in Nat
        /\ p.costBased \in BOOLEAN

VARIABLES
    plant,      \* the dataset
    stage,      \* costs, levels, plan, planned; or the exception raised
    costed,     \* lot_sizing_override: the SKUs with a rule of their own
    codes,      \* low-level code of each SKU
    edge,       \* next BOM edge of the round
    round,      \* rounds of relaxation begun
    changed,    \* whether this round has raised a code
    dependent,  \* dependent demand of each SKU
    plans       \* finished plans, in order

levelVars == <<costed, codes, edge, round, changed>>
explodeVars == <<plant, stage, costed, codes, edge, round, changed, dependent, plans>>

Skus == DOMAIN plant.parts
Edges == DOMAIN plant.bom
Parent(i) == plant.bom[i].parent
Child(i) == plant.bom[i].child

\* Nothing is netted before the codes are known: item stands at any part.
ExplodeInit ==
    /\ \E p \in Plant : \E f \in p.parts, h \in p.shop :
         plant = [p EXCEPT !.parts = f, !.shop = h]
    /\ item = plant.parts[CHOOSE s \in Skus : TRUE]
    /\ Fresh
    /\ stage = "costs"
    /\ costed = [s \in {} |-> item.lot]
    /\ codes = [s \in Skus |-> 0]
    /\ edge = 1
    /\ round = 1
    /\ changed = FALSE
    /\ dependent = [s \in Skus |-> Zeros]
    /\ plans = <<>>

------------------------------------------------------------------------------
(***************************************************************************)
(* cost_lot_sizing.                                                        *)
(***************************************************************************)
\* The routed SKUs whose changeover costs something.
Changeovers == {s \in DOMAIN plant.setup : plant.setup[s] > 0}

Pricing ==
    /\ stage = "costs"
    /\ UNCHANGED <<vars, plant, codes, edge, round, changed, dependent, plans>>

\* The lot policies stay as the part master has them.
AsMaster ==
    /\ Pricing
    /\ ~plant.costBased
    /\ stage' = "levels"
    /\ UNCHANGED costed

RefuseRouting ==
    /\ Pricing
    /\ plant.costBased
    /\ ~ Changeovers \subseteq Skus
    /\ stage' = "uncosted"
    /\ UNCHANGED costed

\* A part that costs nothing to hold keeps the policy it has.
PriceLots ==
    /\ Pricing
    /\ plant.costBased
    /\ Changeovers \subseteq Skus
    /\ stage' = "levels"
    /\ costed' = [s \in {c \in Changeovers : plant.cost[c] > 0} |->
                    [policy |-> "wagner_whitin",
                     setup |-> plant.setup[s], holding |-> plant.cost[s]]]

------------------------------------------------------------------------------
(***************************************************************************)
(* low_level_codes.                                                        *)
(***************************************************************************)
Relaxing ==
    /\ stage = "levels"
    /\ edge <= Len(plant.bom)
    /\ UNCHANGED <<vars, plant, dependent, plans>>

Known(i) == {Parent(i), Child(i)} \subseteq Skus

RefuseEdge ==
    /\ Relaxing
    /\ ~Known(edge)
    /\ stage' = "unknown_sku"
    /\ UNCHANGED levelVars

\* Mutant of Below: a SKU keeps the first code below another it is given.
BelowTop(i) == codes[Child(i)] = 0

\* The child has yet to be put below this parent.
Below(i) == codes[Child(i)] < codes[Parent(i)] + 1

RelaxEdge ==
    /\ Relaxing
    /\ Known(edge)
    /\ edge' = edge + 1
    /\ codes' = IF Below(edge) THEN [codes EXCEPT ![Child(edge)] = codes[Parent(edge)] + 1]
                ELSE codes
    /\ changed' = (changed \/ Below(edge))
    /\ UNCHANGED <<stage, costed, round>>

\* Mutant of Rounds: no round left to see that nothing changes any more.
RoundsToRaise == Cardinality(Skus) - 1

Rounds == Cardinality(Skus) + 1

RoundOver ==
    /\ stage = "levels"
    /\ edge = Len(plant.bom) + 1

NextRound ==
    /\ RoundOver
    /\ changed
    /\ round < Rounds
    /\ round' = round + 1
    /\ edge' = 1
    /\ changed' = FALSE
    /\ UNCHANGED <<vars, plant, stage, costed, codes, dependent, plans>>

RefuseCycle ==
    /\ RoundOver
    /\ changed
    /\ round >= Rounds
    /\ stage' = "cycle"
    /\ UNCHANGED <<vars, plant, levelVars, dependent, plans>>

------------------------------------------------------------------------------
(***************************************************************************)
(* explode.                                                                *)
(***************************************************************************)
\* _lot_sizing_for: the costed rule where there is one.
LotSizingFor(s) == IF s \in DOMAIN costed THEN costed[s] ELSE plant.parts[s].lot

\* The item of SKU s, asked for its own demand and this dependent demand.
ItemFor(s, demand) ==
    LET part == plant.parts[s]
    IN [part EXCEPT !.lot = LotSizingFor(s),
                    !.gross = [b \in Bucket |-> part.gross[b] + demand[b]]]

\* plan_item starts on item i.
Begin(i) ==
    /\ item' = i
    /\ phase' = "net"
    /\ t' = 0
    /\ balance' = i.onHand
    /\ net' = Zeros
    /\ receipts' = Zeros
    /\ projected' = Zeros
    /\ releases' = Zeros
    /\ pastDue' = {}

ToPlan == Skus \ {plans[i].sku : i \in DOMAIN plans}

Foremost(skus) ==
    CHOOSE s \in skus : \A r \in skus :
        codes[s] < codes[r] \/ (codes[s] = codes[r] /\ s <= r)

\* The SKU plan_item is at.
Current == Foremost(ToPlan)

StartPlanning ==
    /\ RoundOver
    /\ ~changed
    /\ stage' = "plan"
    /\ Begin(ItemFor(Current, dependent[Current]))
    /\ UNCHANGED <<plant, levelVars, dependent, plans>>

PlanItem ==
    /\ stage = "plan"
    /\ Next
    /\ UNCHANGED explodeVars

\* What an edge asks of its component when production of the parent starts.
Pulled(i) == [b \in Bucket |-> releases[b] * plant.bom[i].qty]

HandDown ==
    /\ stage = "plan"
    /\ phase = "done"
    /\ dependent' = [s \in Skus |-> [b \in Bucket |->
           dependent[s][b]
           + SumFunction([i \in {j \in Edges : Parent(j) = Current /\ Child(j) = s} |-> Pulled(i)[b]])]]
    /\ plans' = Append(plans, [sku |-> Current, gross |-> item.gross, releases |-> releases,
                             projected |-> projected, pastDue |-> pastDue])
    /\ LET rest == ToPlan \ {Current}
       IN IF rest = {} THEN stage' = "planned" /\ UNCHANGED vars
          ELSE /\ Begin(ItemFor(Foremost(rest), dependent'[Foremost(rest)]))
               /\ UNCHANGED stage
    /\ UNCHANGED <<plant, levelVars>>

ExplodeNext ==
    \/ AsMaster \/ PriceLots \/ RefuseRouting
    \/ RefuseEdge \/ RelaxEdge \/ NextRound \/ RefuseCycle
    \/ StartPlanning \/ PlanItem \/ HandDown

ExplodeSpec == ExplodeInit /\ [][ExplodeNext]_<<vars, explodeVars>>

------------------------------------------------------------------------------
(***************************************************************************)
(* Properties.                                                             *)
(***************************************************************************)
\* No component is planned against an incomplete requirement (the failure
\* explode.py's header calls silent): when all is planned, the gross
\* requirement each SKU was netted against is its own demand and what every
\* release of every parent consumes.
RequirementsAreComplete ==
    stage = "planned" =>
        \A n \in DOMAIN plans : \A b \in Bucket :
            LET s == plans[n].sku
                pull(i) == LET m == CHOOSE m \in DOMAIN plans : plans[m].sku = Parent(i)
                           IN plans[m].releases[b] * plant.bom[i].qty
            IN plans[n].gross[b] =
                 plant.parts[s].gross[b]
                 + SumFunction([i \in {j \in Edges : Child(j) = s} |-> pull(i)])

\* The SKUs reachable from a set by at most n edges.
Reached(from, n) ==
    LET reach[k \in 0..n] ==
          IF k = 0 THEN from
          ELSE reach[k-1] \cup {Child(i) : i \in {j \in Edges : Parent(j) \in reach[k-1]}}
    IN reach[n]

Cyclic ==
    \E s \in Skus :
        s \in Reached({Child(i) : i \in {j \in Edges : Parent(j) = s}}, Cardinality(Skus))

\* A BOM is refused exactly for what the message says: as unknown when an edge
\* names a SKU nobody defined, as a cycle when a SKU is part of itself at any
\* depth, whatever the order of the edges; every other BOM is planned.
RefusedForCause ==
    /\ stage = "unknown_sku" => \E i \in Edges : ~Known(i)
    /\ stage = "cycle" => Cyclic /\ \A i \in Edges : Known(i)
    /\ stage \in {"plan", "planned"} => ~Cyclic /\ \A i \in Edges : Known(i)
==============================================================================
