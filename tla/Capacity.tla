------------------------------- MODULE Capacity -------------------------------
(***************************************************************************)
(* Rough-cut capacity of the finished plan: rccp.run, which loads the      *)
(* releases of the routed SKUs onto resources and says whether they fit,   *)
(* and rccp.relief, which explains what does not.  Both walk the routings  *)
(* one by one, in two loops of their own, over the same tables.            *)
(*                                                                         *)
(* plant.shop holds the routings, a list of records of sku, res, perUnit   *)
(* and setup; hours, the available hours in the table; growth, the factor  *)
(* of each bucket, a whole number here; and the window of relief.          *)
(***************************************************************************)
EXTENDS Explode, SequencesExt

VARIABLES
    at,         \* the routing a loop is at
    load,       \* compute_load: hours per resource and bucket
    verdict,    \* the answer of rccp.run; an empty record before
    spent,      \* explain_overload: hours of each SKU at work, per resource and bucket
    overloads   \* the answer of relief; an empty record before

capacityVars == <<at, load, verdict, spent, overloads>>

Shop == plant.shop
Routings == DOMAIN Shop.routings
Routing(i) == Shop.routings[i]
Resource == {Routing(i).res : i \in Routings}
Slots == Resource \X Bucket
NoAnswer == [status |-> "none"]

ASSUME ShopAssumption ==
    \A p \in Plant : \A h \in p.shop :
        /\ h.routings \in Seq([sku : Nat, res : Nat, perUnit : Nat, setup : Nat])
        /\ \A r \in DOMAIN h.hours : h.hours[r] \in [Bucket -> Nat]
        /\ h.growth \in [Bucket -> Nat \ {0}]
        /\ h.window \in Int

CapacityInit ==
    /\ at = 1
    /\ load = [s \in Slots |-> 0]
    /\ verdict = NoAnswer
    /\ spent = [s \in Slots |-> [sku \in {} |-> 0]]
    /\ overloads = NoAnswer

------------------------------------------------------------------------------
\* What the fact table holds for a SKU; zeros for one that was not planned.
Released(s) ==
    LET mine == {i \in DOMAIN plans : plans[i].sku = s}
    IN IF mine = {} THEN Zeros ELSE plans[CHOOSE i \in mine : TRUE].releases

\* Nothing to load on anything: netreq has not run for these SKUs.
NothingReleased == \A i \in Routings : Released(Routing(i).sku) = Zeros

Available(r, b) == IF r \in DOMAIN Shop.hours THEN Shop.hours[r][b] * Shop.growth[b] ELSE 0

Makes(i, b) == Released(Routing(i).sku)[b] > 0

HoursFor(i, b) == Released(Routing(i).sku)[b] * Routing(i).perUnit + Routing(i).setup

Loading ==
    /\ stage = "planned"
    /\ verdict = NoAnswer
    /\ UNCHANGED <<vars, explodeVars, spent, overloads>>

RefuseEmptyPlan ==
    /\ Loading
    /\ NothingReleased
    /\ verdict' = [status |-> "no_plan"]
    /\ UNCHANGED <<at, load>>

LoadRouting ==
    /\ Loading
    /\ ~NothingReleased
    /\ at \in Routings
    /\ at' = at + 1
    /\ load' = [s \in Slots |->
                   load[s] + IF s[1] = Routing(at).res /\ Makes(at, s[2])
                             THEN HoursFor(at, s[2]) ELSE 0]
    /\ UNCHANGED verdict

\* Mutant of TooMuch: a resource that is closed has no utilisation to exceed.
OverOpenHours(hours, available) == available > 0 /\ hours > available

\* More work than hours, or any work where there are none.
TooMuch(hours, available) == IF available > 0 THEN hours > available ELSE hours > 0

Judge ==
    /\ Loading
    /\ ~NothingReleased
    /\ at \notin Routings
    /\ LET over == {s \in Slots : TooMuch(load[s], Available(s[1], s[2]))}
       IN verdict' = [status |-> "loaded", overloaded |-> over, feasible |-> over = {},
                      shut |-> {s \in over : Available(s[1], s[2]) = 0}]
    /\ at' = 1
    /\ UNCHANGED load

------------------------------------------------------------------------------
(***************************************************************************)
(* simulate.capacity_factor: the share of a bucket's work that the plant   *)
(* could do, all resources together, from the hours as the table has them. *)
(***************************************************************************)
TotalLoad(b) == SumFunction([r \in Resource |-> load[<<r, b>>]])
TotalHours(b) ==
    SumFunction([r \in Resource |-> IF r \in DOMAIN Shop.hours THEN Shop.hours[r][b] ELSE 0])

\* The factor is below one.
Braked(b) == TotalLoad(b) > 0 /\ TotalHours(b) < TotalLoad(b)

------------------------------------------------------------------------------
(***************************************************************************)
(* relief.                                                                 *)
(***************************************************************************)
Explaining ==
    /\ verdict.status # "none"
    /\ overloads = NoAnswer
    /\ UNCHANGED <<vars, explodeVars, load, verdict>>

\* The same tables, the same refusal.
RefuseRelief ==
    /\ Explaining
    /\ verdict.status = "no_plan" \/ Shop.window < 0
    /\ overloads' = [status |-> IF verdict.status = "no_plan" THEN "no_plan" ELSE "negative_window"]
    /\ UNCHANGED <<at, spent>>

\* Mutant of Attributed: a second routing of a SKU starts its entry again.
LastRouting(entries, i, b) ==
    [sku \in DOMAIN entries \cup {Routing(i).sku} |->
        IF sku = Routing(i).sku THEN HoursFor(i, b) ELSE entries[sku]]

\* per_bucket: the entry of the routing's SKU, added to or begun.
Attributed(entries, i, b) ==
    [sku \in DOMAIN entries \cup {Routing(i).sku} |->
        (IF sku \in DOMAIN entries THEN entries[sku] ELSE 0)
        + (IF sku = Routing(i).sku THEN HoursFor(i, b) ELSE 0)]

AttributeRouting ==
    /\ Explaining
    /\ verdict.status = "loaded" /\ Shop.window >= 0
    /\ at \in Routings
    /\ at' = at + 1
    /\ spent' = [s \in Slots |->
                    IF s[1] = Routing(at).res /\ Makes(at, s[2])
                    THEN Attributed(spent[s], at, s[2]) ELSE spent[s]]
    /\ UNCHANGED overloads

Hours(entries) == SumFunction(entries)

Spare(s) ==
    LET free == Available(s[1], s[2]) - Hours(spent[s])
    IN IF free > 0 THEN free ELSE 0

SpareIn(r, from, to) == SumFunction([b \in from..to \cap Bucket |-> Spare(<<r, b>>)])

\* A set in a strict order: the n-th member has n - 1 before it.
Sorted(S, before(_, _)) ==
    [n \in 1..Cardinality(S) |-> CHOOSE x \in S : Cardinality({y \in S : before(y, x)}) = n - 1]

\* Ranked by hours, then by SKU.
Ranked(entries) ==
    Sorted({[sku |-> sku, hours |-> entries[sku]] : sku \in DOMAIN entries},
           LAMBDA d, e : d.hours > e.hours \/ (d.hours = e.hours /\ d.sku < e.sku))

Overload(s) ==
    [contributors |-> Ranked(spent[s]),
     over   |-> Hours(spent[s]) - Available(s[1], s[2]),
     before |-> SpareIn(s[1], s[2] - Shop.window, s[2] - 1),
     after  |-> SpareIn(s[1], s[2] + 1, s[2] + Shop.window)]

\* summarise: the excess of each overload is split by share of its load.
\* Everything is times Scale, a common multiple of the loads.
Explain ==
    /\ Explaining
    /\ verdict.status = "loaded" /\ Shop.window >= 0
    /\ at \notin Routings
    /\ LET which == {s \in Slots : TooMuch(Hours(spent[s]), Available(s[1], s[2]))}
           of == [s \in which |-> Overload(s)]
           scale == ProductSet({Hours(spent[s]) : s \in which})
           share(s, sku) ==
               IF sku \in DOMAIN spent[s]
               THEN spent[s][sku] * of[s].over * (scale \div Hours(spent[s])) ELSE 0
       IN overloads' =
            [status |-> "explained", of |-> of, scale |-> scale,
             excess |-> SumFunction([s \in which |-> of[s].over]),
             resources |-> Cardinality({s[1] : s \in which}),
             blame |-> [sku \in UNION {DOMAIN spent[s] : s \in which} |->
                          SumFunction([s \in which |-> share(s, sku)])],
             relievable |-> Cardinality({s \in which : of[s].before >= of[s].over})]
    /\ UNCHANGED <<at, spent>>

CapacityNext ==
    \/ RefuseEmptyPlan \/ LoadRouting \/ Judge
    \/ RefuseRelief \/ AttributeRouting \/ Explain

------------------------------------------------------------------------------
(***************************************************************************)
(* Properties.                                                             *)
(***************************************************************************)
\* A plan is called feasible exactly when each resource has, in every bucket,
\* the hours for every unit released there and one setup for every routing used;
\* then nothing starts on a closed day and, as long as no growth is assumed, the
\* replay's capacity factor slows nothing down.
FeasiblePlansFit ==
    verdict.status = "loaded" =>
        /\ verdict.feasible <=>
             \A r \in Resource, b \in Bucket :
                LET used == {i \in Routings : Routing(i).res = r /\ Makes(i, b)}
                IN SumFunction([i \in used |-> Released(Routing(i).sku)[b] * Routing(i).perUnit])
                     + SumFunction([i \in used |-> Routing(i).setup]) <= Available(r, b)
        /\ verdict.feasible /\ (\A b \in Bucket : Shop.growth[b] = 1) => \A b \in Bucket : ~Braked(b)

\* The explanation is of the verdict: the two loops find the same overloaded
\* buckets, the contributors' hours add up to the load, largest first, every
\* contributor is at work there, spare hours are never those of an overloaded
\* bucket, and the excess is shared out completely.
OverloadsAreExplained ==
    overloads.status = "explained" =>
        /\ DOMAIN overloads.of = verdict.overloaded
        /\ \A s \in verdict.overloaded :
             LET o == overloads.of[s]
             IN /\ SumFunction([k \in DOMAIN o.contributors |-> o.contributors[k].hours]) = load[s]
                /\ \A j, k \in DOMAIN o.contributors :
                     /\ j < k => o.contributors[j].hours >= o.contributors[k].hours
                     /\ o.contributors[j].sku = o.contributors[k].sku => j = k
                /\ \A k \in DOMAIN o.contributors : Released(o.contributors[k].sku)[s[2]] > 0
                /\ o.over > 0
                /\ (o.before + o.after > 0 => \E b \in Bucket : <<s[1], b>> \notin verdict.overloaded)
        /\ SumFunction(overloads.blame) = overloads.scale * overloads.excess
        /\ overloads.relievable <= Cardinality(verdict.overloaded)
==============================================================================
