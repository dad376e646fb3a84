------------------------------- MODULE HaulPlan -------------------------------
(***************************************************************************)
(* The haul plan: assign of planbrain/haulplan/assign.py over the fairness *)
(* ledger of planbrain/haulplan/ledger.py, one trip per step.              *)
(*                                                                         *)
(* Trips are taken by bucket, long hauls first, then by id; a trip goes to *)
(* the feasible truck with the fewest long-haul kilometres, opening        *)
(* position included, and is in the ledger before the next trip is looked  *)
(* at.  A truck the opening ledger does not know ends the run.             *)
(***************************************************************************)
EXTENDS Integers, FiniteSets, Functions

CONSTANTS
    Truck,      \* truck ids
    Job,        \* trip ids
    Horizon,    \* number of buckets
    Trips,      \* the trips to choose from: functions from Job
    Fleet       \* the fleets to choose from: functions from Truck

Bucket == 0..(Horizon - 1)

ASSUME IdAssumption ==
    /\ Truck \subseteq Nat /\ Job \subseteq Nat /\ Horizon \in Nat
    /\ IsFiniteSet(Truck) /\ IsFiniteSet(Job)

ASSUME InputAssumption ==
    /\ \A f \in Trips :
          f \in [Job -> [bucket : Bucket, km : Nat, load : Nat, longHaul : BOOLEAN]]
    /\ \A f \in Fleet :
          f \in [Truck -> [capacity : Nat, available : BOOLEAN, listed : BOOLEAN, opening : Nat]]

VARIABLES
    trips,      \* the trips of this run
    fleet,      \* the trucks, with their opening kilometres if the ledger lists them
    flows,      \* the ledger's flows per truck and bucket
    busy,       \* trucks already out in a bucket
    assigned,   \* trip and truck pairs
    unassigned, \* trips nobody takes, with the reason
    state       \* running, done, or the KeyError

haulVars == <<trips, fleet, flows, busy, assigned, unassigned, state>>

NoFlow == [longHaul |-> 0, total |-> 0, trips |-> 0]
Flow == [longHaul : Nat, total : Nat, trips : Nat]
Reason == {"none_available", "none_big_enough", "all_committed"}

TypeOK ==
    /\ trips \in Trips
    /\ fleet \in Fleet
    /\ flows \in [Truck \X Bucket -> Flow]
    /\ busy \subseteq Truck \X Bucket
    /\ assigned \subseteq Job \X Truck
    /\ unassigned \subseteq Job \X Reason
    /\ state \in {"running", "done", "key_error"}

HaulInit ==
    /\ trips \in Trips
    /\ fleet \in Fleet
    /\ flows = [x \in Truck \X Bucket |-> NoFlow]
    /\ busy = {}
    /\ assigned = {}
    /\ unassigned = {}
    /\ state = "running"

------------------------------------------------------------------------------
Handled == {a[1] : a \in assigned} \cup {u[1] : u \in unassigned}
Remaining == Job \ Handled

\* Mutant of Before: by bucket and id, as the first version of the code did.
ById(j, k) ==
    \/ trips[j].bucket < trips[k].bucket
    \/ trips[j].bucket = trips[k].bucket /\ j <= k

\* The order of the trips.
Before(j, k) ==
    \/ trips[j].bucket < trips[k].bucket
    \/ /\ trips[j].bucket = trips[k].bucket
       /\ \/ trips[j].longHaul /\ ~trips[k].longHaul
          \/ trips[j].longHaul = trips[k].longHaul /\ j <= k

IsNext(j) == j \in Remaining /\ \A k \in Remaining : Before(j, k)

Carries(v, j) == fleet[v].available /\ fleet[v].capacity >= trips[j].load

\* Mutant of Feasible: a truck that is out may be sent again.
CanCarry(j) == {v \in Truck : Carries(v, j)}

\* feasible_trucks.
Feasible(j) == {v \in Truck : Carries(v, j) /\ <<v, trips[j].bucket>> \notin busy}

\* why_infeasible.
WhyInfeasible(j) ==
    CASE \A v \in Truck : ~fleet[v].available -> "none_available"
      [] (\E v \in Truck : fleet[v].available) /\ (\A v \in Truck : ~Carries(v, j))
            -> "none_big_enough"
      [] OTHER -> "all_committed"

LongHaulKm(v) == fleet[v].opening + SumFunction([b \in Bucket |-> flows[<<v, b>>].longHaul])

\* Mutant of FurthestBehind: behind on this run's kilometres only.
BehindThisRun(v, candidates) ==
    LET km(w) == SumFunction([b \in Bucket |-> flows[<<w, b>>].longHaul])
    IN v \in candidates
       /\ \A w \in candidates : km(v) < km(w) \/ (km(v) = km(w) /\ v <= w)

\* next_by_deficit: the fewest kilometres, then the smallest id.
FurthestBehind(v, candidates) ==
    v \in candidates
    /\ \A w \in candidates :
          LongHaulKm(v) < LongHaulKm(w) \/ (LongHaulKm(v) = LongHaulKm(w) /\ v <= w)

\* record.
Recorded(v, j) ==
    [flows EXCEPT ![<<v, trips[j].bucket>>] =
        [longHaul |-> IF trips[j].longHaul THEN @.longHaul + trips[j].km ELSE @.longHaul,
         total |-> @.total + trips[j].km,
         trips |-> @.trips + 1]]

------------------------------------------------------------------------------
\* Nobody can take the trip: reported with the filter that emptied the list.
LeaveUnassigned(j) ==
    /\ state = "running"
    /\ IsNext(j)
    /\ Feasible(j) = {}
    /\ unassigned' = unassigned \cup {<<j, WhyInfeasible(j)>>}
    /\ UNCHANGED <<trips, fleet, flows, busy, assigned, state>>

\* A candidate the opening ledger does not list; what is recorded stays.
RaiseKeyError(j) ==
    /\ state = "running"
    /\ IsNext(j)
    /\ \E v \in Feasible(j) : ~fleet[v].listed
    /\ state' = "key_error"
    /\ UNCHANGED <<trips, fleet, flows, busy, assigned, unassigned>>

Assign(j, v) ==
    /\ state = "running"
    /\ IsNext(j)
    /\ \A w \in Feasible(j) : fleet[w].listed
    /\ FurthestBehind(v, Feasible(j))
    /\ flows' = Recorded(v, j)
    /\ busy' = busy \cup {<<v, trips[j].bucket>>}
    /\ assigned' = assigned \cup {<<j, v>>}
    /\ UNCHANGED <<trips, fleet, unassigned, state>>

Finish ==
    /\ state = "running"
    /\ Remaining = {}
    /\ state' = "done"
    /\ UNCHANGED <<trips, fleet, flows, busy, assigned, unassigned>>

HaulNext ==
    \/ \E j \in Job : LeaveUnassigned(j) \/ RaiseKeyError(j)
    \/ \E j \in Job, v \in Truck : Assign(j, v)
    \/ Finish

HaulSpec == HaulInit /\ [][HaulNext]_haulVars

------------------------------------------------------------------------------
(***************************************************************************)
(* fairness, of the finished ledger.  An index is a fraction, or none.     *)
(***************************************************************************)
Listed == {v \in Truck : fleet[v].listed}
Opening == [v \in Listed |-> fleet[v].opening]
Distribution == [v \in Listed |-> LongHaulKm(v)]

\* None for an empty fleet and for one that has driven nothing: unmeasured.
JainIndex(km) ==
    LET total == SumFunction(km)
    IN IF total = 0 THEN <<>>
       ELSE <<total * total,
              Cardinality(DOMAIN km) * SumFunction([v \in DOMAIN km |-> km[v] * km[v]])>>

\* What it takes to lift the trucks behind v to its level.
ToLift(km, v) ==
    SumFunction([w \in DOMAIN km |-> IF km[w] < km[v] THEN km[v] - km[w] ELSE 0])

\* Mutant of Levelled: a step is weighed for the fleet, not for those it lifts.
LevelledByAll(km, work) ==
    {v \in DOMAIN km : \A w \in DOMAIN km : work >= Cardinality(DOMAIN km) * (km[v] - km[w])}

\* The trucks furthest behind that the work levels: those whose level it lifts
\* everyone behind them to.
Levelled(km, work) == {v \in DOMAIN km : work >= ToLift(km, v)}

\* The best index of any assignment: the work is poured into the trucks furthest
\* behind until they level.  The index has no scale, so their common level is
\* given times their number, and so are the others.
Ceiling(opening, work) ==
    LET low == Levelled(opening, work)
        n == Cardinality(low)
        water == SumFunction([v \in low |-> opening[v]]) + work
    IN JainIndex([v \in DOMAIN opening |-> IF v \in low THEN water ELSE n * opening[v]])

AtLeast(index, percent) == 100 * index[1] >= percent * index[2]

Verdict(index) ==
    CASE index = <<>> -> "unmeasured"
      [] index # <<>> /\ AtLeast(index, 95) -> "fair"
      [] index # <<>> /\ ~AtLeast(index, 95) /\ AtLeast(index, 85) -> "acceptable"
      [] OTHER -> "unfair"

------------------------------------------------------------------------------
(***************************************************************************)
(* Properties.                                                             *)
(***************************************************************************)
\* No truck is sent on two trips in one bucket.
OneTripPerBucket ==
    \A a, b \in assigned :
        a[2] = b[2] /\ trips[a[1]].bucket = trips[b[1]].bucket => a = b

\* A long haul nobody takes found every truck that can carry it on another long
\* haul of that bucket: short runs never use up the trucks (assign.py's header,
\* "the long-haul trips must have first claim").
LongHaulsComeFirst ==
    \A u \in unassigned :
        trips[u[1]].longHaul =>
            \A v \in Truck : Carries(v, u[1]) =>
                \E a \in assigned :
                    /\ a[2] = v
                    /\ trips[a[1]].bucket = trips[u[1]].bucket
                    /\ trips[a[1]].longHaul

\* The trips a truck was given, the long hauls among them, and how far they are.
Given(v) == {j \in Job : <<j, v>> \in assigned}
Far(v) == {j \in Given(v) : trips[j].longHaul}
Driven(v) == SumFunction([j \in Far(v) |-> trips[j].km])

\* The ledger is the plan: a truck's long-haul kilometres are its opening position
\* and the long hauls it was given, also after a run that raised.
LedgerIsPlan ==
    \A v \in Truck :
        /\ LongHaulKm(v) = fleet[v].opening + Driven(v)
        /\ SumFunction([b \in Bucket |-> flows[<<v, b>>].trips]) = Cardinality(Given(v))

\* The fairness reported is the plan's.  The ledger it is read from is the plan, and
\* the "unreachable upper bound" of fairness.py is one: no plan is fairer than
\* water-filling the same work, and the two are unmeasured together.
FairnessIsEarned ==
    LET index == JainIndex(Distribution)
        best == Ceiling(Opening, SumFunction([v \in Truck |-> Driven(v)]))
    IN /\ LedgerIsPlan
       /\ index = <<>> <=> best = <<>>
       /\ index # <<>> => index[1] * best[2] <= best[1] * index[2]
       /\ Verdict(index) = "fair" => Verdict(best) = "fair"

\* Where every truck can take every trip and long hauls are of one length, the
\* run does not widen the gap between the truck furthest behind and the one
\* furthest ahead beyond one long haul or what it was (ledger.py: without the
\* record "the best-placed truck takes every long run").
GapIsBounded ==
    LET far == {trips[j].km : j \in {k \in Job : trips[k].longHaul}}
        gap(km(_)) == {km(v) - km(w) : v, w \in Truck}
        opening(v) == fleet[v].opening
    IN (\A v \in Truck, j \in Job : Carries(v, j)) /\ Cardinality(far) = 1 =>
          \A d \in gap(LongHaulKm) : \E e \in gap(opening) \cup far : d <= e
==============================================================================
