----------------------------- MODULE MCHaulPlan -----------------------------
(* Four trips over two buckets, three trucks.                                *)
EXTENDS HaulPlan

Trip(b, km, load, long) == [bucket |-> b, km |-> km, load |-> load, longHaul |-> long]

\* A long haul, a heavy long haul and a short run, in either bucket.
Kinds ==
    {Trip(b, 3, l, TRUE) : b \in Bucket, l \in {1, 2}}
    \cup {Trip(b, 1, 1, FALSE) : b \in Bucket}
MCTrips == {f \in [Job -> Kinds] : f[1].bucket = 0}

Vehicle(c, a, l, o) == [capacity |-> c, available |-> a, listed |-> l, opening |-> o]
Trucks3(a, b, c) == [v \in Truck |-> CASE v = 1 -> a [] v = 2 -> b [] v = 3 -> c]

\* Capable fleets with several opening positions, and fleets with small,
\* unavailable or unlisted trucks.
Able(o) == Vehicle(2, TRUE, TRUE, o)
MCFleet ==
    {Trucks3(Able(o), Able(p), Able(q)) : o, p \in {0, 4}, q \in {0, 2, 4}}
    \cup {Trucks3(Vehicle(1, TRUE, TRUE, 0), Able(o), Vehicle(2, a, l, 0)) :
            o \in {0, 4}, a, l \in BOOLEAN}
    \cup {Trucks3(Vehicle(c, a, TRUE, 0), Vehicle(1, FALSE, TRUE, 0), Vehicle(2, FALSE, TRUE, 0)) :
            c \in {1, 2}, a \in BOOLEAN}
==============================================================================
