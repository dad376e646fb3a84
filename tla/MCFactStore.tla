----------------------------- MODULE MCFactStore -----------------------------
(* FactStore on three scenarios, one address, two measures and two planners. *)
EXTENDS FactStore, TLC

MCScenario == 0..2

\* The people and the names other than "working" are interchangeable.
MCSymmetry == Permutations(Author) \cup Permutations(Name \ {Working})
==============================================================================
