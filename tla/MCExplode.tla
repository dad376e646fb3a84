------------------------------ MODULE MCExplode ------------------------------
(* Plants of one part for the netting rules, plants of three for the BOM, and *)
(* plants of two with a shop floor.                                           *)
EXTENDS Screens, MCNetting, TLC

Sku == 1..3

Route(s, r, unit, once) == [sku |-> s, res |-> r, perUnit |-> unit, setup |-> once]
Steady == [b \in Bucket |-> 1]
NoShop ==
    [routings |-> <<>>, hours |-> [r \in {} |-> Zeros], growth |-> Steady, window |-> 0]

\* Plants of these SKUs and this BOM, without prices.
Plain(skus, parts, bom) ==
    [parts |-> parts, bom |-> bom, cost |-> [s \in skus |-> 0],
     setup |-> [s \in {} |-> 0], costBased |-> FALSE,
     shop |-> {NoShop}, raw |-> {1}, reasons |-> {<<1, 0>>, <<1, Horizon>>}]

\* Every item of MCNetting on its own.
SinglePart == {Plain({1}, {[s \in {1} |-> i] : i \in MCItem}, <<>>)}

Edge == {[parent |-> p, child |-> c, qty |-> 1] : p, c \in Sku}
Uses(p, c) == [parent |-> p, child |-> c, qty |-> 2]
Stray == {Uses(1, 9), Uses(9, 2)}

\* Lists of edges, none twice: every list of up to three among known SKUs,
\* every order of a chain with a short cut, and lists with an unknown SKU.
Lists(edges, n) ==
    {l \in [1..n -> edges] : \A i, j \in 1..n : i # j => l[i] # l[j]}
Bom == {<<>>} \cup UNION {Lists(Edge, n) : n \in 1..3}
       \cup Lists({Uses(3, 2), Uses(2, 1), Uses(3, 1)}, 3)
       \cup Lists(Stray \cup {Uses(3, 1)}, 2)

Needs(g, s, d) == Make(g, Zeros, Zeros, AlwaysOpen, 1, s, d, [policy |-> "lot_for_lot"])
Once(b) == [x \in Bucket |-> IF x = b THEN 2 ELSE 0]

\* Parts by SKU, in the order of their ids or against it.
PartList(a, b, c) == [s \in Sku |-> CASE s = 1 -> a [] s = 2 -> b [] s = 3 -> c]
PartLists ==
    {PartList(Needs(Once(3), 0, d), Needs(Once(2), 1, 1), Needs(Once(1), 0, d)) : d \in {0, 1}}

BomPlants ==
    {Plain(Sku, PartLists, l) : l \in Bom}

\* Changeovers on some of the SKUs, on a SKU without a part, and free ones.
CostedPlants ==
    {[Plain(Sku, PartLists, <<Uses(1, 2), Uses(2, 3)>>) EXCEPT
        !.cost = [s \in Sku |-> IF s = 3 THEN 0 ELSE 1],
        !.setup = [s \in routed |-> IF s = 1 THEN 0 ELSE 3],
        !.costBased = TRUE] :
        routed \in SUBSET {1, 2, 3, 9}}

\* A SKU made in one or two steps and one bought or made, on two resources: with
\* room, closed on some days, growing, and unknown to the table.
Routes ==
    {<<>>, <<Route(9, 1, 1, 1)>>, <<Route(1, 1, 1, 1), Route(2, 1, 2, 0)>>,
     <<Route(1, 1, 1, 1), Route(1, 1, 0, 2), Route(2, 2, 1, 0)>>}
Shops ==
    {[routings |-> l, hours |-> h @@ (2 :> [b \in Bucket |-> 2]), growth |-> g, window |-> w] :
        l \in Routes, h \in {(1 :> f) : f \in [Bucket -> {0, 3}]} \cup {(3 :> Zeros)},
        g \in {Steady, [b \in Bucket |-> IF b < 2 THEN 1 ELSE 2]}, w \in {-1, 0, 2}}
TwoParts ==
    {[s \in {1, 2} |-> IF s = 1 THEN Needs(g, 0, d) ELSE Needs(Once(3), 1, 1)] :
        g \in {Once(3), [b \in Bucket |-> b + 1]}, d \in {1, 3}}
ShopPlants ==
    {[Plain({1, 2}, TwoParts, <<Uses(1, 2)>>) EXCEPT !.shop = Shops, !.raw = {2}]}

MCPlant == SinglePart \cup BomPlants \cup CostedPlants \cup ShopPlants
==============================================================================
