------------------------------- MODULE MCImport -------------------------------
(* Directories with up to two parts in either format, one BOM edge and two rows  *)
(* of history, and mapped files of up to three rows below the header.            *)
EXTENDS Import

Headless(format) == [head |-> "unreadable", lacks |-> 1, format |-> format, rows |-> <<>>]
Filled(format, n, rows) ==
    {[head |-> "fine", lacks |-> 1, format |-> format, rows |-> s] :
        s \in UNION {[1..k -> rows] : k \in 0..n}}
Of(keys, worst) == {[key |-> key, bad |-> b] : key \in keys, b \in {0, worst}}
Empty == [key |-> <<>>, bad |-> 0]

Parts == Of({<<1>>}, 1) \cup {[key |-> <<2>>, bad |-> 0], Empty}
Edges == {[key |-> <<1, 1>>, bad |-> 0], [key |-> <<1, 2>>, bad |-> 0], [key |-> <<1, 2>>, bad |-> 2]}
Hours == [key |-> <<2, 1>>, bad |-> 0]
Days  == {[key |-> <<1, 1>>, bad |-> 0], [key |-> <<2, 1>>, bad |-> 0], [key |-> <<2, 1>>, bad |-> 3]}

MCFiles ==
    [parts    |-> {NoFile, Headless("csv")} \cup Filled("xlsx", 2, Parts)
                     \cup Filled("csv", 2, {[key |-> <<1>>, bad |-> 1], Empty}),
     bom      |-> {NoFile} \cup Filled("csv", 1, Edges),
     routings |-> {NoFile} \cup Filled("xlsx", 1, {Hours}),
     fleet    |-> {NoFile},
     history  |-> {NoFile, Headless("xlsx")} \cup Filled("xlsx", 2, Days)]

MCGrids ==
    {[Headless("grid") EXCEPT !.lacks = n] : n \in 1..3}
    \cup {[Headless("grid") EXCEPT !.head = "unmapped"]}
    \cup Filled("grid", 3, Of({<<1, 1>>, <<1, 2>>}, 1) \cup {Empty})

\* For the violation: one row more than is read, each of a day of its own.
NoFiles == [table \in Table |-> {}]
LongGrids ==
    {[head |-> "fine", lacks |-> 1, format |-> "grid",
      rows |-> [i \in 1..4 |-> [key |-> <<1, i>>, bad |-> 0]]]}
===============================================================================
