------------------------------- MODULE MCMapping -------------------------------
(* Histories of four columns with every mixture of titles, blank rows and group  *)
(* labels above headings of several styles, in several orders.                   *)
EXTENDS Mapping, TLC

MCField == <<"sku_id", "loc_id", "bucket_date", "qty">>
MCRequired == {"sku_id", "loc_id", "bucket_date", "qty"}
MCWhole == {"sku_id", "loc_id", "qty"}
MCOptions ==
    [f \in MCRequired |->
       CASE f = "sku_id" -> <<<<"sku", "id">>, <<"item", "code">>, <<"item">>, <<"material", "no">>>>
         [] f = "loc_id" -> <<<<"loc", "id">>, <<"depot">>, <<"store">>>>
         [] f = "bucket_date" -> <<<<"bucket", "date">>, <<"date">>, <<"posting", "date">>>>
         [] f = "qty" -> <<<<"qty">>, <<"quantity">>>>]
MCDigits == {"7", "007", "8"}
MCNumber == [word \in MCDigits \cup {"7.0"} |-> IF word = "8" THEN 8 ELSE 7]
MCZeroLed == {"007"}
MCWord ==
    UNION {Range(name) : name \in UNION {Range(MCOptions[f]) : f \in MCRequired}}
    \cup Range(SuffixWord) \cup Noise \cup Units \cup DOMAIN MCNumber
    \cup {"description", "store", "txn", "dt", "material", "acme", "sales", "from", "april",
          "bolt", "hosur", "monday"}

Material == {<<"item", "code">>, <<"item", "cd">>, <<"description">>}
Depot == {<<"depot">>, <<"item", "store">>}
Day == {<<"posting", "date">>, <<"txn", "dt">>, <<"date">>}
Quantity == {<<"qty", "(kg)">>, <<"quantity">>, <<"date">>}
Headings ==
    {<<m, d, t, q>> : m \in Material, d \in Depot, t \in Day, q \in Quantity}
    \cup {<<q, t, d, <<"item">>>> : d \in Depot, t \in Day, q \in Quantity}

Blanks == <<<<>>, <<>>, <<>>, <<>>>>
Title == <<<<"acme", "sales">>, <<>>, <<>>, <<>>>>
Period == <<<<"from">>, <<"april">>, <<>>, <<>>>>
Group == <<<<"material">>, <<>>, <<>>, <<>>>>
Above ==
    {<<>>, <<Title>>, <<Title, Blanks>>, <<Title, Period>>, <<Title, Period, Blanks>>,
     <<Group>>, <<Title, Blanks, Group>>}
Data(word) == <<<<word>>, <<"8">>, <<"monday">>, <<"8">>>>
Words == <<<<"bolt">>, <<"hosur">>, <<"monday">>, <<"8">>>>
Below ==
    {<<Data("7.0"), Data("7")>>, <<Data("7"), Data("007")>>, <<Data("8"), Blanks, Data("007")>>,
     <<Words, Words, Words>>}

Laid(above, headings, below) ==
    [rows |-> above \o <<headings>> \o below, header |-> Len(above) + 1,
     merged |-> {[row |-> r, left |-> 1, right |-> 2] : r \in {k \in DOMAIN above : above[k] = Group}}]

\* Every heading in one layout, and every layout with the headings hardest to tell
\* from a title or from data.
MCSpreadsheets ==
    {Laid(<<Title, Blanks>>, headings, <<Data("7"), Data("007")>>) : headings \in Headings}
    \cup {Laid(above, <<<<"item", "code">>, depot, <<"posting", "date">>, <<"quantity">>>>, below) :
            above \in Above, depot \in {<<"depot">>, <<>>}, below \in Below}
===============================================================================
