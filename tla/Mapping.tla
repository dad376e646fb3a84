-------------------------------- MODULE Mapping --------------------------------
(***************************************************************************)
(* How a spreadsheet written for people gets its columns: inspect finds    *)
(* the header (mapping/detect.py), suggest matches it with the fields of a *)
(* table (mapping/apply.py), the page holds the mapping and the number of  *)
(* the header row, and both go back to the reader, at once or by way of a  *)
(* profile (mapping/profile.py).  Import goes on where rows are parsed.    *)
(*                                                                         *)
(* A cell is the words its text is normalised to, a unit last; a number is *)
(* one word; <<>> is a blank cell.  As in the code, a row has an index     *)
(* from 0 inside, and a number from 1 on the page and in a profile, where  *)
(* 0 stands for none given (and -1 inside).                                *)
(***************************************************************************)
EXTENDS Integers, Sequences, SequencesExt, FiniteSets, FiniteSetsExt, Functions

CONSTANTS
    Word,           \* the words of cells and names
    Spreadsheets,   \* the sheets to choose from: rows of cells, merged ranges of one row,
                    \* and the number of the row a person would call the header
    Field,          \* the table's fields, in order
    Options,        \* the words that name a field: its own, then its aliases
    Required,       \* fields whose parser refuses a blank
    Number,         \* the words that are numbers, with their values
    Digits,         \* those of them written with digits alone, no comma, point or currency
    ZeroLed,        \* those of these with leading zeros
    Whole,          \* fields stored as numbers
    MaxScan,        \* MAX_SCAN_ROWS
    MaxEdits        \* changes by hand; a bound of the model

Units == {"(kg)"}
Noise == {"cd", "code", "no", "num", "number", "id", "text"}
SuffixWord == [word \in {"dt", "qty", "amt"} |->
                 CASE word = "dt" -> "date" [] word = "qty" -> "qty" [] word = "amt" -> "amount"]

Cell == Seq(Word)
\* Field to heading, for some of the fields.
Mappings == UNION {[D -> Cell] : D \in SUBSET Range(Field)}

ASSUME WordAssumption == Range(SuffixWord) \subseteq Word
ASSUME FieldAssumption ==
    /\ Field \in Seq(DOMAIN Options)
    /\ Required \cup Whole \subseteq Range(Field)
    /\ Options \in [Range(Field) -> Seq(Cell \ {<<>>})]
\* A number can be written in many ways.  Of two ways with digits alone one has
\* leading zeros, unless the number is zero, which is left out.
ASSUME NumberAssumption ==
    /\ ZeroLed \subseteq Digits /\ Digits \subseteq DOMAIN Number
    /\ \A one, other \in Digits :
         one # other /\ Number[one] = Number[other] => {one, other} \cap ZeroLed # {}
ASSUME BoundAssumption == MaxScan \in Nat \ {0} /\ MaxEdits \in Nat
\* The scores below are exact for rows of up to six cells.
ASSUME SheetAssumption ==
    \A s \in Spreadsheets :
        /\ s.rows \in Seq(Seq(Cell))
        /\ \A r \in DOMAIN s.rows : Len(s.rows[r]) \in 1..6
        /\ \A m \in s.merged : m.row \in DOMAIN s.rows => m.left \in DOMAIN s.rows[m.row]

VARIABLES
    sheet,      \* the file the planner has picked
    shape,      \* what inspect answered, with the suggestion
    mapping,    \* the page's mapping: field to heading
    headerRow,  \* the page's number of the header row
    profile,    \* the profile on disk
    preview,    \* the answer for the pane as it is; none after a change
    edits       \* changes by hand so far

mappingVars == <<sheet, shape, mapping, headerRow, profile, preview, edits>>

NotYet == [known |-> FALSE]

------------------------------------------------------------------------------
(***************************************************************************)
(* Reading the grid and finding the header.                                *)
(***************************************************************************)
\* Spread the value of each merged range over the cells it covers.
FillMerged(s) ==
    [r \in DOMAIN s.rows |-> [c \in DOMAIN s.rows[r] |->
        LET over == {m \in s.merged : m.row = r /\ c \in m.left..m.right}
        IN IF s.rows[r][c] = <<>> /\ over # {}
           THEN s.rows[r][(CHOOSE m \in over : TRUE).left] ELSE s.rows[r][c]]]

Grid == FillMerged(sheet)

\* The columns of a row that are filled, and how many of them hold numbers.
FilledCells(row) == {c \in DOMAIN row : row[c] # <<>>}
Width(row) == Cardinality(FilledCells(row))
LooksNumeric(cell) == Len(cell) = 1 /\ cell[1] \in DOMAIN Number
IsDigits(cell) == Len(cell) = 1 /\ cell[1] \in Digits
Numerics(row) == Cardinality({c \in FilledCells(row) : LooksNumeric(row[c])})
CellAt(row, c) == IF c \in DOMAIN row THEN row[c] ELSE <<>>
Normalise(cell) == IF cell # <<>> /\ Last(cell) \in Units THEN Front(cell) ELSE cell

\* The filled rows among the three beneath a row.
Beneath(grid, i) == {r \in (i + 2)..Min({i + 4, Len(grid)}) : FilledCells(grid[r]) # {}}

\* What the rows beneath say of row i.
Followed(grid, i) ==
    LET below == Beneath(grid, i)
        numeric == SumFunction([r \in below |-> (60 * Numerics(grid[r])) \div Width(grid[r])])
        widths == {Width(grid[r]) : r \in below}
    IN IF below = {} THEN -480
       ELSE (IF 5 * numeric > 60 * Cardinality(below) THEN 420 ELSE 0)
            + (IF Max(widths) - Min(widths) <= 1 /\ Width(grid[i + 1]) >= Max(widths) - 1
               THEN 180 ELSE 0)

\* Different headings in a row.
Distinct(row) == Cardinality({Normalise(row[c]) : c \in FilledCells(row)})

\* Mutant of Score: text counts for nothing.
ScoreOfAnyText(grid, i) ==
    LET row == grid[i + 1]
        f == Width(row)
    IN IF f = 0 THEN 0
       ELSE (360 * f) \div Len(row) + (360 * Distinct(row)) \div f + Followed(grid, i)
            - (IF f <= 2 /\ Len(row) > 3 THEN 600 ELSE 0)

\* How much row i looks like a header, times 1200: dense, textual, without
\* repetition, over numbers and rows of its width, and no title.
Score(grid, i) ==
    LET row == grid[i + 1]
        f == Width(row)
    IN IF f = 0 THEN 0
       ELSE (360 * f) \div Len(row) + (480 * (f - Numerics(row))) \div f
            + (360 * Distinct(row)) \div f + Followed(grid, i)
            - (IF f <= 2 /\ Len(row) > 3 THEN 600 ELSE 0)

\* A group label goes before each heading under it.
MergeTwo(top, bottom) ==
    [c \in 1..Max({Len(top), Len(bottom)}) |->
        LET upper == CellAt(top, c)
            lower == CellAt(bottom, c)
        IN IF {upper, lower} \cap {<<>>} = {} /\ Normalise(upper) # Normalise(lower)
           THEN upper \o lower ELSE IF lower # <<>> THEN lower ELSE upper]

\* A sparse row of labels above the header is part of it.
IsGrouped(grid, best) ==
    /\ best > 0
    /\ FilledCells(grid[best]) # {}
    /\ Width(grid[best]) < Width(grid[best + 1])
    /\ Numerics(grid[best]) = 0

Trimmed(row) ==
    SubSeq(row, 1, Max({0} \cup FilledCells(row)))

BestRow(grid) ==
    LET scanned == 0..(Min({Len(grid), MaxScan}) - 1)
        score == [i \in scanned |-> Score(grid, i)]
    IN CHOOSE i \in scanned :
           \A j \in scanned : score[j] < score[i] \/ (score[j] = score[i] /\ i <= j)

Inspect(grid) ==
    IF grid = <<>> THEN [row |-> 0, first |-> 0, grouped |-> FALSE, columns |-> <<>>]
    ELSE LET best == BestRow(grid)
             grouped == IsGrouped(grid, best)
         IN [row |-> best, first |-> best + 1, grouped |-> grouped,
             columns |-> Trimmed(IF grouped THEN MergeTwo(grid[best], grid[best + 1])
                                 ELSE grid[best + 1])]

------------------------------------------------------------------------------
(***************************************************************************)
(* suggest.                                                                *)
(***************************************************************************)
\* A tail without its identifier suffix, and with its abbreviation spelt out.
Expansions(tail) ==
    (IF Len(tail) > 1 /\ Last(tail) \in Noise THEN <<Front(tail)>> ELSE <<>>)
    \o (IF Last(tail) \in DOMAIN SuffixWord
        THEN <<Append(Front(tail), SuffixWord[Last(tail)])>> ELSE <<>>)

\* What a heading offers to be known by: its tails, and with less weight their
\* expansions.
TailOffers(heading, tail) ==
    LET offer(key, weight) == [key |-> key, heading |-> heading, weight |-> weight]
        more == Expansions(tail)
    IN <<offer(tail, Len(tail))>> \o [e \in DOMAIN more |-> offer(more[e], Len(tail) - 1)]

OffersOf(heading) ==
    LET words == Normalise(heading)
    IN FlattenSeq([k \in DOMAIN words |-> TailOffers(heading, SubSeq(words, k, Len(words)))])

Offers(headings) == FlattenSeq([c \in DOMAIN headings |-> OffersOf(headings[c])])

\* candidates: whoever offers a key first has it.
Hits(offers, options) ==
    LET held(key) == {i \in DOMAIN offers : offers[i].key = key}
    IN [o \in {p \in DOMAIN options : held(options[p]) # {}} |-> offers[Min(held(options[o]))]]

\* One column cannot supply two fields.
Free(hits, claimed) == {o \in DOMAIN hits : hits[o].heading \notin claimed}

\* A field takes what is free of its hits and weighs most, the first of equals.
Claim(offers, claims, f) ==
    LET hits == Hits(offers, Options[f])
        free == Free(hits, Range(claims))
        best == CHOOSE o \in free : \A p \in free :
                   \/ hits[p].weight < hits[o].weight
                   \/ hits[p].weight = hits[o].weight /\ o <= p
    IN IF free = {} THEN claims
       ELSE [g \in DOMAIN claims \cup {f} |-> IF g = f THEN hits[best].heading ELSE claims[g]]

Suggest(headings) ==
    LET offers == Offers(headings)
        upTo[n \in 0..Len(Field)] ==
            IF n = 0 THEN [f \in {} |-> <<>>] ELSE Claim(offers, upTo[n - 1], Field[n])
    IN upTo[Len(Field)]

------------------------------------------------------------------------------
(***************************************************************************)
(* The mapping applied, and profiles.                                      *)
(***************************************************************************)
\* Mutant of Resolve: the number given is taken for an index.
NumberAsIndex(grid, number) ==
    IF number = 0 THEN [columns |-> Inspect(grid).columns, first |-> Inspect(grid).first]
    ELSE [columns |-> grid[number], first |-> number + 1]

\* _resolve: the headings and the first data row, from the number given if any.
Resolve(grid, number) ==
    IF number = 0 THEN [columns |-> Inspect(grid).columns, first |-> Inspect(grid).first]
    ELSE [columns |-> grid[number], first |-> number]

\* headers.index: the first column of that heading.
Place(columns, heading) == Min({c \in DOMAIN columns : columns[c] = heading})

\* The rows that are not blank, each with its number and the cell of each field.
Records(grid, header, columns) ==
    LET read(n) == [f \in DOMAIN columns |-> CellAt(grid[n], Place(header.columns, columns[f]))]
    IN {[number |-> n, cells |-> read(n)] :
            n \in {r \in (header.first + 1)..Len(grid) : FilledCells(grid[r]) # {}}}

\* Fields in which a number loses its leading zeros.
Lossy(records) ==
    {f \in Whole : \E r \in records :
        /\ f \in DOMAIN r.cells
        /\ IsDigits(r.cells[f]) /\ r.cells[f][1] \in ZeroLed}

\* apply_mapping up to the parsers: no row is read unless every heading is there
\* and every required field has one.
Apply(grid, header, columns) ==
    LET unknown == {f \in DOMAIN columns : columns[f] \notin Range(header.columns)}
        missing == {f \in Required : f \notin DOMAIN columns \/ f \in unknown}
        records == IF unknown \cup missing # {} THEN {} ELSE Records(grid, header, columns)
    IN [known |-> TRUE, unknown |-> unknown, missing |-> missing,
        unmapped |-> Range(header.columns) \ (Range(columns) \cup {<<>>}),
        records |-> records, warnings |-> Lossy(records)]

\* Mutant of AsDict: the index is written as it is.
AsDictInside(p) == [row |-> p.row, columns |-> p.columns]

\* profile_save's profile, the file as_dict writes of it, what load makes of the
\* file, and profile_list of that.
Saved(number, columns) == [row |-> number - 1, columns |-> columns]
AsDict(p) == [row |-> p.row + 1, columns |-> p.columns]
Loads(file) == file.columns # [f \in {} |-> <<>>] /\ file.row >= 0
Loaded(file) == [row |-> file.row - 1, columns |-> file.columns]
ProfileList(p) == [row |-> p.row + 1, columns |-> p.columns]

------------------------------------------------------------------------------
MappingTypeOK ==
    /\ sheet \in Spreadsheets
    /\ shape \in {NotYet} \cup [known : {TRUE}, number : 1..MaxScan, grouped : BOOLEAN,
                              columns : Seq(Cell), suggested : Mappings]
    /\ mapping \in Mappings
    /\ headerRow \in Nat
    /\ profile \in {NotYet} \cup [known : {TRUE}, file : [row : Nat, columns : Mappings]]
    /\ preview \in {NotYet} \cup
         [known : {TRUE}, unknown : SUBSET Range(Field), missing : SUBSET Required,
          unmapped : SUBSET Cell, warnings : SUBSET Whole,
          records : SUBSET [number : 1..Len(Grid), cells : Mappings]]
    /\ edits \in 0..MaxEdits

MappingInit ==
    /\ sheet \in Spreadsheets
    /\ shape = NotYet
    /\ mapping = [f \in {} |-> <<>>]
    /\ headerRow = 0
    /\ profile = NotYet
    /\ preview = NotYet
    /\ edits = 0

\* mapping.inspect, and the page taking over what it answers.
MappingInspect ==
    /\ LET guess == Inspect(Grid)
           suggested == Suggest(guess.columns)
       IN /\ shape' = [known |-> TRUE, number |-> guess.row + 1, grouped |-> guess.grouped,
                       columns |-> guess.columns, suggested |-> suggested]
          /\ mapping' = suggested
          /\ headerRow' = guess.row + 1
    /\ preview' = NotYet
    /\ UNCHANGED <<sheet, profile, edits>>

ByHand ==
    /\ shape.known
    /\ edits < MaxEdits
    /\ edits' = edits + 1
    /\ preview' = NotYet
    /\ UNCHANGED <<sheet, shape, profile>>

\* Another number in the field, or none.
EditRow ==
    /\ ByHand
    /\ headerRow' \in 0..Len(Grid)
    /\ UNCHANGED mapping

\* A field's menu: a heading, or no column.
EditField(f) ==
    /\ ByHand
    /\ \/ \E heading \in Range(shape.columns) \ {<<>>} :
             mapping' = [g \in DOMAIN mapping \cup {f} |-> IF g = f THEN heading ELSE mapping[g]]
       \/ mapping' = [g \in DOMAIN mapping \ {f} |-> mapping[g]]
    /\ UNCHANGED headerRow

SaveProfile ==
    /\ shape.known
    /\ profile' = [known |-> TRUE, file |-> AsDict(Saved(headerRow, mapping))]
    /\ UNCHANGED <<sheet, shape, mapping, headerRow, preview, edits>>

\* A profile that does not load is a problem in the list, and is not offered.
ApplyProfile ==
    /\ shape.known
    /\ profile.known
    /\ Loads(profile.file)
    /\ LET p == ProfileList(Loaded(profile.file))
       IN /\ mapping' = p.columns
          /\ headerRow' = IF p.row # 0 THEN p.row ELSE headerRow
    /\ preview' = NotYet
    /\ UNCHANGED <<sheet, shape, profile, edits>>

\* There is no answer, but an error, if the sheet has no such row.
MappingPreview ==
    /\ shape.known
    /\ headerRow <= Len(Grid)
    /\ preview' = Apply(Grid, Resolve(Grid, headerRow), mapping)
    /\ UNCHANGED <<sheet, shape, mapping, headerRow, profile, edits>>

MappingNext ==
    \/ MappingInspect
    \/ EditRow
    \/ \E f \in Range(Field) : EditField(f)
    \/ SaveProfile
    \/ ApplyProfile
    \/ MappingPreview

MappingSpec == MappingInit /\ [][MappingNext]_mappingVars

------------------------------------------------------------------------------
(***************************************************************************)
(* Properties.                                                             *)
(***************************************************************************)
\* The header of a sheet laid out as people lay them out is the row a person would
\* name: titles, blank rows, group labels and data score lower, in every mixture.
\* What is suggested is a column of the sheet, for one field only, and no column
\* with a field's whole name goes by while the field is left blank.
InspectionIsRight ==
    shape.known =>
        /\ shape.number = sheet.header
        /\ Range(shape.suggested) \subseteq Range(shape.columns) \ {<<>>}
        /\ \A f, g \in DOMAIN shape.suggested :
             shape.suggested[f] = shape.suggested[g] => f = g
        /\ \A c \in DOMAIN shape.columns, f \in Range(Field) :
             Normalise(shape.columns[c]) \in Range(Options[f]) => f \in DOMAIN shape.suggested

\* What a planner previews is what was shown to them: with the suggestion as it
\* came, and the header row it came with or none given, every heading is found
\* again, each cell comes from the column of its heading, and the rows are those
\* beneath the header, under the spreadsheet's numbers.  (Not with a group label
\* above the header and its row number given: SuggestionCanBePreviewed.)  Profiles
\* saved and applied since change none of it as long as nothing was changed by hand.
\* And also after changes by hand: two numbers written with digits alone that become
\* one, 007 and 7, are warned about.  (Other spellings of one number, 7.0 or 1,000,
\* become it without a warning.)
PreviewIsWhatWasInspected ==
    /\ preview.known /\ mapping = shape.suggested
         /\ (headerRow = 0 \/ (headerRow = shape.number /\ ~shape.grouped)) =>
         /\ preview.unknown = {}
         /\ preview.missing = Required \ DOMAIN mapping
         /\ preview.missing = {} =>
              /\ {r.number : r \in preview.records}
                   = {n \in (shape.number + 1)..Len(Grid) : FilledCells(Grid[n]) # {}}
              /\ \A r \in preview.records, f \in DOMAIN mapping :
                   \E c \in DOMAIN shape.columns :
                       shape.columns[c] = mapping[f] /\ r.cells[f] = CellAt(Grid[r.number], c)
    /\ preview.known =>
         \A r, q \in preview.records, f \in Whole \cap DOMAIN mapping :
             LET one == r.cells[f]
                 other == q.cells[f]
             IN IsDigits(one) /\ IsDigits(other) /\ one # other
                  /\ Number[one[1]] = Number[other[1]] => f \in preview.warnings
    /\ shape.known /\ edits = 0 => mapping = shape.suggested /\ headerRow = shape.number

\* docs/mapping.md, of two-row headers: "Material merged across two columns with
\* Item Code and Description beneath becomes Material Item Code"; the suggestion
\* is there to be previewed.
SuggestionCanBePreviewed ==
    preview.known /\ mapping = shape.suggested /\ headerRow = shape.number =>
        preview.unknown = {}
===============================================================================
