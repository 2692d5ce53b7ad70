------------------------------- MODULE CsvParser -------------------------------
(***************************************************************************)
(* CsvParserUtil.parseCsvOrText (utils/csvParser.ts): from the rows of an  *)
(* uploaded file to the recipients of a campaign.                          *)
(*                                                                         *)
(* A cell is known by what the code tells apart: an address, of which case *)
(* may hide that it is the same as another; a name that a header gives to  *)
(* the column of addresses; blank; or anything else.                       *)
(***************************************************************************)
EXTENDS SequencesExt

CONSTANT Words       \* the addresses, without their case

Address(word, upper) == [kind |-> "address", word |-> word, upper |-> upper]
Plain(kind) == [kind |-> kind]

Cells ==
    [kind: {"address"}, word: Words, upper: BOOLEAN]
        \union [kind: {"header", "blank", "other"}]

IsAddress(cell) == cell.kind = "address"
IsHeader(cell) == cell.kind = "header"
IsBlank(cell) == cell.kind = "blank"

\* toLowerCase.
Lower(cell) == IF IsAddress(cell) THEN Address(cell.word, FALSE) ELSE cell

-------------------------------------------------------------------------------
\* The lines that are in a set, in their order.
Keep(lines, kept) ==
    FoldLeft(LAMBDA rows, line: IF line \in kept THEN Append(rows, line) ELSE rows, <<>>, lines)

\* What csv-parse makes of the lines: blank lines are left out, a line of
\* commas is a row.
ParsedRows(lines) ==
    Keep(lines, {row \in ToSet(lines): ~(Len(row) = 1 /\ IsBlank(row[1]))})

\* Mutant: empty lines are kept.
SplitRows_Unfiltered(lines) == lines

\* What is left when csv-parse throws: rows with something in them.
SplitRows(lines) ==
    Keep(lines, {row \in ToSet(lines): \E i \in DOMAIN row: ~IsBlank(row[i])})

\* The column that the first row names as that of the addresses, or 0.
HeaderColumn(rows) == IF rows = <<>> THEN 0 ELSE SelectInSeq(rows[1], IsHeader)

\* Mutant: the first row is taken for a header whatever it says.
DataRows_Tail(rows) == IF rows = <<>> THEN rows ELSE Tail(rows)

\* The rows without the header.
DataRows(rows) == IF HeaderColumn(rows) = 0 THEN rows ELSE Tail(rows)

\* Mutant: the header is skipped, and forgotten.
EmailColumn_First(rows) == 1

\* emailColIndex, from 1.
EmailColumn(rows) == IF HeaderColumn(rows) = 0 THEN 1 ELSE HeaderColumn(rows)

\* The cell in the column of addresses, or else the first address of the row.
Candidate(row, column) ==
    LET own == IF column \in DOMAIN row THEN row[column] ELSE Plain("blank")
        found == SelectInSeq(row, IsAddress)
    IN IF IsAddress(own) \/ found = 0 THEN own ELSE row[found]

NoResult == [valid |-> <<>>, invalid |-> <<>>, duplicates |-> <<>>]

\* One turn of the loop.  seen holds what valid holds.
AddCandidate(result, cell) ==
    CASE IsBlank(cell) -> result
      [] ~IsBlank(cell) /\ ~IsAddress(cell) -> [result EXCEPT !.invalid = Append(@, cell)]
      [] IsAddress(cell) /\ Contains(result.valid, Lower(cell)) ->
            [result EXCEPT !.duplicates = Append(@, Lower(cell))]
      [] OTHER -> [result EXCEPT !.valid = Append(@, Lower(cell))]

ParseRows(rows) ==
    FoldLeft(LAMBDA result, row: AddCandidate(result, Candidate(row, EmailColumn(rows))),
             NoResult, DataRows(rows))

\* csv-parse throws on some files.
ParseCsvOrText(lines, throws) == ParseRows(IF throws THEN SplitRows(lines) ELSE ParsedRows(lines))

-------------------------------------------------------------------------------
(* The reference: what a file means, without the loop *)

AddressesIn(row) == {Lower(row[i]): i \in {j \in DOMAIN row: IsAddress(row[j])}}

\* The rows of addresses, and the column in which a row names its own.
HasHeader(rows) == rows # <<>> /\ \E i \in DOMAIN rows[1]: IsHeader(rows[1][i])
NamedColumn(rows) == CHOOSE i \in DOMAIN rows[1]:
    IsHeader(rows[1][i]) /\ \A j \in 1..(i - 1): ~IsHeader(rows[1][j])
Data(rows) == IF HasHeader(rows) THEN SubSeq(rows, 2, Len(rows)) ELSE rows
===============================================================================
