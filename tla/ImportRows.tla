----------------------------- MODULE ImportRows -----------------------------
(***************************************************************************)
(* A buyer's list of positions, read from a spreadsheet or a CSV file into *)
(* rows that a request can be created from.                                *)
(*                                                                         *)
(* Source: backend/app/services/rfq_import.py.                             *)
(*                                                                         *)
(* A cell is what its reader makes of the text: a number with or without a *)
(* unit, a registry number with the right check digit, a list of codes.    *)
(* Names that differ in case only are one name, whatever spells it.        *)
(***************************************************************************)
EXTENDS Naturals, Sequences, FiniteSets, SequencesExt, FiniteSetsExt, Functions

CONSTANTS
  MaxRows,    \* rows of a file that are read
  Unreadable  \* what the reader of a field does not recognise

ASSUME MaxRowsAssumption == MaxRows \in Nat \ {0}

(* Cells.  A CSV file holds the text of a formula, a spreadsheet a formula   *)
(* with the value the last program that saved it computed, if one did.      *)
Blank == [is |-> "blank"]
Formula == [is |-> "formula"]
Text(v) == [is |-> "text", value |-> v]
Computed(v) == [is |-> "computed", value |-> v]
NeverComputed == [is |-> "never computed"]

IsText(cell) == cell.is = "text"

Fields == {"name", "cas", "synonyms", "specification", "purity", "grade", "volume", "unit",
           "target_price", "currency", "incoterms", "countries", "comment"}

(* What each reader knows.                                                   *)
Units == {"g", "kg", "t", "L", "mL"}
Conversions == [mg |-> "g", lb |-> "kg", oz |-> "g", m3 |-> "L"]
Currencies == {"USD", "EUR", "CNY", "RUB"}
SupportedIncoterms == {"EXW", "FCA", "CIP"}
SearchCountries == {"Russia", "China", "India"}

-----------------------------------------------------------------------------
(* A field: what it puts into the request and what it says of the cell.      *)

\* One map laid over another.
Over(strong, weak) ==
  [f \in DOMAIN strong \cup DOMAIN weak |-> IF f \in DOMAIN strong THEN strong[f] ELSE weak[f]]

Nothing == [put |-> <<>>, errors |-> {}, warnings |-> {}]
Puts(field, v) == [Nothing EXCEPT !.put = [f \in {field} |-> v]]
Refuses(field) == [Nothing EXCEPT !.errors = {field}]
Warns(field) == [Nothing EXCEPT !.warnings = {field}]

Together(a, b) ==
  [put |-> Over(a.put, b.put), errors |-> a.errors \cup b.errors, warnings |-> a.warnings \cup b.warnings]

ParseName(cell) == IF IsText(cell) THEN Puts("name", cell.value) ELSE Refuses("name")

ParseCas(cell) ==
  CASE cell = Blank -> Nothing
    [] IsText(cell) /\ cell.value # Unreadable -> Puts("cas", cell.value)
    [] OTHER -> Refuses("cas")

\* A numeral in thousandths.  Three digits after a comma are read as thousands.
DecimalNumber(n) ==
  IF n = Unreadable THEN Unreadable
  ELSE IF n.mark = "," /\ n.digits = 3 THEN (n.left * 1000 + n.right) * 1000
  ELSE n.left * 1000 + n.right * 10 ^ (3 - n.digits)

\* The unit of a column of its own is taken before the one written by the number,
\* which then makes the number unreadable.
ParseVolume(volume, unit) ==
  LET written == IF unit = Blank THEN volume.value.unit
                 ELSE IF IsText(unit) THEN unit.value ELSE Unreadable
      amount == IF unit # Blank /\ volume.value.unit # "none" THEN Unreadable
                ELSE DecimalNumber(volume.value.number)
  IN  IF volume = Blank THEN Nothing
      ELSE IF volume = Formula THEN Refuses("volume")
      ELSE IF amount = Unreadable THEN Refuses("volume")
      ELSE IF written \in Units THEN Puts("volume", [amount |-> amount, unit |-> written])
      ELSE IF written \in DOMAIN Conversions THEN
           Together(Puts("volume", [amount |-> <<amount, written>>, unit |-> Conversions[written]]),
                    Warns("unit"))
      ELSE Refuses("unit")

\* A purity that is no percentage goes into the request as it stands.
ParsePurity(purity, grade) ==
  LET of(cell) == IF IsText(cell) THEN <<cell.value>> ELSE <<>>
      parts == of(purity) \o of(grade)
  IN  Together(IF parts = <<>> THEN Nothing ELSE Puts("purity", parts),
               IF IsText(purity) /\ purity.value \notin 1..100 THEN Warns("purity") ELSE Nothing)

ParsePrice(price, currency) ==
  Together(CASE ~IsText(price) -> Nothing
             [] price.value = Unreadable -> Warns("target_price")
             [] OTHER -> Puts("target_price", DecimalNumber(price.value)),
           CASE currency = Blank -> Nothing
             [] IsText(currency) /\ currency.value \in Currencies -> Puts("currency", currency.value)
             [] OTHER -> Warns("currency"))

\* Mutant: an item of a list is kept whether it is known or not.
AnyItem(items, known) == ToSet(items)

KnownItems(items, known) == ToSet(items) \cap known

\* Items that are not known are left out, with a warning.
ParseList(field, target, cell, known) ==
  LET items == CASE cell = Blank -> <<>> [] IsText(cell) -> cell.value [] OTHER -> <<Unreadable>>
      kept == KnownItems(items, known)
  IN  Together(IF kept = {} THEN Nothing ELSE Puts(target, kept),
               IF ToSet(items) \subseteq known THEN Nothing ELSE Warns(field))

ParseSynonyms(cell) ==
  LET items == IF IsText(cell) THEN ToSet(cell.value) ELSE {}
  IN  IF items = {} THEN Nothing ELSE Puts("confirmed_synonyms", items)

ParseNote(field, target, cell) == IF IsText(cell) THEN Puts(target, cell.value) ELSE Nothing

-----------------------------------------------------------------------------
(* A row. *)

\* No two fields put the same value.
Issues(raw) ==
  LET read ==
        { ParseName(raw["name"]),
          ParseCas(raw["cas"]),
          ParseVolume(raw["volume"], raw["unit"]),
          ParsePurity(raw["purity"], raw["grade"]),
          ParsePrice(raw["target_price"], raw["currency"]),
          ParseList("incoterms", "incoterms", raw["incoterms"], SupportedIncoterms),
          ParseList("countries", "search_countries", raw["countries"], SearchCountries),
          ParseSynonyms(raw["synonyms"]),
          ParseNote("specification", "specification", raw["specification"]),
          ParseNote("comment", "specialist_comment", raw["comment"]) }
  IN  [put |-> [f \in UNION {DOMAIN p.put : p \in read} |-> (CHOOSE p \in read : f \in DOMAIN p.put).put[f]],
       errors |-> UNION {p.errors : p \in read}, warnings |-> UNION {p.warnings : p \in read}]

\* A row is identified by its number when it has one.
ParseRow(number, raw) ==
  LET read == Issues(raw)
      method == IF "cas" \in DOMAIN read.put THEN "cas" ELSE "spec"
  IN  [row |-> number, raw |-> raw,
       values |-> Over([identification_method |-> method], read.put),
       errors |-> read.errors, warnings |-> read.warnings]

Importable(row) == row.errors = {}

\* Corrected values go through the reader of the file; a field left out is blank.
ParseImportRow(number, raw) ==
  ParseRow(number, [f \in Fields |-> IF f \in DOMAIN raw THEN raw[f] ELSE Blank])

-----------------------------------------------------------------------------
(* A file. *)

\* The members of a set of numbers in their order.
InOrder(S) ==
  CHOOSE q \in [1..Cardinality(S) -> S] : \A i, j \in 1..Cardinality(S) : i < j => q[i] < q[j]

\* What a program computed is read in place of the formula.
ReadCell(format, cell) ==
  CASE format = "csv" -> cell
    [] cell.is = "computed" -> Text(cell.value)
    [] cell.is = "never computed" -> Blank
    [] OTHER -> cell

ReadTable(file) ==
  [l \in DOMAIN file.lines |->
     [c \in DOMAIN file.lines[l] |-> ReadCell(file.format, file.lines[l][c])]]

\* Formulas that nothing ever computed are blank, and the buyer is told.
FormulasWithoutValues(file) ==
  {p \in (DOMAIN file.lines) \X (1..60) :
     /\ file.format = "xlsx" /\ p[2] \in DOMAIN file.lines[p[1]]
     /\ file.lines[p[1]][p[2]] = NeverComputed}

IsEmpty(line) == \A c \in DOMAIN line : line[c] = Blank

\* The first column of a field is the one that counts.
MatchColumns(header) ==
  LET column(f) == {c \in DOMAIN header : header[c] = Text(f)}
  IN  [f \in {g \in Fields : column(g) # {}} |-> Min(column(f))]

IgnoredColumns(header) ==
  {c \in DOMAIN header : header[c] # Blank} \ Range(MatchColumns(header))

RowValues(line, columns) ==
  [f \in Fields |->
     IF f \in DOMAIN columns /\ columns[f] \in DOMAIN line THEN line[columns[f]] ELSE Blank]

Key(row) ==
  LET of(f) == IF f \in DOMAIN row.values THEN row.values[f] ELSE ""
  IN  <<of("name"), of("cas")>>

Flagged(rows) ==
  [i \in DOMAIN rows |->
     IF Key(rows[i]) # <<"", "">> /\ \E j \in 1..(i - 1) : Key(rows[j]) = Key(rows[i])
     THEN [rows[i] EXCEPT !.warnings = @ \cup {"name"}]
     ELSE rows[i]]

Unread(why) == [read |-> FALSE, why |-> why]

ParseImportFile(file) ==
  LET table == ReadTable(file)
      filled == {l \in DOMAIN table : ~IsEmpty(table[l])}
      header == Min(filled)
      columns == MatchColumns(table[header])
      body == {l \in filled : l > header /\ l <= header + MaxRows}
      numbers == InOrder(body)
      rows == [i \in DOMAIN numbers |-> ParseRow(numbers[i], RowValues(table[numbers[i]], columns))]
  IN  IF file.format \notin {"csv", "xlsx"} THEN Unread("format")
      ELSE IF filled = {} THEN Unread("empty")
      ELSE IF "name" \notin DOMAIN columns THEN Unread("no name column")
      ELSE IF body = {} THEN Unread("no rows")
      ELSE [read |-> TRUE, rows |-> Flagged(rows),
            ignored |-> IgnoredColumns(table[header]),
            stale |-> FormulasWithoutValues(file),
            cut |-> Len(table) - header > MaxRows]
=============================================================================
