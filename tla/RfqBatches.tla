----------------------------- MODULE RfqBatches -----------------------------
(***************************************************************************)
(* The server's side of a list of positions: one transaction creates a     *)
(* batch with a request for every row, its card in the catalogue and its   *)
(* searches; each row has a savepoint of its own, and a key keeps a second *)
(* submission from creating a second batch.                                *)
(*                                                                         *)
(* Source: backend/app/services/rfq_batch_service.py,                      *)
(* backend/app/services/rfq_service.py (create_rfq, search_run_payload),   *)
(* backend/app/schemas/rfq.py, backend/app/api/rfq.py.                     *)
(*                                                                         *)
(* A step is a statement that may wait for another transaction, with those *)
(* after it that cannot.  A search run stands for the run and the Echemi   *)
(* search asked for with it (EchemiJobs).                                  *)
(***************************************************************************)
EXTENDS SubstanceCatalog, ImportRows

CONSTANTS
  Sessions,   \* requests to the server that may be under way
  LongTexts   \* texts longer than their column

VARIABLES
  batches,    \* table rfq_batches, by id: owner and idempotency key
  searches,   \* table search_runs: the runs queued for a request
  jobs        \* what the handler of each request to the server is doing

batchVars == <<cards, revisions, rfqs, batches, searches, jobs>>

Resting == [at |-> "resting"]

BatchInit == batches = <<>> /\ searches = {} /\ jobs = [s \in Sessions |-> Resting]

-----------------------------------------------------------------------------
(* What a request is created from. *)

\* What the row says is stronger than what the list says.
MergedValues(values, defaults) == Over(values, defaults)

ValueOf(values, f) == IF f \in DOMAIN values THEN values[f] ELSE None

\* Where no country is named, China is searched.
CountriesOf(values) ==
  IF "search_countries" \in DOMAIN values THEN values["search_countries"] ELSE {"China"}

\* RFQCreate.  A position for which substitutes are sought names neither terms nor countries.
Valid(values) ==
  LET method == ValueOf(values, "identification_method")
  IN  /\ "name" \in DOMAIN values
      /\ method = "cas" => ValueOf(values, "cas") \in Numbers
      /\ CountriesOf(values) \subseteq SearchCountries
      /\ method # "analog" => CountriesOf(values) # {} /\ "incoterms" \in DOMAIN values

\* The schema bounds no name, purity or volume, the columns do.
FitsColumns(values) ==
  \A f \in {"name", "purity", "volume"} \cap DOMAIN values :
    values[f] \notin LongTexts /\ (f = "purity" => ToSet(values[f]) \cap LongTexts = {})

\* The values a request keeps, of those its searches and its letters read.
Request(s, values, batch, card, proof) ==
  [name |-> values["name"], cas |-> ValueOf(values, "cas"),
   method |-> values["identification_method"], volume |-> ValueOf(values, "volume"),
   incoterms |-> ValueOf(values, "incoterms"), countries |-> CountriesOf(values),
   synonyms |-> Given(ValueOf(values, "confirmed_synonyms"), {}),
   excluded |-> Given(ValueOf(values, "excluded_names"), {}), proof |-> proof,
   substance |-> card, batch |-> batch, row |-> ValueOf(values, "row"), by |-> s]

\* search_run_payload: the rules of the card and the buyer's marks go together.
SearchOf(s, id, rfq, country, card) ==
  [rfq |-> id, country |-> country, by |-> s, method |-> rfq.method, name |-> rfq.name, cas |-> rfq.cas,
   known |-> rfq.synonyms \cup (IF card = None THEN {} ELSE card.synonyms),
   excluded |-> rfq.excluded \cup (IF card = None THEN {} ELSE card.excluded)]

Tables == [cards |-> cards, revisions |-> revisions, rfqs |-> rfqs, searches |-> searches]

TablesAre(t) ==
  cards' = t.cards /\ revisions' = t.revisions /\ rfqs' = t.rfqs /\ searches' = t.searches

\* find_or_create_substance_for_request: a request without a number has no card.
CardFor(s, values) ==
  LET found == CardsOf(s, values["cas"])
  IN  IF "cas" \notin DOMAIN values THEN None
      ELSE IF found # {} THEN CHOOSE c \in found : TRUE
      ELSE NewId(cards)

\* create_rfq, with its card, the card's revision and the searches.
WithRequest(t, s, values, batch, proof, countries) ==
  LET c == CardFor(s, values)
      fresh == c # None /\ c \notin DOMAIN t.cards
      table == IF fresh THEN Put(t.cards, c, DraftCard(s, values["cas"], values["name"], proof))
               ELSE t.cards
      id == NewId(t.rfqs)
      rfq == Request(s, values, batch, c, proof)
  IN  [cards |-> table,
       revisions |-> IF fresh THEN Put(t.revisions, NewId(t.revisions),
                                       Revision(s, c, "created_from_request", Reported(table[c]), table[c]))
                     ELSE t.revisions,
       rfqs |-> Put(t.rfqs, id, rfq),
       searches |-> t.searches \cup {SearchOf(s, id, rfq, country, IF c = None THEN None ELSE table[c]) :
                                       country \in countries}]

-----------------------------------------------------------------------------
(* The transaction of a batch. *)

\* The members of a list at these places.
Picked(list, places) ==
  LET order == InOrder(places) IN [k \in DOMAIN order |-> list[order[k]]]

\* The handler of a submission starts.
Submits(s, key, items, defaults, for) ==
  jobs' = [jobs EXCEPT ![s] =
             [at |-> "lookup", key |-> key, items |-> items, defaults |-> defaults, for |-> for,
              results |-> <<>>, batch |-> None, created |-> TRUE]]

BatchesOf(s, key) == {b \in DOMAIN batches : batches[b].key = key /\ Sees(s, batches[b])}

\* The requests of a batch in the order they were created, numbered from one.
ExistingResults(b) ==
  LET ids == InOrder({r \in DOMAIN rfqs : rfqs[r].batch = b /\ rfqs[r].by = Nobody})
  IN  [i \in DOMAIN ids |-> [row |-> i, rfq |-> ids[i]]]

FindsBatch(s) ==
  /\ jobs[s].at = "lookup"
  /\ LET found == BatchesOf(s, jobs[s].key)
         b == CHOOSE b \in found : TRUE
     IN  jobs' = [jobs EXCEPT ![s] =
                    IF found = {} THEN [@ EXCEPT !.at = "insert"]
                    ELSE [@ EXCEPT !.at = "created", !.batch = b, !.created = FALSE,
                                   !.results = ExistingResults(b)]]
  /\ UNCHANGED <<cards, revisions, rfqs, batches, searches>>

\* Mutant: the key is not unique.
NeverTaken(key) == FALSE

KeyTaken(key) == \E b \in DOMAIN batches : batches[b].key = key

\* A key of a transaction under way is waited for; one that is committed meanwhile
\* fails the request.
KeyHeld(s, key) == \E b \in DOMAIN batches : batches[b].key = key /\ ~Sees(s, batches[b])

InsertsBatch(s) ==
  /\ jobs[s].at = "insert" /\ ~KeyHeld(s, jobs[s].key)
  /\ IF KeyTaken(jobs[s].key)
     THEN /\ jobs' = [jobs EXCEPT ![s] = [@ EXCEPT !.at = "failed"]]
          /\ UNCHANGED batches
     ELSE /\ batches' = Put(batches, NewId(batches), [key |-> jobs[s].key, by |-> s])
          /\ jobs' = [jobs EXCEPT ![s] = [@ EXCEPT !.at = "rows", !.batch = NewId(batches)]]
  /\ UNCHANGED <<cards, revisions, rfqs, searches>>

Item(s) == jobs[s].items[Len(jobs[s].results) + 1]
HasItem(s) == jobs[s].at = "rows" /\ Len(jobs[s].results) < Len(jobs[s].items)

Values(s) == MergedValues(Item(s).values, jobs[s].defaults)

Answers(s, rfq, why) ==
  jobs' = [jobs EXCEPT ![s].results = Append(@, [row |-> Item(s).row, rfq |-> rfq, why |-> why])]

RefusesRow(s) ==
  /\ HasItem(s) /\ ~Valid(Values(s))
  /\ Answers(s, None, "invalid")
  /\ UNCHANGED <<cards, revisions, rfqs, batches, searches>>

\* Mutant: what a row had written before it failed stays.
KeepsCard(before, after, ok) == IF ok THEN after ELSE [before EXCEPT !.cards = after.cards]

\* Mutant: the new card is not added to the session.
LosesCard(before, after, ok) == IF ok THEN [after EXCEPT !.cards = before.cards] ELSE before

\* The savepoint of a row.
Savepoint(before, after, ok) == IF ok THEN after ELSE before

\* The card of the number waits for a transaction that is creating the same card.
CreatesRow(s) ==
  /\ HasItem(s) /\ Valid(Values(s)) /\ ~NumberHeld(s, ValueOf(Values(s), "cas"))
  /\ LET fits == FitsColumns(Values(s))
         values == Put(Values(s), "row", Item(s).row)
     IN  /\ TablesAre(Savepoint(Tables,
                                WithRequest(Tables, s, values, jobs[s].batch, None, CountriesOf(values)),
                                fits))
         /\ IF fits THEN Answers(s, NewId(rfqs), "created") ELSE Answers(s, None, "overlong")
  /\ UNCHANGED batches

\* A cycle of waiting transactions is broken by the database, which fails a statement
\* of one of them: its row is rolled back, the rows before it stay.
WaitsFor(s, t) ==
  /\ HasItem(s) /\ Valid(Values(s))
  /\ \E c \in DOMAIN cards : cards[c].cas = ValueOf(Values(s), "cas") /\ cards[c].by = t

BreaksDeadlock(s) ==
  /\ \E t \in Sessions \ {s} : WaitsFor(s, t) /\ WaitsFor(t, s)
  /\ Answers(s, None, "deadlock")
  /\ UNCHANGED <<cards, revisions, rfqs, batches, searches>>

Keeps(s, row) == IF row.by = s THEN [row EXCEPT !.by = Nobody] ELSE row

CommitsBatch(s) ==
  /\ jobs[s].at = "rows" /\ ~HasItem(s)
  /\ cards' = [c \in DOMAIN cards |-> Keeps(s, cards[c])]
  /\ revisions' = [i \in DOMAIN revisions |-> Keeps(s, revisions[i])]
  /\ rfqs' = [r \in DOMAIN rfqs |-> Keeps(s, rfqs[r])]
  /\ batches' = [b \in DOMAIN batches |-> Keeps(s, batches[b])]
  /\ searches' = {Keeps(s, run) : run \in searches}
  /\ jobs' = [jobs EXCEPT ![s].at = "created"]

\* The process ends, or its connection does: the transaction leaves nothing.
Without(s, table) == [i \in {j \in DOMAIN table : table[j].by # s} |-> table[i]]

RollsBack(s) ==
  /\ cards' = Without(s, cards) /\ revisions' = Without(s, revisions)
  /\ rfqs' = Without(s, rfqs) /\ batches' = Without(s, batches)
  /\ searches' = {run \in searches : run.by # s}

Crashes(s) ==
  /\ jobs[s].at \notin {"resting", "failed", "done"}
  /\ RollsBack(s)
  /\ jobs' = [jobs EXCEPT ![s].at = "failed"]

BatchStep(s) ==
  \/ FindsBatch(s) \/ InsertsBatch(s) \/ RefusesRow(s) \/ CreatesRow(s) \/ BreaksDeadlock(s)
  \/ CommitsBatch(s)

-----------------------------------------------------------------------------
(* What batches promise. *)

\* However often a list is submitted, each of its rows is one request at most.
\* Concerns find_batch and uq_rfq_batches_owner_key.
EachRowOnce ==
  \A r, q \in Committed(rfqs) :
    /\ rfqs[r].batch # None /\ rfqs[q].batch # None /\ rfqs[r].row = rfqs[q].row
    /\ batches[rfqs[r].batch].key = batches[rfqs[q].batch].key
    => r = q

\* A row that fails takes everything it wrote with it, one that succeeds leaves all
\* of it: a draft card has a request, a request of a batch has a search per country.
\* Concerns the savepoint of create_rfq_batch.
RowsStandAlone ==
  /\ \A c \in Committed(cards) :
       cards[c].status = "unreviewed" => \E r \in Committed(rfqs) : rfqs[r].substance = c
  /\ \A r \in Committed(rfqs) : rfqs[r].batch # None =>
       {run.country : run \in {x \in searches : x.rfq = r /\ x.by = Nobody}} = rfqs[r].countries
=============================================================================
