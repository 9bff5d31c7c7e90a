-------------------------- MODULE SubstanceCatalog --------------------------
(***************************************************************************)
(* The catalogue of substances: cards that requests create and experts     *)
(* edit, and the trail of revisions that explains them.                    *)
(*                                                                         *)
(* Source: backend/app/services/substance_service.py,                      *)
(* backend/app/api/substances.py, models/substance.py.                     *)
(*                                                                         *)
(* A row bears the session whose open transaction wrote it, and Nobody     *)
(* once it is committed.  An expert loads a card without a lock; when the  *)
(* session commits, only the columns it changed are written.  Names that   *)
(* differ in case only are one name.                                       *)
(***************************************************************************)
EXTENDS Naturals, Sequences, FiniteSets, FiniteSetsExt, SequencesExt, Functions

CONSTANTS
  None, Nobody,
  Numbers,    \* CAS numbers with a right check digit
  Names,
  Experts,
  Intents     \* what each expert may set out to do

VARIABLES
  cards,      \* table substances, by id
  revisions,  \* table substance_revisions, by id, in the order they were written
  rfqs,       \* table rfqs, by id
  experts     \* what each expert is doing

catalogVars == <<cards, revisions, rfqs, experts>>

Audited == {"cas", "preferred", "synonyms", "excluded", "notes", "status"}

Given(v, otherwise) == IF v = None THEN otherwise ELSE v

\* The table with a row of that id, new or instead of the one there was.
Put(table, id, row) ==
  [i \in DOMAIN table \cup {id} |-> IF i = id THEN row ELSE table[i]]

NewId(table) == IF DOMAIN table = {} THEN 1 ELSE Max(DOMAIN table) + 1

\* What a session sees: the committed rows and its own.
Sees(s, row) == row.by \in {Nobody, s}

CardsOf(s, cas) == {c \in DOMAIN cards : cards[c].cas = cas /\ Sees(s, cards[c])}

\* The unique index makes an insert of this number wait for another's to end.
NumberHeld(s, cas) == \E c \in DOMAIN cards : cards[c].cas = cas /\ ~Sees(s, cards[c])

-----------------------------------------------------------------------------
(* The trail. *)

Snapshot(card) == [f \in Audited |-> card[f]]

\* A field of a new card that has nothing to report.
Unset(f, v) == IF f \in {"synonyms", "excluded"} THEN v = {} ELSE v = None

Reported(card) == {f \in Audited : ~Unset(f, card[f])}

Changes(before, after) == {f \in Audited : before[f] # after[f]}

Revision(s, id, action, changes, card) ==
  [card |-> id, action |-> action, snapshot |-> Snapshot(card), by |-> s, changes |-> changes]

-----------------------------------------------------------------------------
(* Cards. *)

DraftCard(s, cas, name, proof) ==
  [cas |-> cas, preferred |-> name, synonyms |-> {name}, excluded |-> {}, notes |-> None,
   status |-> "unreviewed", proof |-> proof, by |-> s]

\* create_substance, on a card requests have created or on a new one.
Entered(intent, loaded) ==
  [cas |-> intent.cas, preferred |-> intent.preferred,
   synonyms |-> {intent.preferred} \cup intent.synonyms,
   excluded |-> intent.excluded \ ({intent.preferred} \cup intent.synonyms),
   notes |-> intent.notes, status |-> "confirmed",
   proof |-> IF loaded = None THEN None ELSE loaded.proof, by |-> Nobody]

\* A proof is about one number.
Corrected(loaded, cas) ==
  IF cas = loaded.cas THEN loaded ELSE [loaded EXCEPT !.cas = cas, !.proof = None]

Edited(intent, loaded) ==
  LET preferred == Given(intent.preferred, loaded.preferred)
      synonyms == {preferred} \cup Given(intent.synonyms, loaded.synonyms)
  IN  [Corrected(loaded, Given(intent.cas, loaded.cas)) EXCEPT
         !.preferred = preferred, !.synonyms = synonyms,
         !.excluded = Given(intent.excluded, loaded.excluded) \ synonyms,
         !.notes = Given(intent.notes, loaded.notes), !.status = "confirmed"]

\* apply_rfq_decision: what the expert says of the substance of a request.
Decided(intent, loaded, rfq) ==
  LET confirms == intent.action = "confirm"
      preferred == Given(intent.preferred, IF confirms THEN intent.suggested ELSE loaded.preferred)
      synonyms == loaded.synonyms \cup {rfq.name, preferred}
                  \cup (IF confirms THEN {intent.suggested} \cup intent.synonyms ELSE {})
      excluded == loaded.excluded \cup (IF confirms THEN {} ELSE {intent.suggested})
  IN  [loaded EXCEPT
         !.preferred = preferred, !.synonyms = synonyms, !.excluded = excluded \ synonyms,
         !.status = IF confirms \/ intent.preferred # None THEN "confirmed" ELSE "needs_review",
         !.notes = Given(intent.notes, @), !.proof = rfq.proof]

-----------------------------------------------------------------------------
(* Experts. *)

Idle == [at |-> "idle"]

CatalogInit ==
  /\ cards = <<>> /\ revisions = <<>> /\ rfqs = <<>>
  /\ experts = [e \in Experts |-> Idle]

Holds(e, intent, id, card) ==
  experts' = [experts EXCEPT ![e] = [at |-> "saving", intent |-> intent, id |-> id, card |-> card]]

\* The number an intent is about, and the card it finds under it.
Subject(intent) ==
  IF intent.kind = "decide" THEN rfqs[intent.rfq].cas ELSE intent.cas

LoadsByNumber(e, intent) ==
  LET found == CardsOf(e, Subject(intent))
  IN  IF found = {} THEN Holds(e, intent, None, None)
      ELSE LET c == CHOOSE c \in found : TRUE IN Holds(e, intent, c, cards[c])

StartsEntry(e) ==
  /\ experts[e].at = "idle"
  /\ \E intent \in Intents[e] :
       /\ intent.kind = "enter"
       /\ \A c \in CardsOf(e, intent.cas) : cards[c].status = "unreviewed"
       /\ LoadsByNumber(e, intent)
  /\ UNCHANGED <<cards, revisions, rfqs>>

\* A request without a number has no card to decide on.
StartsDecision(e) ==
  /\ experts[e].at = "idle"
  /\ \E intent \in Intents[e] :
       /\ intent.kind = "decide"
       /\ intent.rfq \in DOMAIN rfqs /\ rfqs[intent.rfq].by = Nobody /\ rfqs[intent.rfq].cas # None
       /\ LoadsByNumber(e, intent)
  /\ UNCHANGED <<cards, revisions, rfqs>>

\* The number must not be taken by another card.
StartsEdit(e) ==
  /\ experts[e].at = "idle"
  /\ \E intent \in Intents[e] :
       /\ intent.kind = "edit"
       /\ intent.card \in DOMAIN cards /\ Sees(e, cards[intent.card])
       /\ CardsOf(e, Given(intent.cas, cards[intent.card].cas)) \subseteq {intent.card}
       /\ Holds(e, intent, intent.card, cards[intent.card])
  /\ UNCHANGED <<cards, revisions, rfqs>>

\* What a decision starts from when the number has no card yet: not a draft of a
\* request, whose name would be a synonym.
BareCard(intent, rfq) ==
  [DraftCard(Nobody, rfq.cas, Given(intent.preferred, rfq.name), None) EXCEPT !.synonyms = {}]

Result(job) ==
  CASE job.intent.kind = "enter" -> Entered(job.intent, job.card)
    [] job.intent.kind = "edit" -> Edited(job.intent, job.card)
    [] OTHER -> Decided(job.intent,
                        IF job.id = None THEN BareCard(job.intent, rfqs[job.intent.rfq]) ELSE job.card,
                        rfqs[job.intent.rfq])

\* What the revision says was changed.
ChangedBy(job) ==
  IF job.id # None THEN Changes(job.card, Result(job))
  ELSE IF job.intent.kind = "enter" THEN Reported(Result(job))
  ELSE Changes(BareCard(job.intent, rfqs[job.intent.rfq]), Result(job))

Action(job) ==
  CASE job.intent.kind = "enter" -> IF job.id = None THEN "created" ELSE "catalog_confirmed"
    [] job.intent.kind = "edit" ->
         IF Given(job.intent.cas, job.card.cas) # job.card.cas THEN "cas_corrected" ELSE "rules_updated"
    [] OTHER -> job.intent.action

\* Mutant: the whole row is written as it was loaded and changed.
WholeRow(row, loaded, result) == result

\* Only the columns whose value changed are written, over whatever the row holds now.
Written(row, loaded, result) ==
  [f \in DOMAIN row |-> IF result[f] # loaded[f] THEN result[f] ELSE row[f]]

\* A number taken meanwhile is refused by the index, with everything else.
NumberTaken(job, result) ==
  /\ job.id = None \/ result.cas # job.card.cas
  /\ \E c \in DOMAIN cards : c # job.id /\ cards[c].cas = result.cas

Saves(e) ==
  /\ experts[e].at = "saving"
  /\ LET job == experts[e]
         result == Result(job)
         id == IF job.id = None THEN NewId(cards) ELSE job.id
     IN  /\ ~NumberHeld(e, result.cas)
         /\ IF NumberTaken(job, result) THEN UNCHANGED <<cards, revisions, rfqs>>
            ELSE /\ cards' = Put(cards, id, IF job.id = None THEN result
                                           ELSE Written(cards[id], job.card, result))
                 /\ revisions' = Put(revisions, NewId(revisions),
                                     Revision(Nobody, id, Action(job), ChangedBy(job), result))
                 /\ rfqs' = IF job.intent.kind = "decide"
                            THEN [rfqs EXCEPT ![job.intent.rfq].substance = id] ELSE rfqs
  /\ experts' = [experts EXCEPT ![e] = [at |-> "done"]]

CatalogNext ==
  \E e \in Experts : StartsEntry(e) \/ StartsDecision(e) \/ StartsEdit(e) \/ Saves(e)

-----------------------------------------------------------------------------
(* What the trail and the cards say. *)

Committed(table) == {i \in DOMAIN table : table[i].by = Nobody}

\* The latest revision that changed a column says what the column holds, however
\* the sessions of the experts overlap; where none did, the first snapshot does.
\* Concerns _record_revision, which every writer calls, and the columns a commit writes.
TrailExplainsCards ==
  \A c \in Committed(cards) :
    LET trail == {i \in DOMAIN revisions : revisions[i].card = c /\ revisions[i].by = Nobody}
        about(f) == {i \in trail : f \in revisions[i].changes}
        last(f) == IF about(f) = {} THEN Min(trail) ELSE Max(about(f))
    IN  trail # {} /\ \A f \in Audited : revisions[last(f)].snapshot[f] = cards[c][f]
=============================================================================
