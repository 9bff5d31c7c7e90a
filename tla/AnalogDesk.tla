----------------------------- MODULE AnalogDesk -----------------------------
(***************************************************************************)
(* The window of a request that looks for substitutes: they are suggested, *)
(* the buyer marks some and a request is created for each.  A suggestion   *)
(* and a confirmation may be under way together, and the confirmation      *)
(* commits twice: the batch, then the links to its requests.               *)
(*                                                                         *)
(* Source: frontend/src/components/AnalogRfqDetail.tsx,                    *)
(* backend/app/services/analog_service.py, backend/app/api/rfq.py.         *)
(*                                                                         *)
(* The marks stored with the candidates are left out: nothing reads them   *)
(* but the window.                                                         *)
(***************************************************************************)
EXTENDS RfqBatches

CONSTANTS
  Spelling, Codes, Kinds, MaxAnalogs,
  Suggestions,    \* what the services outside may answer to a search for substitutes
  PastAnalogs,    \* the candidates there are when a behaviour starts
  MaxPresses

VARIABLES
  analogs,    \* table rfq_analog_candidates, by id
  desk,       \* the state of the window
  presses     \* how often a button was pressed, bounded

deskVars == <<analogs, desk, presses>>

Finder == INSTANCE AnalogCandidates

\* The id of the next candidate: ids are not used again.
NewAnalog == IF DOMAIN analogs = {} THEN 1 ELSE Max(DOMAIN analogs) + 1

Live == {a \in DOMAIN analogs : ~analogs[a].deleted}

Listed(rfq) == {a \in Live : analogs[a].rfq = rfq}

DeskInit ==
  /\ presses = 0
  /\ desk = [rfq |-> None, shown |-> {}, chosen |-> <<>>, suggesting |-> None, confirming |-> None]

-----------------------------------------------------------------------------
(* The window. *)

\* The pending candidates as the window shows them.
Pending(rfq) == {a \in Listed(rfq) : analogs[a].created = None}

Loads ==
  /\ desk.suggesting = None /\ desk.confirming = None /\ presses < MaxPresses
  /\ \E r \in Committed(rfqs) :
       /\ rfqs[r].method = "analog"
       /\ desk' = [desk EXCEPT !.rfq = r, !.shown = Pending(r), !.chosen = <<>>]
  /\ presses' = presses + 1
  /\ UNCHANGED <<batchVars, analogs>>

Toggles ==
  /\ \E a \in desk.shown :
       desk' = [desk EXCEPT !.chosen = IF a \in ToSet(@) THEN Picked(@, {i \in DOMAIN @ : @[i] # a})
                                       ELSE Append(@, a)]
  /\ UNCHANGED <<batchVars, analogs, presses>>

AsksSuggestion(s) ==
  /\ jobs[s] = Resting /\ desk.rfq # None /\ desk.suggesting = None /\ presses < MaxPresses
  /\ jobs' = [jobs EXCEPT ![s] = [at |-> "suggest", rfq |-> desk.rfq, for |-> "analog"]]
  /\ desk' = [desk EXCEPT !.suggesting = s]
  /\ presses' = presses + 1
  /\ UNCHANGED <<cards, revisions, rfqs, batches, searches, analogs>>

AsksRequests(s) ==
  /\ jobs[s] = Resting /\ desk.chosen # <<>> /\ desk.confirming = None /\ presses < MaxPresses
  /\ jobs' = [jobs EXCEPT ![s] =
                [at |-> "choice", rfq |-> desk.rfq, chosen |-> desk.chosen, for |-> "analog"]]
  /\ desk' = [desk EXCEPT !.confirming = s]
  /\ presses' = presses + 1
  /\ UNCHANGED <<cards, revisions, rfqs, batches, searches, analogs>>

\* Either answer brings the list as it is now, and nothing stays chosen.
AnswerArrives(s) ==
  /\ jobs[s].at = "answered" /\ s \in {desk.suggesting, desk.confirming}
  /\ desk' = [desk EXCEPT !.shown = Pending(desk.rfq), !.chosen = <<>>,
                          !.suggesting = IF @ = s THEN None ELSE @,
                          !.confirming = IF @ = s THEN None ELSE @]
  /\ jobs' = [jobs EXCEPT ![s].at = "done"]
  /\ UNCHANGED <<cards, revisions, rfqs, batches, searches, analogs, presses>>

\* The server failed, or its answer was lost; what was chosen stays chosen.
AnswerLost(s) ==
  /\ s \in {desk.suggesting, desk.confirming}
  /\ desk' = [desk EXCEPT !.suggesting = IF @ = s THEN None ELSE @,
                          !.confirming = IF @ = s THEN None ELSE @]
  /\ UNCHANGED <<batchVars, analogs, presses>>

DeskNext ==
  \/ Loads \/ Toggles
  \/ \E s \in Sessions : AsksSuggestion(s) \/ AsksRequests(s) \/ AnswerArrives(s) \/ AnswerLost(s)

-----------------------------------------------------------------------------
(* A suggestion. *)

\* suggest_analogs, then the first reading of store_suggestion.
FindsAnalogs(s) ==
  /\ jobs[s].at = "suggest"
  /\ LET rfq == rfqs[jobs[s].rfq]
     IN  \E w \in Suggestions :
           jobs' = [jobs EXCEPT ![s] =
                      [at |-> "store", rfq |-> jobs[s].rfq, for |-> "analog", old |-> Pending(jobs[s].rfq),
                       found |-> Finder!SuggestAnalogs(rfq.name, rfq.cas, w).candidates]]
  /\ UNCHANGED <<cards, revisions, rfqs, batches, searches, analogs>>

\* The rest of store_suggestion: what was unlinked when it was read is deleted, though
\* it may be linked by now; the names still in the list are not offered again.
StoresAnalogs(s) ==
  /\ jobs[s].at = "store"
  /\ LET known == {analogs[a].name : a \in Listed(jobs[s].rfq) \ jobs[s].old}
         found == jobs[s].found
         fresh == Picked(found, {i \in DOMAIN found : found[i].name \notin known})
         first == NewAnalog
         kept == [a \in DOMAIN analogs |->
                    IF a \in jobs[s].old THEN [analogs[a] EXCEPT !.deleted = TRUE] ELSE analogs[a]]
         added == [a \in first..(first + Len(fresh) - 1) |->
                     [rfq |-> jobs[s].rfq, name |-> fresh[a - first + 1].name,
                      cas |-> fresh[a - first + 1].cas, created |-> None, deleted |-> FALSE]]
     IN  analogs' = Over(kept, added)
  /\ jobs' = [jobs EXCEPT ![s].at = "answered"]
  /\ UNCHANGED <<cards, revisions, rfqs, batches, searches>>

-----------------------------------------------------------------------------
(* A confirmation. *)

\* The conditions of purchase are asked when the substance is known.
Terms == [incoterms |-> {"EXW"}, search_countries |-> {"China"}]

\* _child_values.
ChildValues(a) ==
  LET cas == analogs[a].cas
  IN  IF cas = None THEN [name |-> analogs[a].name, identification_method |-> "spec"]
      ELSE [name |-> analogs[a].name, cas |-> cas, identification_method |-> "cas"]

\* confirm_analogs up to the batch: candidates that are gone or have a request are
\* left out; the key names the rest whatever their order.
ReadsChoice(s) ==
  /\ jobs[s].at = "choice"
  /\ LET chosen == jobs[s].chosen
         pending == Picked(chosen, {i \in DOMAIN chosen : chosen[i] \in Pending(jobs[s].rfq)})
         key == <<"analog", jobs[s].rfq, ToSet(pending)>>
     IN  jobs' = [jobs EXCEPT ![s] =
                    IF pending = <<>> THEN [@ EXCEPT !.at = "answered"]
                    ELSE [at |-> "lookup", key |-> key, defaults |-> Terms, for |-> "analog",
                          items |-> [i \in DOMAIN pending |-> [row |-> i, values |-> ChildValues(pending[i])]],
                          results |-> <<>>, batch |-> None, created |-> TRUE,
                          rfq |-> jobs[s].rfq, pending |-> pending]]
  /\ UNCHANGED <<cards, revisions, rfqs, batches, searches, analogs>>

\* The rest of confirm_analogs: a link for every row of the answer; a candidate that
\* is gone fails them all.
LinksRequests(s) ==
  /\ jobs[s].at = "created" /\ jobs[s].for = "analog"
  /\ LET pending == jobs[s].pending
         answer(i) == {r \in ToSet(jobs[s].results) : r.row = i /\ r.rfq # None}
         linked == {i \in DOMAIN pending : answer(i) # {}}
         row(a) == CHOOSE i \in linked : pending[i] = a
         gone == {i \in linked : pending[i] \notin Live}
     IN  IF gone # {}
         THEN /\ jobs' = [jobs EXCEPT ![s].at = "failed"]
              /\ UNCHANGED analogs
         ELSE /\ analogs' = [a \in DOMAIN analogs |->
                               IF a \in {pending[i] : i \in linked}
                               THEN [analogs[a] EXCEPT !.created = (CHOOSE r \in answer(row(a)) : TRUE).rfq]
                               ELSE analogs[a]]
              /\ jobs' = [jobs EXCEPT ![s].at = "answered"]
  /\ UNCHANGED <<cards, revisions, rfqs, batches, searches>>

DeskStep(s) == FindsAnalogs(s) \/ StoresAnalogs(s) \/ ReadsChoice(s) \/ LinksRequests(s)

-----------------------------------------------------------------------------
(* What the buyer may rely on. *)

ChildrenOf(parent) ==
  {r \in Committed(rfqs) : rfqs[r].batch # None /\ rfqs[r].batch \in DOMAIN batches
                           /\ batches[rfqs[r].batch].key[1] = "analog"
                           /\ batches[rfqs[r].batch].key[2] = parent}

\* Neither the number nor the name is that of the position; a name without a word of
\* its own is compared with none.
Another(name, cas, position) ==
  LET one == Spelling[name]
      other == Spelling[position.name]
  IN  /\ cas = None \/ cas # position.cas
      /\ one # <<>> /\ other # <<>> => ~Finder!Within(one, other) /\ ~Finder!Within(other, one)

\* A request created for a substitute is for another substance: neither its number nor
\* its name is that of the position, whichever list it was chosen from.  Concerns
\* _accept, the number that is dropped or kept, and what the request is created from.
ReplacementIsAnother ==
  \A p \in Committed(rfqs) : rfqs[p].method = "analog" =>
    \A r \in ChildrenOf(p) : Another(rfqs[r].name, rfqs[r].cas, rfqs[p])

\* Refuted: a candidate is linked to the request of its own name; the same choice made
\* again in another order after a crash between the commits links them crosswise.
LinkedToItsOwn ==
  \A a \in Live : analogs[a].created # None => rfqs[analogs[a].created].name = analogs[a].name

\* Refuted: a candidate whose request was created is not taken off the list.
LinkedStays ==
  [][\A a \in Live : analogs[a].created # None => a \in Live']_analogs
=============================================================================
