----------------------------- MODULE RequestForm -----------------------------
(***************************************************************************)
(* The form in which a buyer asks for one substance: the name is typed,    *)
(* checked against registries and pages, replaced by a recommended one and *)
(* put back, and the request is created.  The buyer goes on working while  *)
(* an answer is under way, and a handler finds the fields as they were     *)
(* when it started.                                                        *)
(*                                                                         *)
(* Source: frontend/src/components/NewRfq.tsx, backend/app/api/rfq.py      *)
(* (create), backend/app/services/rfq_service.py (create_rfq).             *)
(***************************************************************************)
EXTENDS RfqBatches

CONSTANTS
  International, Composition, MaxCandidates,
  Worlds,     \* what the services outside may answer to a check
  Typed,      \* what the buyer may type as a name
  FormSessions,   \* the sessions of the server that may serve the form
  MaxTouches

VARIABLES
  form,       \* the state of the form
  checks,     \* the check under way: the fields as its handler found them, or None
  copying,    \* the past request being copied, or None
  touches     \* what the buyer did, bounded

formVars == <<form, checks, copying, touches>>

INSTANCE SubstanceNames

Empty ==
  [name |-> None, cas |-> None, synonyms |-> {}, excluded |-> {}, suggested |-> {}, dismissed |-> {},
   locked |-> FALSE, checked |-> None, applied |-> None, undo |-> None, candidates |-> <<>>,
   query |-> None, analog |-> FALSE, busy |-> None, sent |-> FALSE]

FormInit == form = Empty /\ checks = None /\ copying = None /\ touches = 0

\* The form is gone once its request is created.
Touches ==
  /\ touches < MaxTouches /\ ~form.sent
  /\ touches' = touches + 1
  /\ UNCHANGED <<batchVars, checks, copying>>

-----------------------------------------------------------------------------
(* The fields. *)

TypesName ==
  /\ Touches /\ ~form.locked
  /\ \E n \in Typed : form' = [form EXCEPT !.name = n]

TypesCas ==
  /\ Touches /\ ~form.locked
  /\ \E c \in Numbers \cup {Unreadable} : form' = [form EXCEPT !.cas = c]

\* A number typed as a name is moved to its field.
MovesNumber ==
  /\ Touches /\ form.name \in Numbers
  /\ form' = [form EXCEPT !.cas = form.name, !.name = None]

TogglesAnalog == Touches /\ form' = [form EXCEPT !.analog = ~@]

Unlocks == Touches /\ form.locked /\ form' = [form EXCEPT !.locked = FALSE]

\* changeSynonyms: what is taken out by hand is remembered, what is put back is not.
ChangesSynonyms ==
  /\ Touches
  /\ \E n \in form.synonyms \cup form.suggested :
       form' = IF n \in form.synonyms
               THEN [form EXCEPT !.synonyms = @ \ {n}, !.dismissed = @ \cup {n}]
               ELSE [form EXCEPT !.synonyms = @ \cup {n}, !.dismissed = @ \ {n}]

TogglesExcluded ==
  /\ Touches
  /\ \E c \in ToSet(form.candidates) :
       /\ c.relation = "different"
       /\ form' = [form EXCEPT !.excluded = SymDiff(@, {c.name})]

-----------------------------------------------------------------------------
(* The check of a substance. *)

Checks ==
  /\ touches < MaxTouches /\ ~form.sent /\ checks = None
  /\ form.name # None /\ form.name \notin Numbers /\ ~form.locked
  /\ checks' = form
  /\ touches' = touches + 1
  /\ UNCHANGED <<batchVars, form, copying>>

\* The names of the same substance that a choice brings with it.
NamesFound(c, candidates) ==
  LET others == {o \in ToSet(candidates) : o.relation = "same" /\ o.name # c.name}
  IN  (c.synonyms \cup UNION {o.synonyms \cup {o.name} : o \in others}) \ {c.name}

\* Mutant: the buyer's own spelling is offered only, as when the buyer chooses.
OffersSpelling(f, closure, c, candidates, auto) ==
  [f EXCEPT !.name = c.name, !.cas = IF c.cas = None THEN @ ELSE c.cas,
            !.suggested = ({closure.name} \cup NamesFound(c, candidates)) \ {c.name},
            !.synonyms = (@ \ {c.name}) \cup (NamesFound(c, candidates) \ closure.dismissed),
            !.locked = TRUE]

\* applyCandidateFrom: a number that is not confirmed does not come along, the one in
\* the field stays.  The name typed and what was dismissed are those of the closure.
Applied(f, closure, c, candidates, auto) ==
  LET found == NamesFound(c, candidates)
      own == {closure.name} \ {c.name, None}
  IN  [f EXCEPT !.name = c.name, !.cas = IF c.cas = None THEN @ ELSE c.cas,
                !.suggested = found \cup own,
                !.synonyms = (@ \ {c.name}) \cup ((found \cup (IF auto THEN own ELSE {})) \ closure.dismissed),
                !.locked = TRUE]

\* A Cyrillic name is replaced by the recommended one; the fields before are kept.
Resolved(f, closure, candidates) ==
  LET best == {c \in ToSet(candidates) : c.recommended}
      base == [f EXCEPT !.candidates = candidates, !.query = closure.name, !.checked = closure.name]
  IN  IF closure.name \in International \/ best = {}
      THEN [base EXCEPT !.applied = None, !.undo = None]
      ELSE LET c == CHOOSE c \in best : TRUE
           IN  [Applied(base, closure, c, candidates, TRUE) EXCEPT
                  !.applied = c.name,
                  !.undo = [name |-> closure.name, cas |-> closure.cas, synonyms |-> closure.synonyms,
                            suggested |-> closure.suggested]]

CheckArrives ==
  /\ checks # None /\ ~form.sent
  /\ \E w \in Worlds : form' = Resolved(form, checks, ResolveSubstance(checks.name, w))
  /\ checks' = None
  /\ UNCHANGED <<batchVars, copying, touches>>

CheckFails ==
  /\ checks # None /\ ~form.sent
  /\ form' = [form EXCEPT !.candidates = <<>>, !.query = None]
  /\ checks' = None
  /\ UNCHANGED <<batchVars, copying, touches>>

Chooses ==
  /\ Touches
  /\ \E c \in ToSet(form.candidates) :
       /\ c.relation = "same"
       /\ form' = [Applied(form, form, c, form.candidates, FALSE) EXCEPT !.applied = None, !.undo = None]

\* undoRecommendation: the fields before the replacement come back.
Undoes ==
  /\ Touches /\ form.undo # None
  /\ form' = [form EXCEPT !.name = form.undo.name, !.cas = form.undo.cas,
                          !.synonyms = form.undo.synonyms, !.suggested = form.undo.suggested,
                          !.locked = FALSE, !.applied = None, !.undo = None]

-----------------------------------------------------------------------------
(* A past request as a pattern. *)

Copies ==
  /\ touches < MaxTouches /\ ~form.sent /\ copying = None
  /\ \E r \in Committed(rfqs) : copying' = r
  /\ touches' = touches + 1
  /\ UNCHANGED <<batchVars, form, checks>>

\* What was checked, chosen and locked stays as it is; a request that cannot be read
\* changes nothing.
CopyArrives ==
  /\ copying # None /\ ~form.sent
  /\ LET past == rfqs[copying]
     IN  \/ form' = [form EXCEPT !.name = past.name, !.cas = past.cas, !.synonyms = past.synonyms,
                                 !.excluded = past.excluded, !.dismissed = {},
                                 !.analog = past.method = "analog"]
         \/ UNCHANGED form
  /\ copying' = None
  /\ UNCHANGED <<batchVars, checks, touches>>

-----------------------------------------------------------------------------
(* The request. *)

\* A Cyrillic name is checked first; a number that is filled in must be right.
MayCreate ==
  /\ ~form.sent /\ form.busy = None /\ form.name # None
  /\ form.cas \in Numbers \cup {None}
  /\ form.name \in International \cup Numbers \/ form.checked = form.name

Payload ==
  LET set(f, v) == IF v = None THEN <<>> ELSE f :> v
      terms == IF form.analog THEN "search_countries" :> {}
               ELSE ("incoterms" :> {"EXW"}) @@ ("search_countries" :> {"China"})
  IN  ("name" :> form.name) @@ ("confirmed_synonyms" :> form.synonyms) @@ ("excluded_names" :> form.excluded)
      @@ set("cas", form.cas) @@ terms
      @@ ("identification_method" :> IF form.analog THEN "analog"
                                     ELSE IF form.cas # None THEN "cas"
                                     ELSE "spec")

Creates(s) ==
  /\ jobs[s] = Resting /\ MayCreate
  /\ jobs' = [jobs EXCEPT ![s] = [at |-> "request", values |-> Payload, for |-> "form"]]
  /\ form' = [form EXCEPT !.busy = s]
  /\ UNCHANGED <<cards, revisions, rfqs, batches, searches, checks, copying, touches>>

\* create_rfq: the request is committed at once, with what the registry said of its
\* number.
InsertsRequest(s) ==
  /\ jobs[s].at = "request" /\ ~NumberHeld(s, ValueOf(jobs[s].values, "cas"))
  /\ \E proof \in {None, ValueOf(jobs[s].values, "cas")} :
       TablesAre(WithRequest(Tables, Nobody, jobs[s].values, None, proof, {}))
  /\ jobs' = [jobs EXCEPT ![s] = [at |-> "runs", rfq |-> NewId(rfqs), for |-> "form"]]
  /\ UNCHANGED batches

\* Its searches come in a second transaction; substitutes are chosen before any.
QueuesSearches(s) ==
  /\ jobs[s].at = "runs"
  /\ LET id == jobs[s].rfq
         rfq == rfqs[id]
         card == IF rfq.substance = None THEN None ELSE cards[rfq.substance]
     IN  searches' = searches \cup (IF rfq.method = "analog" THEN {}
                                    ELSE {SearchOf(Nobody, id, rfq, country, card) : country \in rfq.countries})
  /\ jobs' = [jobs EXCEPT ![s].at = "created"]
  /\ UNCHANGED <<cards, revisions, rfqs, batches>>

RequestStep(s) == InsertsRequest(s) \/ QueuesSearches(s)

RequestOpens(s) ==
  /\ form.busy = s /\ jobs[s].at = "created"
  /\ form' = [form EXCEPT !.busy = None, !.sent = TRUE]
  /\ jobs' = [jobs EXCEPT ![s].at = "done"]
  /\ UNCHANGED <<cards, revisions, rfqs, batches, searches, checks, copying, touches>>

\* The server failed, or its answer was lost; the buyer may press again.
RequestLost(s) ==
  /\ form.busy = s
  /\ form' = [form EXCEPT !.busy = None]
  /\ UNCHANGED <<batchVars, checks, copying, touches>>

FormNext ==
  \/ TypesName \/ TypesCas \/ MovesNumber \/ TogglesAnalog \/ Unlocks \/ ChangesSynonyms \/ TogglesExcluded
  \/ Checks \/ CheckArrives \/ CheckFails \/ Chooses \/ Undoes \/ Copies \/ CopyArrives
  \/ \E s \in FormSessions : Creates(s) \/ RequestOpens(s) \/ RequestLost(s)

-----------------------------------------------------------------------------
(* What the buyer may rely on. *)

\* Of the candidates in the form at most one is recommended, and one is whenever one
\* may be: a name of the same substance, Latin if the buyer typed a Cyrillic one, whose
\* composition does not contradict what was typed.  Follows from _reliability and
\* _mark_recommended, over the candidates that are left after the cut of _merge.
RecommendationIsAnchor ==
  LET best == {c \in ToSet(form.candidates) : c.recommended}
  IN  /\ Cardinality(best) <= 1
      /\ \A c \in best : Usable(form.query, c)
      /\ (\E c \in ToSet(form.candidates) : Usable(form.query, c)) => best # {}

\* When the form replaces the buyer's spelling of its own accord, the spelling stays
\* among the names of the request unless the buyer had taken it out.  Concerns
\* applyCandidateFrom called from runResolve.
OwnSpellingKept ==
  [][checks # None /\ checks' = None /\ form'.candidates # <<>> /\ form'.applied # None =>
       checks.name \in form'.synonyms \cup checks.dismissed \cup {form'.name}]_<<form, checks>>

\* Refuted: a name the buyer took out stays out; undoing the replacement, or a check
\* that was under way, brings it back.
DismissedStayOut == form.synonyms \cap form.dismissed = {}

\* Refuted: the number in a locked form is that of its name; a candidate without a
\* number leaves the number of another substance in the field.
NumberOfTheName ==
  form.locked /\ form.cas # None =>
    \E c \in ToSet(form.candidates) : c.name = form.name /\ c.cas = form.cas
=============================================================================
