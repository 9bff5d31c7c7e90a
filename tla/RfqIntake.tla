------------------------------ MODULE RfqIntake ------------------------------
(***************************************************************************)
(* How requests for quotation come to be, and the catalogue they fill: a   *)
(* list is imported, a form is filled in, substitutes of a position are    *)
(* confirmed, experts decide on the cards.  The entries share the tables   *)
(* and the handlers of the server; a behaviour takes one of them.          *)
(***************************************************************************)
EXTENDS ImportScreen, RequestForm, AnalogDesk

CONSTANTS
  PastRequests,   \* the requests there are when a behaviour of each entry starts
  FilledIn,       \* what the form holds in a behaviour about the catalogue
  OtherList       \* what a program other than the window may submit, unchecked

Entries == {"import", "form", "catalogue", "analogs"}

RequestFields == {"name", "cas", "method", "volume", "incoterms", "countries", "synonyms",
                  "excluded", "proof", "substance", "batch", "row", "by"}

\* What is read in a cell for a number is one, or is not recognised.
NumberCell(cell) == IsText(cell) /\ cell.value # Unreadable => cell.value \in Numbers

\* Ids are numbers, a client numbers the rows of its list; the past requests are of
\* the time before batches and cards, their substitutes were suggested for them; what
\* the form holds are its fields; what a model answers is a list.
ASSUME IntakeAssumption ==
  /\ None \notin Nat /\ Nobody \notin Sessions /\ Experts \cap Sessions = {}
  /\ FormSessions \subseteq Sessions
  /\ DOMAIN FilledIn = DOMAIN Empty /\ FilledIn.candidates = <<>> /\ MaxCandidates \in Nat
  /\ \A w \in Worlds :
       /\ Len(w.model) \in Nat /\ DOMAIN w.model = 1 .. Len(w.model)
       /\ Len(w.translations) \in Nat /\ DOMAIN w.translations = 1 .. Len(w.translations)
  /\ MaxAnalogs \in Nat
  /\ \A w \in Suggestions : Len(w.model) \in Nat /\ DOMAIN w.model = 1 .. Len(w.model)
  /\ IsFiniteSet(DOMAIN PastAnalogs) /\ DOMAIN PastAnalogs \subseteq Nat
  /\ \A a \in DOMAIN PastAnalogs :
       LET past == PastRequests["analogs"]
       IN  /\ PastAnalogs[a].rfq \in DOMAIN past
           /\ Another(PastAnalogs[a].name, PastAnalogs[a].cas, past[PastAnalogs[a].rfq])
  /\ \A f \in DOMAIN Files : IsFiniteSet(DOMAIN Files[f].lines) /\ DOMAIN Files[f].lines \subseteq Nat
  /\ \A f \in DOMAIN Files :
       LET table == ReadTable(Files[f])
           filled == {l \in DOMAIN table : ~IsEmpty(table[l])}
       IN  \A h \in filled : (\A l \in filled : h <= l) =>
             \A l \in filled : h < l => NumberCell(RowValues(table[l], MatchColumns(table[h]))["cas"])
  /\ "cas" \in DOMAIN Corrections => NumberCell(Corrections["cas"])
  /\ Len(OtherList) \in Nat /\ DOMAIN OtherList = 1 .. Len(OtherList)
  /\ \A i \in DOMAIN OtherList : OtherList[i].row \in Nat
  /\ \A i, j \in DOMAIN OtherList : OtherList[i].row = OtherList[j].row => i = j
  /\ \A e \in Entries :
       LET past == PastRequests[e]
       IN  /\ IsFiniteSet(DOMAIN past) /\ DOMAIN past \subseteq Nat
           /\ \A r \in DOMAIN past : /\ DOMAIN past[r] = RequestFields /\ past[r].by = Nobody
                                     /\ past[r].batch = None /\ past[r].substance = None

VARIABLE entry    \* which entry the behaviour takes

vars == <<catalogVars, batches, searches, jobs, screenVars, formVars, deskVars, entry>>

Init ==
  /\ entry \in Entries
  /\ cards = <<>> /\ revisions = <<>> /\ rfqs = PastRequests[entry]
  /\ experts = [e \in Experts |-> Idle]
  /\ BatchInit /\ ScreenInit /\ copying = None /\ checks = None
  /\ form = (IF entry = "catalogue" THEN FilledIn ELSE Empty)
  /\ touches = (IF entry = "catalogue" THEN MaxTouches ELSE 0)
  /\ DeskInit /\ analogs = (IF entry = "analogs" THEN PastAnalogs ELSE <<>>)

Server(s) ==
  \/ BatchStep(s) /\ UNCHANGED analogs
  \/ RequestStep(s) /\ UNCHANGED analogs
  \/ DeskStep(s)

windowVars == <<screenVars, formVars, desk, presses>>

ServerStep(s) == Server(s) /\ UNCHANGED <<experts, windowVars, entry>>

CrashStep(s) == Crashes(s) /\ UNCHANGED <<experts, windowVars, analogs, entry>>

ImportStep == entry = "import" /\ ScreenNext /\ UNCHANGED <<experts, formVars, deskVars, entry>>

\* create_batch serves any client; the other one has one key.
OtherStep ==
  /\ entry = "import"
  /\ \E s \in Sessions : jobs[s] = Resting /\ Submits(s, <<"list", 0>>, OtherList, Defaults, "other")
  /\ UNCHANGED <<catalogVars, batches, searches, screenVars, formVars, deskVars, entry>>

FormStep ==
  entry \in {"form", "catalogue"} /\ FormNext /\ UNCHANGED <<experts, screenVars, deskVars, entry>>

ExpertStep ==
  /\ entry = "catalogue"
  /\ CatalogNext
  /\ UNCHANGED <<batches, searches, jobs, screenVars, formVars, deskVars, entry>>

AnalogStep == entry = "analogs" /\ DeskNext /\ UNCHANGED <<experts, screenVars, formVars, entry>>

Next ==
  \/ ImportStep \/ OtherStep \/ FormStep \/ ExpertStep \/ AnalogStep
  \/ \E s \in Sessions : ServerStep(s) \/ CrashStep(s)

Spec == Init /\ [][Next]_vars

-----------------------------------------------------------------------------
\* A row refers to rows that are there; names and numbers are of their kinds.
TypeOK ==
  /\ entry \in Entries
  /\ \A c \in DOMAIN cards : cards[c].cas \in Numbers /\ cards[c].by \in Sessions \cup {Nobody}
  /\ \A r \in DOMAIN rfqs : rfqs[r].cas \in Numbers \cup {None}
                            /\ rfqs[r].substance \in DOMAIN cards \cup {None}
  /\ \A i \in DOMAIN revisions : revisions[i].card \in DOMAIN cards
  /\ \A run \in searches : run.rfq \in DOMAIN rfqs
  /\ form.synonyms \subseteq Names /\ form.excluded \subseteq Names /\ form.name \in Names \cup Numbers \cup {None}
  /\ \A a \in DOMAIN analogs : analogs[a].created \in DOMAIN rfqs \cup {None}
=============================================================================
