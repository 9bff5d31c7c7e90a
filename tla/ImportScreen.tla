---------------------------- MODULE ImportScreen ----------------------------
(***************************************************************************)
(* The window in which a buyer loads a list, corrects its rows and creates *)
(* the requests.  Each call to the server is under way for a while, other  *)
(* handlers run meanwhile, and its answer may not arrive.                  *)
(*                                                                         *)
(* Source: frontend/src/components/RfqImport.tsx, backend/app/api/rfq.py   *)
(* (preview_import, recheck_import_row, create_batch).                     *)
(***************************************************************************)
EXTENDS RfqBatches

CONSTANTS
  Files,          \* what the buyer may load
  Corrections,    \* what the buyer may type into a cell, by field
  MaxUploads, MaxEdits

VARIABLES
  screen,     \* the state of the window
  uploading,  \* the file whose preview is awaited, or None
  checking,   \* rows sent to be checked again: their number and texts
  uploads, edits  \* how often each was done, bounded

screenVars == <<screen, uploading, checking, uploads, edits>>

Closed == [rows |-> <<>>, excluded |-> {}, key |-> None, creating |-> None, rechecking |-> None,
           result |-> None]

ScreenInit ==
  /\ screen = Closed /\ uploading = None /\ checking = {}
  /\ uploads = 0 /\ edits = 0

\* The choice of a file is off while one is being read.
Uploads ==
  /\ uploading = None /\ uploads < MaxUploads
  /\ \E f \in DOMAIN Files : uploading' = f
  /\ uploads' = uploads + 1
  /\ UNCHANGED <<batchVars, screen, checking, edits>>

\* A row of the window, with the texts in its cells; its list is a history.
WindowRow(row, raw, dirty, list) ==
  [row |-> row.row, raw |-> raw, values |-> row.values, errors |-> row.errors,
   warnings |-> row.warnings, dirty |-> dirty, list |-> list]

\* A row as it was checked.
Clean(row, list) == WindowRow(row, row.raw, FALSE, list)

\* A new list gets a new key; one that cannot be read leaves none.
PreviewArrives ==
  /\ uploading # None
  /\ LET preview == ParseImportFile(Files[uploading])
     IN  screen' = IF preview.read
                   THEN [screen EXCEPT !.rows = [i \in DOMAIN preview.rows |-> Clean(preview.rows[i], uploads)],
                                       !.excluded = {}, !.key = uploads, !.result = None]
                   ELSE [screen EXCEPT !.rows = <<>>]
  /\ uploading' = None
  /\ UNCHANGED <<batchVars, checking, uploads, edits>>

UploadFails ==
  /\ uploading # None
  /\ screen' = [screen EXCEPT !.rows = <<>>]
  /\ uploading' = None
  /\ UNCHANGED <<batchVars, checking, uploads, edits>>

-----------------------------------------------------------------------------
(* Rows. *)

Excludes ==
  /\ edits < MaxEdits
  /\ \E i \in DOMAIN screen.rows :
       /\ Importable(screen.rows[i])
       /\ screen' = [screen EXCEPT !.excluded = SymDiff(@, {screen.rows[i].row})]
  /\ edits' = edits + 1
  /\ UNCHANGED <<batchVars, uploading, checking, uploads>>

\* The cells of the row checked last are off.
EditsCell ==
  /\ edits < MaxEdits
  /\ \E i \in DOMAIN screen.rows, f \in DOMAIN Corrections :
       /\ screen.rows[i].row # screen.rechecking
       /\ LET row == screen.rows[i]
          IN  screen' = [screen EXCEPT !.rows[i] =
                           WindowRow(row, Put(row.raw, f, Corrections[f]), TRUE, row.list)]
  /\ edits' = edits + 1
  /\ UNCHANGED <<batchVars, uploading, checking, uploads>>

LeavesCell ==
  /\ \E i \in DOMAIN screen.rows :
       LET row == screen.rows[i]
       IN  /\ row.dirty /\ row.row # screen.rechecking
           /\ checking' = checking \cup {[row |-> row.row, raw |-> row.raw, list |-> row.list]}
           /\ screen' = [screen EXCEPT !.rechecking = row.row]
  /\ UNCHANGED <<batchVars, uploading, uploads, edits>>

\* The row of that number is replaced, whatever it has become.
RowArrives ==
  /\ \E c \in checking :
       LET checked == Clean(ParseImportRow(c.row, c.raw), c.list)
       IN  /\ checking' = checking \ {c}
           /\ screen' = [screen EXCEPT
                !.rechecking = None,
                !.rows = [i \in DOMAIN @ |-> IF @[i].row = c.row THEN checked ELSE @[i]]]
  /\ UNCHANGED <<batchVars, uploading, uploads, edits>>

RowCheckFails ==
  /\ \E c \in checking : checking' = checking \ {c}
  /\ screen' = [screen EXCEPT !.rechecking = None]
  /\ UNCHANGED <<batchVars, uploading, uploads, edits>>

-----------------------------------------------------------------------------
(* The creation of the requests. *)

Ready ==
  Picked(screen.rows, {i \in DOMAIN screen.rows : Importable(screen.rows[i])
                                                 /\ screen.rows[i].row \notin screen.excluded})

\* Terms of delivery that hold for the whole list: without them the button is off.
Defaults == [incoterms |-> {"EXW"}]

Presses(s) ==
  /\ jobs[s] = Resting
  /\ screen.creating = None /\ screen.result = None /\ Ready # <<>>
  /\ Submits(s, <<"list", screen.key>>, [i \in DOMAIN Ready |-> [row |-> Ready[i].row, values |-> Ready[i].values]],
             Defaults, "import")
  /\ screen' = [screen EXCEPT !.creating = s]
  /\ UNCHANGED <<cards, revisions, rfqs, batches, searches, uploading, checking, uploads, edits>>

ResultArrives(s) ==
  /\ screen.creating = s /\ jobs[s].at = "created"
  /\ screen' = [screen EXCEPT !.creating = None,
                              !.result = [batch |-> jobs[s].batch, results |-> jobs[s].results]]
  /\ jobs' = [jobs EXCEPT ![s].at = "done"]
  /\ UNCHANGED <<cards, revisions, rfqs, batches, searches, uploading, checking, uploads, edits>>

\* The server failed, or its answer was lost while it goes on.
ResultLost(s) ==
  /\ screen.creating = s
  /\ screen' = [screen EXCEPT !.creating = None]
  /\ UNCHANGED <<batchVars, uploading, checking, uploads, edits>>

ScreenNext ==
  \/ Uploads \/ PreviewArrives \/ UploadFails \/ Excludes \/ EditsCell \/ LeavesCell
  \/ RowArrives \/ RowCheckFails
  \/ \E s \in Sessions : Presses(s) \/ ResultArrives(s) \/ ResultLost(s)

-----------------------------------------------------------------------------
(* What the buyer may rely on. *)

\* A row the window offered is not refused when it is created: what reads the file and
\* what checks a request agree.  Concerns parse_import_row, RFQCreate and the defaults.
PreviewKept ==
  \A s \in Sessions : jobs[s] # Resting /\ jobs[s].for = "import" =>
    \A i \in DOMAIN jobs[s].results : jobs[s].created => jobs[s].results[i].why # "invalid"

\* The rows of the window are those of its list, corrected or not: refuted, the answer
\* of a check of the list before replaces the row of the same number.
RowsOfThisList == \A i \in DOMAIN screen.rows : screen.rows[i].list = screen.key

\* The result is that of the list in the window: refuted, another list may have been
\* loaded before the answer.
ResultOfThisList ==
  screen.result # None => batches[screen.result.batch].key = <<"list", screen.key>>
=============================================================================
