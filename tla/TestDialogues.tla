---------------------------- MODULE TestDialogues ----------------------------
(***************************************************************************)
(* A dialogue of the sandbox: people open it, type in what the supplier    *)
(* says or answer for the buyer, and the mail worker goes on with it when  *)
(* the supplier writes back.                                               *)
(*                                                                         *)
(* Source: backend/app/services/communication_testing.py,                  *)
(* communication_test_email.py, communication_profiles.py (start_audit,    *)
(* finalize_usage) and api/communication_testing.py.                       *)
(*                                                                         *)
(* A request and the worker each have a session of their own.  It reads    *)
(* the dialogue once and is not refreshed by a commit                      *)
(* (expire_on_commit=False): "read" are the messages it knows, "status"    *)
(* and "quotation" the columns as it last saw or wrote them, and a column  *)
(* assigned the value it is thought to have is not written.  Between two   *)
(* commits a session asks the model or the mail server, and the others     *)
(* move.                                                                   *)
(***************************************************************************)
EXTENDS DialogueRules

CONSTANTS
  Clerks, Robot,      \* requests of people; the mail worker
  SandboxLetters,     \* the supplier's letters, numbered in the order of arrival
  Wordings,           \* what they may say
  Typed,              \* what people type in for the supplier
  DemoText,           \* what the demonstration says, with its certificate
  Context, Numbers,   \* what the operator has given, and its CAS numbers
  Openings,           \* the dialogues that may be opened
  MaxRequests,        \* bound: requests of people
  MaxMishaps          \* bound: deaths, exceptions, refusals of mail servers

None == 0
Silence == {}

ASSUME DialogueAssumption ==
  /\ SandboxLetters \subseteq Nat \ {None} /\ IsFiniteSet(SandboxLetters)
  /\ Robot \notin Clerks
  /\ Wordings \subseteq [SandboxLetters -> SUBSET STRING] /\ Typed \cup {DemoText} \subseteq SUBSET STRING
  /\ Openings \subseteq [simulation : {"buyer_ai", "supplier_ai"}, delivery : {"preview", "send"}]
  /\ \A o \in Openings : o.simulation = "supplier_ai" => o.delivery = "preview"
  /\ MaxReplies \in Nat /\ MaxRequests \in Nat /\ MaxMishaps \in Nat

VARIABLES
  wording,    \* what the letters say
  dialogue,   \* the row of communication_test_runs
  script,     \* its messages, in the order of their ids
  offers,     \* the quotations made from it
  charged,    \* audits with reply_generated
  weighed,    \* the audit of a letter: none, one that allows, one that denies
  tray,       \* the letters in the mailbox
  refs,       \* the mails a letter refers to
  sent,       \* history: the mails the server has taken
  talk,       \* what each session does
  requests, mishaps

dialogueVars == <<wording, dialogue, script, offers, charged, weighed, tray, refs, sent, talk, requests, mishaps>>
rows == <<dialogue, script, offers, charged, weighed>>
mailbox == <<wording, tray, refs>>

Quiet ==
  [at |-> "idle", read |-> {}, status |-> "none", quotation |-> None, letter |-> None, task |-> "none",
   text |-> Silence, resumed |-> FALSE, row |-> None, result |-> None, batch |-> {}, done |-> {}]

DialogueInit ==
  /\ wording \in Wordings
  /\ dialogue = [status |-> "none", quotation |-> None, simulation |-> "none", delivery |-> "none"]
  /\ script = <<>> /\ offers = <<>> /\ charged = 0
  /\ weighed = [l \in SandboxLetters |-> "none"]
  /\ tray = [l \in SandboxLetters |-> "coming"] /\ refs = [l \in SandboxLetters |-> {}]
  /\ sent = <<>>
  /\ talk = [p \in Clerks \cup {Robot} |-> Quiet]
  /\ requests = 0 /\ mishaps = 0

-----------------------------------------------------------------------------
(* Sessions. *)

Sessions == Clerks \cup {Robot}
IsAt(p, place) == talk[p].at = place
Over(f, g) == [x \in DOMAIN f \cup DOMAIN g |-> IF x \in DOMAIN f THEN f[x] ELSE g[x]]
Moves(p, changes) == talk' = [talk EXCEPT ![p] = Over(changes, @)]
Place(place) == [at |-> place]

View == [read |-> DOMAIN script, status |-> dialogue.status, quotation |-> dialogue.quotation]

TextsAmong(read) ==
  [i \in {j \in DOMAIN script : j \in read /\ script[j].by = "supplier"} |-> script[i].text]
KnownTexts(p) == TextsAmong(talk[p].read)
AllTexts == TextsAmong(DOMAIN script)

\* An assignment that changes nothing the session knows of is not written.
Assigned(p, status) == IF talk[p].status = status THEN dialogue.status ELSE status
SetsStatus(p, status) == dialogue' = [dialogue EXCEPT !.status = Assigned(p, status)]

Message(by, text, letter, mail) == [by |-> by, text |-> text, letter |-> letter, mail |-> mail]
Adds(message) == script' = Append(script, message)
WithAdded(p) == talk[p].read \cup {Len(script) + 1}

Mishap == mishaps < MaxMishaps /\ mishaps' = mishaps + 1
Smooth == UNCHANGED mishaps

-----------------------------------------------------------------------------
(* Requests of people.  Each reads the dialogue, refuses or goes on, and
   stores what it was given. *)

Opens(c, opening) ==
  /\ IsAt(c, "idle") /\ dialogue.status = "none" /\ requests < MaxRequests
  /\ dialogue' = Over(opening, [status |-> "generating", quotation |-> None])
  /\ \E task \in {"first", "given"} :
       /\ task = "given" => opening.delivery = "preview"
       /\ Moves(c, [at |-> IF opening.simulation = "supplier_ai" THEN "asks" ELSE "weighs",
                    status |-> "generating", task |-> task])
  /\ requests' = requests + 1
  /\ UNCHANGED <<script, offers, charged, weighed, mailbox, sent, mishaps>>

LastBy(messages) == IF messages = <<>> THEN "nobody" ELSE Last(messages).by

\* "resume" is continue_after_complete; a resumed dialogue goes on without it.
Accepts(task) ==
  LET full == QuoteComplete(Collected(AllTexts))
      buyer == dialogue.simulation = "buyer_ai"
  IN  CASE task = "continue" -> ~buyer \/ dialogue.status # "complete"
        [] task = "resume" -> buyer /\ full
        [] task = "demo" -> /\ buyer /\ dialogue.delivery = "preview"
                            /\ dialogue.status \notin {"complete", "sending", "sent"}
                            /\ LastBy(script) = "assistant"
                            /\ \A i \in DOMAIN script : script[i].text # DemoText
        [] task = "answer" -> buyer /\ dialogue.status = "escalated" /\ LastBy(script) = "supplier"

TakesUp(c, task, text) ==
  /\ IsAt(c, "idle") /\ dialogue.status # "none" /\ requests < MaxRequests
  /\ Accepts(task)
  /\ Moves(c, Over([at |-> "stores", task |-> task, text |-> text,
                    resumed |-> /\ QuoteComplete(Collected(AllTexts))
                                /\ task = "resume" \/ dialogue.status \in {"previewed", "sent"}], View))
  /\ requests' = requests + 1
  /\ UNCHANGED <<rows, mailbox, sent, mishaps>>

StoresAnswer(c) ==
  /\ IsAt(c, "stores") /\ talk[c].task = "answer"
  /\ Adds(Message("assistant", Silence, None, None)) /\ SetsStatus(c, "previewed")
  /\ Moves(c, Quiet)
  /\ UNCHANGED <<offers, charged, weighed, mailbox, sent, requests, mishaps>>

StoresText(c) ==
  /\ IsAt(c, "stores") /\ talk[c].task # "answer"
  /\ Adds(Message(IF dialogue.simulation = "buyer_ai" THEN "supplier" ELSE "buyer", talk[c].text, None, None))
  /\ SetsStatus(c, "generating")
  /\ Moves(c, [at |-> CASE dialogue.simulation = "supplier_ai" -> "simulates"
                        [] talk[c].task = "demo" -> "collects"
                        [] OTHER -> "weighs",
               status |-> "generating", read |-> WithAdded(c)])
  /\ UNCHANGED <<offers, charged, weighed, mailbox, sent, requests, mishaps>>

\* In the other simulation the first message is the buyer's.
StoresFirst(c) ==
  /\ IsAt(c, "asks")
  /\ Adds(Message("buyer", Silence, None, None))
  /\ Moves(c, [at |-> "simulates", read |-> WithAdded(c)])
  /\ UNCHANGED <<dialogue, offers, charged, weighed, mailbox, sent, requests, mishaps>>

\* The model plays the supplier: a reply in English, or none.
Simulates(c) ==
  /\ IsAt(c, "simulates")
  /\ \/ \E text \in Typed :
          /\ Adds(Message("supplier", text, None, None)) /\ SetsStatus(c, "previewed")
          /\ Moves(c, [at |-> "collects", status |-> "previewed", read |-> WithAdded(c)])
     \/ SetsStatus(c, "llm_error") /\ Moves(c, Quiet) /\ UNCHANGED script
  /\ UNCHANGED <<offers, charged, weighed, mailbox, sent, requests, mishaps>>

-----------------------------------------------------------------------------
(* The budget and the gate. *)

\* The audit is read with the count of the answers committed until now, and an
\* earlier audit of the same letter keeps its verdict.
Admitted(p, spent) ==
  LET l == talk[p].letter
  IN  IF l # None /\ weighed[l] # "none" THEN weighed[l] = "open"
      ELSE WithinBudget(talk[p].text, charged, spent)

Verdict(p, verdict) ==
  weighed' = IF talk[p].letter = None THEN weighed ELSE [weighed EXCEPT ![talk[p].letter] = verdict]

\* What a session does when it is through with its message.
Leaves(p, status, forgets) ==
  IF p # Robot THEN Quiet
  ELSE [Quiet EXCEPT !.at = "takes", !.batch = talk[p].batch \ {talk[p].letter}, !.done = talk[p].done \cup {talk[p].letter},
                     !.status = status, !.quotation = talk[p].quotation,
                     !.read = IF forgets THEN {} ELSE talk[p].read]

Ends(p, status, forgets) == SetsStatus(p, status) /\ Moves(p, Leaves(p, status, forgets))

Weighs(p) ==
  /\ IsAt(p, "weighs")
  /\ \E spent \in BOOLEAN :
       \/ Admitted(p, spent) /\ Moves(p, Place("judges")) /\ UNCHANGED <<dialogue, weighed>>
       \/ ~Admitted(p, spent) /\ Ends(p, "escalated", FALSE) /\ Verdict(p, "denied")
  /\ UNCHANGED <<script, offers, charged, mailbox, sent, requests, mishaps>>

\* The model may be unavailable, or judge as it likes where no rule does; the
\* rules are not asked either when its server cannot be reached.
ModelAnswers ==
  {Unavailable, [route |-> "auto_reply", category |-> "standard_procurement"],
   [route |-> "escalate", category |-> "unclear"], [route |-> "stop", category |-> "supplier_refusal"],
   [route |-> "auto_reply", category |-> "commercial_commitment"]}

JudgesFirst(c) ==
  /\ IsAt(c, "judges") /\ talk[c].task \in {"first", "given"}
  /\ \E lookup \in {"confirmed", "not_found", "unavailable"},
        answer \in {Unavailable, [route |-> "continue", category |-> "consistent"],
                    [route |-> "escalate", category |-> "conflict"]},
        reachable \in BOOLEAN :
       \/ /\ reachable /\ IdentityHolds(Numbers, lookup, answer)
          /\ Moves(c, Place(IF talk[c].task = "given" THEN "delivers" ELSE "writes"))
          /\ UNCHANGED dialogue
       \/ ~(reachable /\ IdentityHolds(Numbers, lookup, answer)) /\ Ends(c, "escalated", FALSE)
  /\ UNCHANGED <<script, offers, charged, weighed, mailbox, sent, requests, mishaps>>

Judges(p) ==
  /\ IsAt(p, "judges") /\ talk[p].task \notin {"first", "given"}
  /\ \E answer \in ModelAnswers, reachable \in BOOLEAN :
       IF reachable /\ Allowed(talk[p].text, answer)
       THEN IF p = Robot THEN SetsStatus(p, "generating") /\ Moves(p, [at |-> "writes", status |-> "generating"])
                         ELSE Moves(p, Place("collects")) /\ UNCHANGED dialogue
       ELSE Ends(p, "escalated", FALSE)
  /\ Verdict(p, "open")
  /\ UNCHANGED <<script, offers, charged, mailbox, sent, requests, mishaps>>

-----------------------------------------------------------------------------
(* What a request collects, and whether it goes on. *)

\* One quotation of the dialogue, which the session may not know of.
SyncsQuotation(c, quote) ==
  IF "price" \notin DOMAIN quote.fields /\ talk[c].quotation = None
  THEN UNCHANGED <<dialogue, offers>>
  ELSE IF talk[c].quotation = None
  THEN offers' = Append(offers, quote) /\ dialogue' = [dialogue EXCEPT !.quotation = Len(offers) + 1]
  ELSE offers' = [offers EXCEPT ![talk[c].quotation] = quote] /\ UNCHANGED dialogue

\* A chemist's dialogue is handed over, a full one is closed, another goes on.
AfterCollecting(c, quote) ==
  LET stored == talk[c].quotation # None \/ "price" \in DOMAIN quote.fields
  IN  CASE dialogue.simulation = "supplier_ai" -> Quiet
        [] talk[c].task = "demo" -> Place("closes")
        [] OTHER ->
             IF stored /\ GoalReached(quote) /\ Chemist /\ ~talk[c].resumed
             THEN [at |-> "delivers", task |-> "handoff"]
             ELSE IF QuoteComplete(quote) /\ ~talk[c].resumed THEN Place("closes")
             ELSE Place("writes")

Collects(c) ==
  LET quote == Collected(KnownTexts(c))
  IN  /\ IsAt(c, "collects")
      /\ SyncsQuotation(c, quote)
      /\ Moves(c, AfterCollecting(c, quote))
      /\ UNCHANGED <<script, charged, weighed, mailbox, sent, requests, mishaps>>

Closes(c) ==
  /\ IsAt(c, "closes")
  /\ Ends(c, IF talk[c].task = "handoff" \/ QuoteComplete(Collected(KnownTexts(c))) THEN "complete" ELSE "previewed",
          FALSE)
  /\ UNCHANGED <<script, offers, charged, weighed, mailbox, sent, requests, mishaps>>

-----------------------------------------------------------------------------
(* The answer. *)

Stage(p) == IF talk[p].task = "first" THEN "initial" ELSE "reply"
Delivering(p, row) == [at |-> "delivers", status |-> "sending", row |-> row, read |-> WithAdded(p)]

\* The worker stores its answer before the mail server is asked.
Writes(p) ==
  /\ IsAt(p, "writes")
  /\ \E draft \in MayWrite(Context, KnownTexts(p), Stage(p)) :
       \/ /\ draft = Unavailable
          /\ Ends(p, "llm_error", TRUE) /\ UNCHANGED <<script, charged>>
       \/ /\ draft # Unavailable
          /\ IF p = Robot
             THEN /\ Adds(Message("assistant", Silence, None, None)) /\ SetsStatus(p, "sending")
                  /\ charged' = charged + 1
                  /\ Moves(p, Delivering(p, Len(script) + 1))
             ELSE Moves(p, Place("delivers")) /\ UNCHANGED <<dialogue, script, charged>>
  /\ UNCHANGED <<offers, weighed, mailbox, sent, requests, mishaps>>

AfterAnswer(c) == IF talk[c].task = "handoff" THEN Place("closes") ELSE Quiet

Previews(c) ==
  /\ IsAt(c, "delivers") /\ dialogue.delivery = "preview"
  /\ Adds(Message("assistant", Silence, None, None)) /\ SetsStatus(c, "previewed")
  /\ charged' = charged + 1
  /\ Moves(c, Over(AfterAnswer(c), [status |-> "previewed", read |-> WithAdded(c)]))
  /\ UNCHANGED <<offers, weighed, mailbox, sent, requests, mishaps>>

Thread(l) == IF l = None THEN {} ELSE refs[l]
Mails(p) == sent' = Append(sent, [to |-> talk[p].letter, thread |-> Thread(talk[p].letter)])

\* The mail server takes the mail and says so; or an exception comes, and the
\* mail may have been taken all the same.
Delivers(p) ==
  /\ IsAt(p, "delivers") /\ dialogue.delivery = "send"
  /\ \/ Mails(p) /\ Moves(p, [at |-> "records", result |-> Len(sent) + 1]) /\ Smooth
     \/ (Mails(p) \/ UNCHANGED sent) /\ Moves(p, [at |-> "records", result |-> None]) /\ Mishap
  /\ UNCHANGED <<rows, mailbox, requests>>

Outcome(p) == IF talk[p].result = None THEN "delivery_error" ELSE "sent"

RecordsRequest(c) ==
  /\ IsAt(c, "records") /\ c \in Clerks
  /\ Adds(Message("assistant", Silence, None, talk[c].result)) /\ SetsStatus(c, Outcome(c))
  /\ charged' = charged + 1
  /\ Moves(c, Over(IF talk[c].result = None THEN Quiet ELSE AfterAnswer(c),
                   [status |-> Outcome(c), read |-> WithAdded(c)]))
  /\ UNCHANGED <<offers, weighed, mailbox, sent, requests, mishaps>>

RecordsLetter ==
  /\ IsAt(Robot, "records")
  /\ script' = [script EXCEPT ![talk[Robot].row].mail = talk[Robot].result]
  /\ Ends(Robot, Outcome(Robot), FALSE)
  /\ UNCHANGED <<offers, charged, weighed, mailbox, sent, requests, mishaps>>

-----------------------------------------------------------------------------
(* The mail worker: one batch of unread letters, one session. *)

Unread == {l \in SandboxLetters : tray[l] = "unseen"}
IsStored(l) == \E i \in DOMAIN script : script[i].letter = l
IsLinked(l) == \E i \in DOMAIN script : script[i].by = "assistant" /\ script[i].mail \in refs[l] \ {None}

Fetches ==
  /\ IsAt(Robot, "idle") /\ Unread # {}
  /\ Moves(Robot, [at |-> "takes", batch |-> Unread])
  /\ UNCHANGED <<rows, mailbox, sent, requests, mishaps>>

\* The dialogue as the session knows it, read now if it has not been.
LoadedView ==
  IF talk[Robot].read = {} THEN View
  ELSE [read |-> talk[Robot].read, status |-> talk[Robot].status, quotation |-> talk[Robot].quotation]

\* A letter is taken up again whatever was answered since.
ResumableByStatus(l, view) == view.status \in {"classifying", "generating"}

\* A letter that is stored is done with.
NeverResumed(l, view) == FALSE

\* A letter stored by an earlier run is taken up again until its answer is.
Resumable(l, view) ==
  /\ view.status \in {"classifying", "generating"}
  /\ \A i, j \in DOMAIN script :
       script[i].letter = l /\ j \in view.read /\ j > i => script[j].by # "assistant"

Takes ==
  /\ IsAt(Robot, "takes") /\ talk[Robot].batch # {}
  /\ LET l == Min(talk[Robot].batch)
         taken == Over([letter |-> l, text |-> wording[l]], LoadedView)
     IN  \/ IsStored(l) /\ Resumable(l, LoadedView) /\ Moves(Robot, Over(Place("weighs"), taken))
         \/ /\ IsStored(l) /\ ~Resumable(l, LoadedView)
            /\ Moves(Robot, Over([batch |-> talk[Robot].batch \ {l}, done |-> talk[Robot].done \cup {l}], LoadedView))
         \/ ~IsStored(l) /\ IsLinked(l) /\ Moves(Robot, Over(Place("stores"), taken))
         \/ ~IsStored(l) /\ ~IsLinked(l) /\ Moves(Robot, [batch |-> talk[Robot].batch \ {l}])
  /\ UNCHANGED <<rows, mailbox, sent, requests, mishaps>>

StoresLetter ==
  /\ IsAt(Robot, "stores")
  /\ Adds(Message("supplier", talk[Robot].text, talk[Robot].letter, None)) /\ SetsStatus(Robot, "classifying")
  /\ Moves(Robot, [at |-> "weighs", status |-> "classifying", read |-> WithAdded(Robot)])
  /\ UNCHANGED <<offers, charged, weighed, mailbox, sent, requests, mishaps>>

MarksRead ==
  /\ IsAt(Robot, "takes") /\ talk[Robot].batch = {}
  /\ \/ tray' = [l \in SandboxLetters |-> IF l \in talk[Robot].done THEN "seen" ELSE tray[l]] /\ Smooth
     \/ talk[Robot].done # {} /\ UNCHANGED tray /\ Mishap
  /\ Moves(Robot, Quiet)
  /\ UNCHANGED <<rows, wording, refs, sent, requests>>

\* An exception is rolled back; a stored letter is left to a person.
LetterFails ==
  /\ talk[Robot].letter # None /\ ~IsAt(Robot, "delivers") /\ Mishap
  /\ IF IsAt(Robot, "stores")
     THEN /\ UNCHANGED dialogue
          /\ Moves(Robot, [at |-> "takes", batch |-> talk[Robot].batch \ {talk[Robot].letter}, letter |-> None, text |-> Silence,
                           read |-> {}])
     ELSE /\ dialogue' = [dialogue EXCEPT !.status = "processing_error"]
          /\ Moves(Robot, Leaves(Robot, "processing_error", TRUE))
  /\ UNCHANGED <<script, offers, charged, weighed, mailbox, sent, requests>>

\* The process of a session ends and what it has not committed is gone.
SessionDies(p) ==
  /\ ~IsAt(p, "idle") /\ Mishap
  /\ Moves(p, Quiet)
  /\ UNCHANGED <<rows, mailbox, sent, requests>>

\* The supplier answers a mail he has got.
WritesBack(l) ==
  /\ tray[l] = "coming"
  /\ \E m \in DOMAIN sent : refs' = [refs EXCEPT ![l] = {m} \cup sent[m].thread]
  /\ tray' = [tray EXCEPT ![l] = "unseen"]
  /\ UNCHANGED <<rows, wording, sent, talk, requests, mishaps>>

-----------------------------------------------------------------------------
Asks(c) ==
  \/ \E opening \in Openings : Opens(c, opening)
  \/ \E task \in {"continue", "resume"}, text \in Typed : TakesUp(c, task, text)
  \/ TakesUp(c, "demo", DemoText)
  \/ TakesUp(c, "answer", Silence)

RequestStep(c) ==
  \/ StoresAnswer(c) \/ StoresText(c) \/ StoresFirst(c) \/ Simulates(c)
  \/ Weighs(c) \/ JudgesFirst(c) \/ Judges(c) \/ Collects(c) \/ Closes(c)
  \/ Writes(c) \/ Previews(c) \/ Delivers(c) \/ RecordsRequest(c)

WorkerStep ==
  \/ Fetches \/ Takes \/ StoresLetter \/ Weighs(Robot) \/ Judges(Robot)
  \/ Writes(Robot) \/ Delivers(Robot) \/ RecordsLetter \/ MarksRead

DialogueNext ==
  \/ \E c \in Clerks : Asks(c) \/ RequestStep(c)
  \/ WorkerStep \/ LetterFails
  \/ \E p \in Sessions : SessionDies(p)
  \/ \E l \in SandboxLetters : WritesBack(l)

-----------------------------------------------------------------------------
(* Properties. *)

AnswersTo(l) == {m \in DOMAIN sent : sent[m].to = l}

\* "The unique Message-ID and the state sending protect from a repeated mail"
\* (docs/RUN.md): the worker answers a letter once at the most, whatever dies
\* or fails on the way, and never a letter a rule keeps for a person.
OneSafeAnswer ==
  \A l \in SandboxLetters :
    /\ Cardinality(AnswersTo(l)) <= 1
    /\ AnswersTo(l) # {} =>
         \A k \in DOMAIN RuleOrder : RuleOrder[k] \in wording[l] =>
           \E j \in 1 .. k : RuleOrder[j] \in wording[l] /\ RuleOrder[j] = "capacity_limitation"

\* The limit of a profile counts the request for quotation too; the letters the
\* worker answers never exceed the rest, although the count is read before the
\* model is asked and an audit found again is not counted anew.
LettersInBudget == LET n == Cardinality(UNION {AnswersTo(l) : l \in SandboxLetters}) IN n > 0 => n < MaxReplies

\* A dialogue is complete when the supplier has named every condition with
\* certainty and sent a certificate, in whichever of his messages.
CompleteIsEarned ==
  dialogue.status = "complete" =>
    LET texts == AllTexts
    IN  /\ \A f \in RequiredFields :
              \E i \in DOMAIN texts : \E form \in Range(Forms[f]) : form[1] \in texts[i] /\ form[2] >= Threshold
        /\ \E i \in DOMAIN texts, paper \in Papers : {paper.file, paper.given} \cap texts[i] # {}

\* Once mishaps end, each letter that answers a mail on record is stored and
\* read, and the dialogue is not left in the middle of a letter.
LettersSettle ==
  <>[](/\ \A l \in Unread : ~IsStored(l) /\ ~IsLinked(l)
       /\ dialogue.status # "classifying")

\* "One cumulative quotation of the test dialogue" (communication_testing.py:387).
OneQuotation == Len(offers) <= 1
=============================================================================
