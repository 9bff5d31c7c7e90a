---------------------------- MODULE WhatsAppInbox ----------------------------
(***************************************************************************)
(* WhatsApp replies: the gateway's queue on disk, the callback of the      *)
(* backend, the background task that reads a reply, and the people who     *)
(* work off the cases it leaves.                                           *)
(*                                                                         *)
(* Source: whatsapp-web/server.js, backend/app/api/whatsapp_web.py,        *)
(* services/whatsapp_workflow.py, services/communication_test_whatsapp.py, *)
(* api/escalations.py and services/quotation_service.py.                   *)
(*                                                                         *)
(* The gateway posts the head of its queue and drops it when the backend   *)
(* answers 2xx; after 15 seconds it gives up and posts again later, while  *)
(* the first request may still be served.  The callback only stores the    *)
(* message; the reading runs after the answer, in a task that lives in the *)
(* memory of the backend.  The session writes a column only when its value *)
(* differs from the one it has loaded: Written.                            *)
(***************************************************************************)
EXTENDS Naturals, FiniteSets, Sequences

CONSTANTS
  Messages,
  Senders,     \* what the senders of the messages may be to the system
  OffersOf,    \* price offers in a message
  Requests,    \* callbacks the backend serves at once
  People,      \* users who work on the cases of the request
  MaxPeople,   \* bound: what they do
  MaxFaults,   \* bound: timeouts, failures, deaths
  Nothing

ASSUME WhatsAppAssumption ==
  /\ IsFiniteSet(Messages) /\ Nothing \notin Messages \cup Requests
  /\ Senders \subseteq [Messages -> {"one", "several", "test", "nobody"}]
  /\ OffersOf \in [Messages -> Nat]
  /\ MaxPeople \in Nat /\ MaxFaults \in Nat

VARIABLES
  route,      \* the sender: one dialogue or several, a test partner, a stranger
  phone,      \* what became of a message in the gateway
  memory,     \* pendingEvents
  file,       \* pending.json
  flight,     \* the message whose callback the gateway waits for
  request,    \* callbacks being served
  row,        \* status of the inbound communication of a message
  quotes,     \* quotations taken from it
  audit,      \* its policy audit, once committed
  task,       \* its background task
  testRows,   \* messages stored in the test run
  testRun,    \* status of the test run
  status,     \* status of the request for quotations
  cases,      \* its escalations
  person,     \* what a user has read before writing
  log,        \* history: the messages in the order the gateway queued them
  died,       \* history: the backend has died
  done, faults

gateway == <<phone, memory, file, flight, log>>
replies == <<row, quotes, audit>>
tests == <<testRows, testRun>>
dialogue == <<status, cases>>
vars == <<route, gateway, request, replies, task, tests, dialogue, person, died, done, faults>>

Statuses == {"sent", "collecting", "parsed", "summarized", "escalated"}
TestStatuses == {"sent", "classifying", "generating", "sending", "escalated", "processing_error"}
MaxOffers == CHOOSE n \in {OffersOf[m] : m \in Messages} :
               \A m \in Messages : OffersOf[m] <= n
Cases == ({"own"} \X Messages) \cup ({"auto"} \X Messages \X (1 .. MaxOffers))
           \cup ({"hand"} \X (1 .. MaxPeople))

Free == [pc |-> "idle", msg |-> Nothing, loaded |-> "none", new |-> FALSE]
NoTask == [pc |-> "none", loaded |-> "none", left |-> 0]
Away == [pc |-> "idle", case |-> Nothing, loaded |-> "none", alone |-> FALSE]

Init ==
  /\ route \in Senders
  /\ phone = [m \in Messages |-> "coming"]
  /\ memory = <<>> /\ file = <<>> /\ flight = Nothing
  /\ request = [h \in Requests |-> Free]
  /\ row = [m \in Messages |-> "none"]
  /\ quotes = [m \in Messages |-> 0]
  /\ audit = [m \in Messages |-> "none"]
  /\ task = [m \in Messages |-> NoTask]
  /\ testRows = {} /\ testRun = "sent"
  /\ status = "sent"
  /\ cases = [c \in Cases |-> "none"]
  /\ person = [p \in People |-> Away]
  /\ log = <<>> /\ died = FALSE /\ done = 0 /\ faults = 0

Faulty == faults < MaxFaults /\ faults' = faults + 1

\* What a commit leaves of a column that was loaded as "was" and set to "new".
Written(now, was, new) == IF was = new THEN now ELSE new

-----------------------------------------------------------------------------
(* The gateway. *)

\* The client hands a message over; its media and its quotation are fetched.
Arrives(m) ==
  /\ phone[m] = "coming"
  /\ phone' = [phone EXCEPT ![m] = "building"]
  /\ UNCHANGED <<route, memory, file, flight, log, request, replies, task, tests, dialogue,
                 person, died, done, faults>>

Queue(m) ==
  /\ phone[m] = "building"
  /\ phone' = [phone EXCEPT ![m] = "queued"]
  /\ memory' = Append(memory, m)
  /\ file' = memory'
  /\ log' = Append(log, m)
  /\ UNCHANGED <<route, flight, request, replies, task, tests, dialogue, person, died, done,
                 faults>>

\* The number behind the message cannot be resolved, or it is empty.
Ignore(m) ==
  /\ phone[m] = "building"
  /\ phone' = [phone EXCEPT ![m] = "gone"]
  /\ UNCHANGED <<route, memory, file, flight, log, request, replies, task, tests, dialogue,
                 person, died, done, faults>>

\* Mutant: any message of the queue may be posted first.
AnyEvent == {memory[i] : i \in DOMAIN memory}
NextEvent == {memory[i] : i \in DOMAIN memory \cap {1}}

\* The one flush that may run posts the head of the queue.
Post(h) ==
  /\ flight = Nothing
  /\ request[h].pc = "idle"
  /\ flight' = h
  /\ \E m \in NextEvent :
       request' = [request EXCEPT ![h] = [pc |-> "lookup", msg |-> m, loaded |-> "none",
                                          new |-> FALSE]]
  /\ UNCHANGED <<route, phone, memory, file, log, replies, task, tests, dialogue, person, died,
                 done, faults>>

\* Mutant: what has been posted is dropped, whatever came of it.
DropPosted(ok) == Tail(memory)
Kept(ok) == IF ok THEN Tail(memory) ELSE memory

\* The flush has an answer, or none: the message leaves the queue on a 2xx.
CallbackEnds(h, ok) ==
  IF flight = h
  THEN /\ flight' = Nothing
       /\ memory' = Kept(ok)
       /\ file' = memory'
  ELSE UNCHANGED <<flight, memory, file>>

\* AbortController: the request goes on in the backend.
Timeout ==
  /\ flight # Nothing
  /\ Faulty
  /\ CallbackEnds(flight, FALSE)
  /\ UNCHANGED <<route, phone, log, request, replies, task, tests, dialogue, person, died, done>>

\* The gateway is started again and reads its file.
GatewayRestarts ==
  /\ Faulty
  /\ memory' = file
  /\ flight' = Nothing
  /\ phone' = [m \in Messages |-> IF phone[m] = "building" THEN "gone" ELSE phone[m]]
  /\ UNCHANGED <<route, file, log, request, replies, task, tests, dialogue, person, died, done>>

-----------------------------------------------------------------------------
(* The callback, receive_event. *)

Goes(h, pc) == request' = [request EXCEPT ![h].pc = pc]
Answers(h, new) == request' = [request EXCEPT ![h].pc = "answer", ![h].new = new]

\* accept_business_whatsapp looks for the message and for its dialogue.
Lookup(h) ==
  LET m == request[h].msg IN
  /\ request[h].pc = "lookup"
  /\ IF row[m] # "none" THEN Answers(h, FALSE)
     ELSE Goes(h, CASE route[m] \in {"one", "several"} -> "insert"
                    [] route[m] = "test" -> "test"
                    [] route[m] = "nobody" -> "unmatched")
  /\ UNCHANGED <<route, gateway, replies, task, tests, dialogue, person, died, done, faults>>

\* _save_inbound: the flush waits for a transaction that has the same external_id.
Insert(h) ==
  LET m == request[h].msg IN
  /\ request[h].pc = "insert"
  /\ \A g \in Requests : request[g].msg = m => request[g].pc # "commit"
  /\ IF row[m] # "none" THEN Answers(h, FALSE)
     ELSE request' = [request EXCEPT ![h].pc = "commit", ![h].loaded = status]
  /\ UNCHANGED <<route, gateway, replies, task, tests, dialogue, person, died, done, faults>>

\* A number with several dialogues is left to a person.
CommitInbound(h) ==
  LET m == request[h].msg
      r == request[h]
  IN
  /\ r.pc = "commit"
  /\ \/ /\ route[m] = "several"
        /\ row' = [row EXCEPT ![m] = "received_ambiguous"]
        /\ cases' = [cases EXCEPT ![<<"own", m>>] = "open"]
        /\ status' = Written(status, r.loaded, "escalated")
        /\ Answers(h, FALSE)
     \/ /\ route[m] = "one"
        /\ row' = [row EXCEPT ![m] = "received"]
        /\ status' = Written(status, r.loaded, "collecting")
        /\ Answers(h, TRUE)
        /\ UNCHANGED cases
  /\ UNCHANGED <<route, gateway, quotes, audit, task, tests, person, died, done, faults>>

\* accept_incoming_whatsapp: the message belongs to a test conversation.
TestLookup(h) ==
  LET m == request[h].msg IN
  /\ request[h].pc = "test"
  /\ IF m \in testRows THEN Answers(h, FALSE)
     ELSE request' = [request EXCEPT ![h].pc = "testcommit", ![h].loaded = testRun]
  /\ UNCHANGED <<route, gateway, replies, task, tests, dialogue, person, died, done, faults>>

TestCommit(h) ==
  LET m == request[h].msg IN
  /\ request[h].pc = "testcommit"
  /\ IF m \in testRows
     THEN Answers(h, FALSE) /\ UNCHANGED tests
     ELSE /\ testRows' = testRows \cup {m}
          /\ testRun' = Written(testRun, request[h].loaded, "classifying")
          /\ Answers(h, TRUE)
  /\ UNCHANGED <<route, gateway, replies, task, dialogue, person, died, done, faults>>

\* store_unmatched_whatsapp
StoreUnmatched(h) ==
  LET m == request[h].msg IN
  /\ request[h].pc = "unmatched"
  /\ row' = IF row[m] = "none" THEN [row EXCEPT ![m] = "unresolved"] ELSE row
  /\ Answers(h, FALSE)
  /\ UNCHANGED <<route, gateway, quotes, audit, task, tests, dialogue, person, died, done, faults>>

\* The answer 202; a message stored for the first time gets its background task.
Answer(h) ==
  LET r == request[h] IN
  /\ r.pc = "answer"
  /\ CallbackEnds(h, TRUE)
  /\ task' = IF r.new THEN [task EXCEPT ![r.msg].pc = "waiting"] ELSE task
  /\ request' = [request EXCEPT ![h] = Free]
  /\ UNCHANGED <<route, phone, log, replies, tests, dialogue, person, died, done, faults>>

\* An exception before the commit: the answer is 500.
RequestFails(h) ==
  /\ request[h].pc \notin {"idle", "answer"}
  /\ Faulty
  /\ CallbackEnds(h, FALSE)
  /\ request' = [request EXCEPT ![h] = Free]
  /\ UNCHANGED <<route, phone, log, replies, task, tests, dialogue, person, died, done>>

-----------------------------------------------------------------------------
(* The background task of a reply in a dialogue, process_business_whatsapp. *)

Ends(m) == task' = [task EXCEPT ![m] = NoTask]

\* Nothing is done for a message that has been read or left to a person.
Untouched(m) ==
  /\ row[m] = "received" /\ quotes[m] = 0
  /\ cases[<<"own", m>>] = "none" /\ audit[m] = "none"

Begin(m) ==
  /\ task[m].pc = "waiting" /\ m \notin testRows
  /\ IF Untouched(m)
     THEN task' = [task EXCEPT ![m].pc = "judging", ![m].loaded = status]
     ELSE Ends(m)
  /\ UNCHANGED <<route, gateway, request, replies, tests, dialogue, person, died, done, faults>>

EscalateWith(m, loaded) ==
  /\ cases' = [cases EXCEPT ![<<"own", m>>] = "open"]
  /\ status' = Written(status, loaded, "escalated")

\* The routes "wait" and "stop": the audit is all that is kept.
JudgeSilent(m) ==
  /\ task[m].pc = "judging" /\ m \notin testRows
  /\ audit' = [audit EXCEPT ![m] = "wait"]
  /\ Ends(m)
  /\ UNCHANGED <<route, gateway, request, row, quotes, tests, dialogue, person, died, done, faults>>

\* The budget is spent, or the policy asks for a person.
JudgeEscalates(m) ==
  /\ task[m].pc = "judging" /\ m \notin testRows
  /\ audit' = [audit EXCEPT ![m] = "escalate"]
  /\ EscalateWith(m, task[m].loaded)
  /\ Ends(m)
  /\ UNCHANGED <<route, gateway, request, row, quotes, tests, person, died, done, faults>>

\* Mutant: a message without offers yields one as well.
ReadsOneMore(m) ==
  /\ task[m].pc = "judging" /\ m \notin testRows
  /\ \E n \in {0, OffersOf[m] + 1} : task' = [task EXCEPT ![m].pc = "offers", ![m].left = n]
  /\ UNCHANGED <<route, gateway, request, replies, tests, dialogue, person, died, done, faults>>

JudgeReads(m) ==
  /\ task[m].pc = "judging" /\ m \notin testRows
  /\ \E n \in {0, OffersOf[m]} : task' = [task EXCEPT ![m].pc = "offers", ![m].left = n]
  /\ UNCHANGED <<route, gateway, request, replies, tests, dialogue, person, died, done, faults>>

\* create_quotation commits, with the audit and a case for an unusual offer.
StoreOffer(m) ==
  /\ task[m].pc = "offers" /\ task[m].left > 0
  /\ quotes' = [quotes EXCEPT ![m] = @ + 1]
  /\ audit' = [audit EXCEPT ![m] = "reply"]
  /\ \E unusual \in BOOLEAN :
       cases' = IF unusual THEN [cases EXCEPT ![<<"auto", m, quotes'[m]>>] = "open"] ELSE cases
  /\ task' = [task EXCEPT ![m].left = @ - 1]
  /\ UNCHANGED <<route, gateway, request, row, tests, status, person, died, done, faults>>

Parsed(m) ==
  /\ task[m].pc = "offers" /\ task[m].left = 0
  /\ audit' = [audit EXCEPT ![m] = "reply"]
  /\ status' = Written(status, task[m].loaded, "parsed")
  /\ Ends(m)
  /\ UNCHANGED <<route, gateway, request, row, quotes, tests, cases, person, died, done, faults>>

\* Mutant: the failure is logged and nothing else.
FailureIsLogged(m) ==
  /\ task[m].pc # "none" /\ m \notin testRows
  /\ Faulty
  /\ Ends(m)
  /\ UNCHANGED <<route, gateway, request, replies, tests, dialogue, person, died, done>>

\* The rollback and escalate_processing_failure.
TaskFails(m) ==
  /\ task[m].pc # "none" /\ m \notin testRows
  /\ Faulty
  /\ IF cases[<<"own", m>>] # "none" THEN UNCHANGED <<row, dialogue>>
     ELSE /\ row' = [row EXCEPT ![m] = "processing_error"]
          /\ EscalateWith(m, status)
  /\ Ends(m)
  /\ UNCHANGED <<route, gateway, request, quotes, audit, tests, person, died, done>>

-----------------------------------------------------------------------------
(* The background task of a test conversation, process_incoming_whatsapp. *)

TestBegins(m) ==
  /\ task[m].pc = "waiting" /\ m \in testRows
  /\ IF testRun = "classifying" THEN task' = [task EXCEPT ![m].pc = "judging"] ELSE Ends(m)
  /\ UNCHANGED <<route, gateway, request, replies, tests, dialogue, person, died, done, faults>>

TestGoes(m, from, to, run) ==
  /\ task[m].pc = from /\ m \in testRows
  /\ task' = [task EXCEPT ![m] = IF to = "none" THEN NoTask ELSE [@ EXCEPT !.pc = to]]
  /\ testRun' = run
  /\ UNCHANGED <<route, gateway, request, replies, testRows, dialogue, person, died, done>>

TestEscalates(m) == TestGoes(m, "judging", "none", "escalated") /\ UNCHANGED faults
TestGenerates(m) == TestGoes(m, "judging", "generating", "generating") /\ UNCHANGED faults
TestSends(m) == TestGoes(m, "generating", "sending", "sending") /\ UNCHANGED faults
TestSent(m) == TestGoes(m, "sending", "none", "sent") /\ UNCHANGED faults
TestFails(m) ==
  /\ Faulty
  /\ \E pc \in {"judging", "generating", "sending"} : TestGoes(m, pc, "none", "processing_error")

-----------------------------------------------------------------------------
(* The backend dies and is started again: requests and tasks are gone. *)
BackendDies ==
  /\ Faulty
  /\ died' = TRUE
  /\ flight' = Nothing
  /\ request' = [h \in Requests |-> Free]
  /\ task' = [m \in Messages |-> NoTask]
  /\ person' = [p \in People |-> Away]
  /\ UNCHANGED <<route, phone, memory, file, log, replies, tests, dialogue, done>>

-----------------------------------------------------------------------------
(* People, each in a request of their own: what is read first is committed later. *)

Unresolved(c) == cases[c] = "open"

Opens(p, pc, c) ==
  /\ person[p].pc = "idle"
  /\ done < MaxPeople /\ done' = done + 1
  /\ person' = [person EXCEPT ![p] =
                  [pc |-> pc, case |-> c, loaded |-> status,
                   alone |-> \A d \in Cases \ {c} : ~Unresolved(d)]]
  /\ UNCHANGED <<route, gateway, request, replies, task, tests, dialogue, died, faults>>

\* update_escalation, escalate_manually, the comparison table.
OpensCase(p) == \E c \in Cases : Unresolved(c) /\ Opens(p, "resolve", c)
OpensRequest(p) == Opens(p, "escalate", <<"hand", done + 1>>)
OpensTable(p) ==
  /\ \E m \in Messages : quotes[m] > 0
  /\ status \in {"sent", "collecting", "parsed"}
  /\ Opens(p, "summarize", Nothing)

PersonStays == UNCHANGED <<route, gateway, request, replies, task, tests, died, done, faults>>

\* Mutant: the case itself counts among the unresolved ones.
CountsItself(p) ==
  person[p].alone /\ ~Unresolved(person[p].case) /\ person[p].loaded = "escalated"
\* The request leaves manual work when no other case was unresolved.
Returns(p) == person[p].alone /\ person[p].loaded = "escalated"

Resolves(p) ==
  /\ person[p].pc = "resolve"
  /\ cases' = [cases EXCEPT ![person[p].case] = "resolved"]
  /\ status' = IF Returns(p) THEN "collecting" ELSE status
  /\ person' = [person EXCEPT ![p] = Away]
  /\ PersonStays

Escalates(p) ==
  /\ person[p].pc = "escalate"
  /\ cases' = [cases EXCEPT ![person[p].case] = "open"]
  /\ status' = Written(status, person[p].loaded, "escalated")
  /\ person' = [person EXCEPT ![p] = Away]
  /\ PersonStays

Summarizes(p) ==
  /\ person[p].pc = "summarize"
  /\ status' = "summarized"
  /\ person' = [person EXCEPT ![p] = Away]
  /\ UNCHANGED cases
  /\ PersonStays

\* The status of a case may be set back.
Reopens(p) ==
  /\ person[p].pc = "idle"
  /\ done < MaxPeople /\ done' = done + 1
  /\ \E c \in Cases : cases[c] = "resolved" /\ cases' = [cases EXCEPT ![c] = "open"]
  /\ UNCHANGED <<route, gateway, request, replies, task, tests, status, person, died, faults>>

-----------------------------------------------------------------------------
Serve(h) ==
  \/ Lookup(h) \/ Insert(h) \/ CommitInbound(h) \/ TestLookup(h) \/ TestCommit(h)
  \/ StoreUnmatched(h) \/ Answer(h)

Work(m) ==
  \/ Begin(m) \/ JudgeSilent(m) \/ JudgeEscalates(m) \/ JudgeReads(m) \/ StoreOffer(m) \/ Parsed(m)
  \/ TestBegins(m) \/ TestEscalates(m) \/ TestGenerates(m) \/ TestSends(m) \/ TestSent(m)

Fault ==
  \/ Timeout \/ GatewayRestarts \/ BackendDies
  \/ \E h \in Requests : RequestFails(h)
  \/ \E m \in Messages : TaskFails(m) \/ TestFails(m)

Human(p) ==
  \/ OpensCase(p) \/ OpensRequest(p) \/ OpensTable(p)
  \/ Resolves(p) \/ Escalates(p) \/ Summarizes(p) \/ Reopens(p)

Next ==
  \/ \E m \in Messages : Arrives(m) \/ Queue(m) \/ Ignore(m) \/ Work(m)
  \/ \E h \in Requests : Post(h) \/ Serve(h)
  \/ \E p \in People : Human(p)
  \/ Fault

Spec == Init /\ [][Next]_vars

\* The flush runs on a timer, a request and a task run to their end.
Fairness ==
  /\ WF_vars(\E h \in Requests : Post(h))
  /\ WF_vars(\E h \in Requests : Serve(h))
  /\ WF_vars(\E m \in Messages : Work(m))

FairSpec == Spec /\ Fairness

-----------------------------------------------------------------------------
(* Properties. *)

Stored(m) == row[m] # "none" \/ m \in testRows

GatewayTypes ==
  /\ phone \in [Messages -> {"coming", "building", "queued", "gone"}]
  /\ memory \in Seq(Messages) /\ file \in Seq(Messages) /\ log \in Seq(Messages)
  /\ flight \in Requests \cup {Nothing}
  /\ request \in [Requests ->
       [pc : {"idle", "lookup", "insert", "commit", "test", "testcommit", "unmatched", "answer"},
        msg : Messages \cup {Nothing}, loaded : Statuses \cup TestStatuses \cup {"none"},
        new : BOOLEAN]]

DialogueTypes ==
  /\ row \in [Messages -> {"none", "received", "received_ambiguous", "unresolved",
                           "processing_error"}]
  /\ quotes \in [Messages -> Nat] /\ \A m \in Messages : quotes[m] <= OffersOf[m]
  /\ audit \in [Messages -> {"none", "wait", "escalate", "reply"}]
  /\ testRows \subseteq Messages /\ testRun \in TestStatuses
  /\ status \in Statuses
  /\ cases \in [Cases -> {"none", "open", "resolved"}]

\* The variables hold values of their types, and a message gives no more
\* quotations than it has offers.
TypeOK == GatewayTypes /\ DialogueTypes

\* A message leaves the gateway's queue only when the backend has stored it:
\* whatever dies or times out, a queued reply is posted again until then
\* (flushEvents drops the head after a 2xx, the file survives a restart).
NothingDropped ==
  \A m \in Messages : phone[m] = "queued" => Stored(m) \/ m \in {file[i] : i \in DOMAIN file}

\* Replies are stored in the order the gateway has queued them, although a
\* callback may outlive its timeout and be posted again (flushEvents).
StoredInOrder ==
  \A i, j \in DOMAIN log : i < j /\ Stored(log[j]) => Stored(log[i])

\* A request in manual work has an unresolved case, so that its resolution can
\* take it out again (update_escalation, _escalate, escalate_manually).
EscalatedHasCase == status = "escalated" => \E c \in Cases : Unresolved(c)

\* What came of a reply is to be seen: a case, an offer or a policy decision.
Visible(m) ==
  row[m] = "received" =>
    cases[<<"own", m>>] # "none" \/ quotes[m] > 0 \/ audit[m] # "none"

\* Every queued reply is stored in the end, also after deaths on both sides;
\* and while the backend lives, none is left without a visible result and no
\* test conversation is left in the middle (receive_event, _process_business).
RepliesSettle ==
  <>[](/\ \A m \in Messages : phone[m] = "queued" => Stored(m)
       /\ died \/ /\ \A m \in Messages : Visible(m)
                  /\ testRun \in {"sent", "escalated", "processing_error"})

\* "We do not leave a stored reply without a visible result": also when the
\* backend dies between the answer 202 and the end of the task.
RepliesVisible == <>[](\A m \in Messages : Visible(m))
=============================================================================
