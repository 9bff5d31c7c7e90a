------------------------ MODULE WhatsAppInboxProofs ------------------------
(***************************************************************************)
(* The gateway's queue of WhatsApp replies, for any number of messages,    *)
(* requests, people and faults: nothing that was queued is dropped before  *)
(* the backend has stored it, and the replies are stored in their order.   *)
(***************************************************************************)
EXTENDS WhatsAppInbox, SequenceTheorems, TLAPS

TaskType ==
  [pc : {"none", "waiting", "judging", "offers", "generating", "sending"},
   loaded : Statuses \cup {"none"}, left : Nat]

\* What the other local variables hold.
LocalTypes ==
  /\ task \in [Messages -> TaskType]
  /\ route \in [Messages -> {"one", "several", "test", "nobody"}]

\* A reply gives no more offers than it has: a task reads it once.
OffersLeft ==
  \A m \in Messages :
    /\ task[m].pc = "judging" /\ m \notin testRows => quotes[m] = 0
    /\ task[m].pc = "offers" => quotes[m] + task[m].left <= OffersOf[m]

\* How many messages of the log the gateway has dropped.
Dropped == Len(log) - Len(memory)

\* The queue is what remains of the log.
QueueInv ==
  /\ file = memory
  /\ Len(memory) <= Len(log)
  /\ \A i \in 1 .. Len(memory) : memory[i] = log[Dropped + i]
  /\ \A i \in 1 .. Len(log) : phone[log[i]] = "queued"
  /\ \A m \in Messages : phone[m] = "queued" => \E i \in 1 .. Len(log) : log[i] = m
  /\ \A i, j \in 1 .. Len(log) : log[i] = log[j] => i = j

\* A request is about a message that was at the head of the queue.
PostedInv ==
  /\ \A h \in Requests : request[h].pc # "idle" =>
       \E i \in 1 .. Len(log) : i <= Dropped + 1 /\ log[i] = request[h].msg
  /\ \A h \in Requests : request[h].pc = "answer" => Stored(request[h].msg)
  /\ flight # Nothing =>
       /\ request[flight].pc # "idle"
       /\ Len(memory) > 0 /\ request[flight].msg = memory[1]

\* What is dropped is stored, and no more than the head of the queue is.
StoredInv ==
  /\ \A i \in 1 .. Len(log) : i <= Dropped => Stored(log[i])
  /\ \A i \in 1 .. Len(log) : Stored(log[i]) => i <= Dropped + 1
  /\ \A m \in Messages : Stored(m) => phone[m] = "queued"
  /\ \A m \in Messages : task[m].pc # "none" => Stored(m)

GatewayInv == TypeOK /\ LocalTypes /\ OffersLeft /\ QueueInv /\ PostedInv /\ StoredInv

-----------------------------------------------------------------------------
(* Types of the gateway and of the requests. *)

LEMMA WrittenValue ==
  ASSUME NEW now, NEW was, NEW new PROVE Written(now, was, new) \in {now, new}
  BY DEF Written

RequestPcs ==
  {"idle", "lookup", "insert", "commit", "test", "testcommit", "unmatched", "answer"}
RequestType ==
  [pc : RequestPcs, msg : Messages \cup {Nothing},
   loaded : Statuses \cup TestStatuses \cup {"none"}, new : BOOLEAN]

LEMMA RequestTypes == GatewayTypes => request \in [Requests -> RequestType]
BY DEF GatewayTypes, RequestType, RequestPcs

\* A request that goes on keeps its type and its message.
LEMMA Turned ==
  ASSUME request \in [Requests -> RequestType], NEW h \in Requests, NEW pc \in RequestPcs,
         NEW loaded \in Statuses \cup TestStatuses \cup {"none"}, NEW new \in BOOLEAN,
         \/ request' = [request EXCEPT ![h].pc = pc]
         \/ request' = [request EXCEPT ![h].pc = pc, ![h].loaded = loaded]
         \/ request' = [request EXCEPT ![h].pc = pc, ![h].new = new]
  PROVE  /\ request' \in [Requests -> RequestType]
         /\ request'[h].pc = pc /\ request'[h].msg = request[h].msg
         /\ \A g \in Requests \ {h} : request'[g] = request[g]
<1>0. request[h] \in RequestType
  OBVIOUS
<1>1. /\ [request[h] EXCEPT !.pc = pc] \in RequestType
      /\ [request[h] EXCEPT !.pc = pc].pc = pc
      /\ [request[h] EXCEPT !.pc = pc].msg = request[h].msg
  BY <1>0 DEF RequestType
<1>2. /\ [request[h] EXCEPT !.pc = pc, !.loaded = loaded] \in RequestType
      /\ [request[h] EXCEPT !.pc = pc, !.loaded = loaded].pc = pc
      /\ [request[h] EXCEPT !.pc = pc, !.loaded = loaded].msg = request[h].msg
  BY <1>0 DEF RequestType
<1>3. /\ [request[h] EXCEPT !.pc = pc, !.new = new] \in RequestType
      /\ [request[h] EXCEPT !.pc = pc, !.new = new].pc = pc
      /\ [request[h] EXCEPT !.pc = pc, !.new = new].msg = request[h].msg
  BY <1>0 DEF RequestType
<1>4. \E r \in RequestType :
        /\ request' = [request EXCEPT ![h] = r] /\ r.pc = pc /\ r.msg = request[h].msg
  <2>1. CASE request' = [request EXCEPT ![h].pc = pc]
    BY <1>1, <2>1
  <2>2. CASE request' = [request EXCEPT ![h].pc = pc, ![h].loaded = loaded]
    BY <1>2, <2>2
  <2>3. CASE request' = [request EXCEPT ![h].pc = pc, ![h].new = new]
    BY <1>3, <2>3
  <2>. QED  BY <2>1, <2>2, <2>3
<1>. QED  BY <1>4

LEMMA FreeTypes ==
  ASSUME GatewayTypes, NEW h \in Requests
  PROVE  [request EXCEPT ![h] = Free] \in [Requests ->
       [pc : {"idle", "lookup", "insert", "commit", "test", "testcommit", "unmatched", "answer"},
        msg : Messages \cup {Nothing}, loaded : Statuses \cup TestStatuses \cup {"none"},
        new : BOOLEAN]]
  BY DEF GatewayTypes, Free

\* The queue after a callback.
LEMMA CallbackTypes ==
  ASSUME GatewayTypes, PostedInv, NEW h \in Requests, NEW ok \in BOOLEAN, CallbackEnds(h, ok)
  PROVE  /\ memory' \in Seq(Messages) /\ file' \in Seq(Messages)
         /\ flight' \in Requests \cup {Nothing}
<1>1. CASE flight = h
  <2>1. memory # <<>> /\ memory \in Seq(Messages)
    BY <1>1, WhatsAppAssumption DEF GatewayTypes, PostedInv
  <2>2. Tail(memory) \in Seq(Messages)
    BY <2>1
  <2>. QED  BY <1>1, <2>1, <2>2 DEF CallbackEnds, Kept
<1>2. CASE flight # h
  BY <1>2 DEF CallbackEnds, GatewayTypes
<1>. QED  BY <1>1, <1>2

\* A request is about a message of the log.
LEMMA PostedMessage ==
  ASSUME GatewayTypes, QueueInv, PostedInv, NEW h \in Requests, request[h].pc # "idle"
  PROVE  request[h].msg \in Messages
BY DEF GatewayTypes, QueueInv, PostedInv

\* How a request goes on.
LEMMA RequestTurns ==
  ASSUME GatewayInv, NEW h \in Requests,
         Lookup(h) \/ Insert(h) \/ TestLookup(h) \/ CommitInbound(h) \/ TestCommit(h)
           \/ StoreUnmatched(h)
  PROVE  /\ request' \in [Requests -> RequestType]
         /\ request'[h].pc # "idle" /\ request'[h].msg = request[h].msg
         /\ \A g \in Requests \ {h} : request'[g] = request[g]
<1>1. \/ Answers(h, TRUE) \/ Answers(h, FALSE)
      \/ \E pc \in {"insert", "test", "unmatched"} : Goes(h, pc)
      \/ request' = [request EXCEPT ![h].pc = "commit", ![h].loaded = status]
      \/ request' = [request EXCEPT ![h].pc = "testcommit", ![h].loaded = testRun]
  <2>1. CASE Lookup(h)
    <3>1. request[h].msg \in Messages
      BY <2>1, PostedMessage DEF Lookup, GatewayInv, TypeOK
    <3>2. route[request[h].msg] \in {"one", "several", "test", "nobody"}
      BY <3>1 DEF LocalTypes, GatewayInv
    <3>. QED  BY <2>1, <3>2 DEF Lookup
  <2>2. CASE ~Lookup(h)
    BY <2>2 DEF Insert, TestLookup, CommitInbound, TestCommit, StoreUnmatched
  <2>. QED  BY <2>1, <2>2
<1>2. request \in [Requests -> RequestType]
  BY RequestTypes DEF GatewayInv, TypeOK
<1>3. PICK pc \in RequestPcs \ {"idle"}, loaded \in Statuses \cup TestStatuses \cup {"none"},
           new \in BOOLEAN :
         \/ request' = [request EXCEPT ![h].pc = pc]
         \/ request' = [request EXCEPT ![h].pc = pc, ![h].loaded = loaded]
         \/ request' = [request EXCEPT ![h].pc = pc, ![h].new = new]
  <2>1. status \in Statuses /\ testRun \in TestStatuses
    BY DEF GatewayInv, TypeOK, DialogueTypes
  <2>. QED  BY <1>1, <2>1 DEF Answers, Goes, RequestPcs
<1>. QED  BY <1>2, <1>3, Turned

LEMMA GatewayTypesStep ==
  ASSUME GatewayInv, Next PROVE GatewayTypes'
<1>. USE DEF gateway
<1>0. GatewayTypes /\ DialogueTypes /\ PostedInv /\ LocalTypes
  BY DEF GatewayInv, TypeOK
<1>00. QueueInv
  BY DEF GatewayInv
<1>1. ASSUME UNCHANGED <<gateway, request>> PROVE GatewayTypes'
  BY <1>0, <1>1 DEF GatewayTypes
<1>2. ASSUME NEW m \in Messages, Arrives(m) \/ Ignore(m) PROVE GatewayTypes'
  BY <1>0, <1>2 DEF Arrives, Ignore, GatewayTypes
<1>3. ASSUME NEW m \in Messages, Queue(m) PROVE GatewayTypes'
  <2>1. Append(memory, m) \in Seq(Messages) /\ Append(log, m) \in Seq(Messages)
    BY <1>0 DEF GatewayTypes
  <2>. QED  BY <1>0, <1>3, <2>1 DEF Queue, GatewayTypes
<1>4. ASSUME NEW h \in Requests, Post(h) PROVE GatewayTypes'
  <2>1. PICK m \in NextEvent :
          request' = [request EXCEPT ![h] = [pc |-> "lookup", msg |-> m, loaded |-> "none",
                                             new |-> FALSE]]
    BY <1>4 DEF Post
  <2>2. m \in Messages
    BY <1>0, <2>1 DEF NextEvent, GatewayTypes
  <2>. QED  BY <1>0, <1>4, <2>1, <2>2 DEF Post, GatewayTypes
<1>5. ASSUME NEW h \in Requests,
             Lookup(h) \/ Insert(h) \/ TestLookup(h) \/ CommitInbound(h) \/ TestCommit(h)
               \/ StoreUnmatched(h)
      PROVE  GatewayTypes'
  <2>3. request' \in [Requests -> RequestType]
    BY <1>5, RequestTurns
  <2>4. UNCHANGED gateway
    BY <1>5 DEF Lookup, Insert, TestLookup, CommitInbound, TestCommit, StoreUnmatched
  <2>. QED  BY <1>0, <2>3, <2>4 DEF GatewayTypes, RequestType, RequestPcs
<1>6. ASSUME NEW h \in Requests, Answer(h) \/ RequestFails(h) PROVE GatewayTypes'
  <2>1. /\ CallbackEnds(h, TRUE) \/ CallbackEnds(h, FALSE)
        /\ request' = [request EXCEPT ![h] = Free] /\ UNCHANGED <<phone, log>>
    BY <1>6 DEF Answer, RequestFails
  <2>. QED  BY <1>0, <2>1, CallbackTypes, FreeTypes DEF GatewayTypes
<1>7. CASE Timeout
  <2>1. flight \in Requests /\ CallbackEnds(flight, FALSE) /\ UNCHANGED <<phone, log, request>>
    BY <1>0, <1>7 DEF Timeout, GatewayTypes
  <2>. QED  BY <1>0, <2>1, CallbackTypes DEF GatewayTypes
<1>8. CASE GatewayRestarts
  BY <1>0, <1>8 DEF GatewayRestarts, GatewayTypes
<1>9. CASE BackendDies
  BY <1>0, <1>9 DEF BackendDies, GatewayTypes, Free
<1>10. ASSUME NEW m \in Messages, Work(m) \/ TaskFails(m) \/ TestFails(m) PROVE GatewayTypes'
  BY <1>1, <1>10
  DEF Work, Begin, JudgeSilent, JudgeEscalates, JudgeReads, StoreOffer, Parsed, TestBegins,
      TestEscalates, TestGenerates, TestSends, TestSent, TestGoes, TaskFails, TestFails
<1>11. ASSUME NEW p \in People, Human(p) PROVE GatewayTypes'
  BY <1>1, <1>11
  DEF Human, OpensCase, OpensRequest, OpensTable, Opens, Resolves, Escalates, Summarizes, Reopens,
      PersonStays
<1>. QED
  BY <1>2, <1>3, <1>4, <1>5, <1>6, <1>7, <1>8, <1>9, <1>10, <1>11 DEF Next, Serve, Fault

-----------------------------------------------------------------------------
(* Types of the dialogue and of the tasks. *)

\* What only the gateway and the callbacks do leaves the dialogue alone.
Outside ==
  \/ \E m \in Messages : Arrives(m) \/ Queue(m) \/ Ignore(m)
  \/ \E h \in Requests : Post(h) \/ Lookup(h) \/ Insert(h) \/ TestLookup(h) \/ RequestFails(h)
  \/ Timeout \/ GatewayRestarts

LEMMA OutsideFrame ==
  ASSUME Outside PROVE UNCHANGED <<route, replies, tests, dialogue, task>>
BY DEF Outside, Arrives, Queue, Ignore, Post, Lookup, Insert, TestLookup, RequestFails, Timeout,
       GatewayRestarts

\* The work of the tasks and of the people leaves the gateway alone.
LEMMA InsideFrame ==
  ASSUME \/ \E m \in Messages : Work(m) \/ TaskFails(m) \/ TestFails(m)
         \/ \E p \in People : Human(p)
  PROVE  UNCHANGED <<route, gateway, request, testRows>>
<1>. USE DEF tests
<1>1. ASSUME NEW m \in Messages, Work(m) \/ TaskFails(m) \/ TestFails(m)
      PROVE  UNCHANGED <<route, gateway, request, testRows>>
  BY <1>1
  DEF Work, Begin, JudgeSilent, JudgeEscalates, JudgeReads, StoreOffer, Parsed, TestBegins,
      TestEscalates, TestGenerates, TestSends, TestSent, TestGoes, TaskFails, TestFails
<1>2. ASSUME NEW p \in People, Human(p) PROVE UNCHANGED <<route, gateway, request, testRows>>
  BY <1>2
  DEF Human, OpensCase, OpensRequest, OpensTable, Opens, Resolves, Escalates, Summarizes, Reopens,
      PersonStays
<1>. QED  BY <1>1, <1>2

LEMMA DialogueTypesStep ==
  ASSUME GatewayInv, Next PROVE DialogueTypes'
<1>. USE DEF replies, tests, dialogue, DialogueTypes, Statuses, TestStatuses
<1>0. DialogueTypes /\ GatewayTypes /\ OffersLeft /\ LocalTypes /\ PostedInv /\ QueueInv
  BY DEF GatewayInv, TypeOK
<1>1. ASSUME UNCHANGED <<replies, tests, dialogue>> PROVE DialogueTypes'
  BY <1>0, <1>1
<1>2. CASE Outside
  BY <1>1, <1>2, OutsideFrame
<1>3. ASSUME NEW h \in Requests, CommitInbound(h) PROVE DialogueTypes'
  <2>1. status' \in {status, "escalated", "collecting"}
    BY <1>3 DEF CommitInbound, Written
  <2>2. row' \in [Messages -> {"none", "received", "received_ambiguous", "unresolved",
                              "processing_error"}]
    BY <1>0, <1>3 DEF CommitInbound
  <2>3. cases' \in [Cases -> {"none", "open", "resolved"}]
    BY <1>0, <1>3 DEF CommitInbound
  <2>. QED  BY <1>0, <1>3, <2>1, <2>2, <2>3 DEF CommitInbound
<1>4. ASSUME NEW h \in Requests, TestCommit(h) PROVE DialogueTypes'
  <2>1. request[h].msg \in Messages
    BY <1>0, <1>4, PostedMessage DEF TestCommit
  <2>2. testRun' \in {testRun, "classifying"}
    BY <1>4, WrittenValue DEF TestCommit
  <2>3. testRows' \subseteq Messages
    BY <1>0, <1>4, <2>1 DEF TestCommit
  <2>. QED  BY <1>0, <1>4, <2>2, <2>3 DEF TestCommit
<1>5. ASSUME NEW h \in Requests, StoreUnmatched(h) PROVE DialogueTypes'
  BY <1>0, <1>5 DEF StoreUnmatched
<1>6. ASSUME NEW h \in Requests, Answer(h) PROVE DialogueTypes'
  BY <1>1, <1>6 DEF Answer
<1>7. CASE BackendDies
  BY <1>1, <1>7 DEF BackendDies
<1>8. ASSUME NEW m \in Messages, Begin(m) \/ JudgeReads(m) \/ TestBegins(m) PROVE DialogueTypes'
  BY <1>1, <1>8 DEF Begin, JudgeReads, TestBegins
<1>9. ASSUME NEW m \in Messages, JudgeSilent(m) PROVE DialogueTypes'
  BY <1>0, <1>9 DEF JudgeSilent
<1>10. ASSUME NEW m \in Messages, JudgeEscalates(m) PROVE DialogueTypes'
  <2>1. status' \in {status, "escalated"}
    BY <1>10, WrittenValue DEF JudgeEscalates, EscalateWith
  <2>2. audit' \in [Messages -> {"none", "wait", "escalate", "reply"}]
    BY <1>0, <1>10 DEF JudgeEscalates
  <2>3. cases' \in [Cases -> {"none", "open", "resolved"}]
    BY <1>0, <1>10 DEF JudgeEscalates, EscalateWith
  <2>. QED  BY <1>0, <1>10, <2>1, <2>2, <2>3 DEF JudgeEscalates
<1>11. ASSUME NEW m \in Messages, StoreOffer(m) PROVE DialogueTypes'
  <2>1. /\ quotes' = [quotes EXCEPT ![m] = @ + 1]
        /\ quotes[m] + 1 <= OffersOf[m]
    <3>1. /\ quotes[m] + task[m].left <= OffersOf[m] /\ task[m].left > 0
          /\ quotes' = [quotes EXCEPT ![m] = @ + 1]
      BY <1>0, <1>11 DEF StoreOffer, OffersLeft
    <3>2. quotes[m] \in Nat /\ task[m].left \in Nat /\ OffersOf[m] \in Nat
      BY <1>0, WhatsAppAssumption DEF LocalTypes, TaskType
    <3>. QED  BY <3>1, <3>2
  <2>2. quotes' \in [Messages -> Nat] /\ \A k \in Messages : quotes'[k] <= OffersOf[k]
    BY <1>0, <2>1
  <2>3. cases' \in [Cases -> {"none", "open", "resolved"}]
    BY <1>0, <1>11 DEF StoreOffer
  <2>4. audit' \in [Messages -> {"none", "wait", "escalate", "reply"}]
    BY <1>0, <1>11 DEF StoreOffer
  <2>. QED  BY <1>0, <1>11, <2>2, <2>3, <2>4 DEF StoreOffer
<1>12. ASSUME NEW m \in Messages, Parsed(m) PROVE DialogueTypes'
  BY <1>0, <1>12, WrittenValue DEF Parsed
<1>13. ASSUME NEW m \in Messages,
              TestEscalates(m) \/ TestGenerates(m) \/ TestSends(m) \/ TestSent(m) \/ TestFails(m)
       PROVE  DialogueTypes'
  BY <1>0, <1>13
  DEF TestEscalates, TestGenerates, TestSends, TestSent, TestFails, TestGoes
<1>14. ASSUME NEW m \in Messages, TaskFails(m) PROVE DialogueTypes'
  BY <1>0, <1>14, WrittenValue DEF TaskFails, EscalateWith
<1>15. ASSUME NEW p \in People, OpensCase(p) \/ OpensRequest(p) \/ OpensTable(p)
       PROVE  DialogueTypes'
  BY <1>1, <1>15 DEF OpensCase, OpensRequest, OpensTable, Opens
<1>16. ASSUME NEW p \in People, Resolves(p) \/ Escalates(p) \/ Summarizes(p) PROVE DialogueTypes'
  BY <1>0, <1>16, WrittenValue DEF Resolves, Escalates, Summarizes, PersonStays
<1>17. ASSUME NEW p \in People, Reopens(p) PROVE DialogueTypes'
  BY <1>0, <1>17 DEF Reopens
<1>. QED
  BY <1>2, <1>3, <1>4, <1>5, <1>6, <1>7, <1>8, <1>9, <1>10, <1>11, <1>12, <1>13, <1>14, <1>15,
     <1>16, <1>17
  DEF Next, Serve, Work, Fault, Human, Outside

LEMMA LocalStep ==
  ASSUME GatewayInv, Next PROVE LocalTypes' /\ OffersLeft'
<1>. USE DEF replies, tests, dialogue, LocalTypes, OffersLeft, TaskType
<1>0. /\ DialogueTypes /\ GatewayTypes /\ OffersLeft /\ LocalTypes /\ PostedInv /\ QueueInv
      /\ OffersOf \in [Messages -> Nat]
  BY WhatsAppAssumption DEF GatewayInv, TypeOK
<1>1. ASSUME UNCHANGED <<route, quotes, task>>, testRows \subseteq testRows'
      PROVE  LocalTypes' /\ OffersLeft'
  BY <1>0, <1>1
<1>2. CASE Outside
  BY <1>1, <1>2, OutsideFrame
<1>3. ASSUME NEW h \in Requests, CommitInbound(h) \/ TestCommit(h) \/ StoreUnmatched(h)
      PROVE  LocalTypes' /\ OffersLeft'
  BY <1>1, <1>3 DEF CommitInbound, TestCommit, StoreUnmatched
<1>4. ASSUME NEW h \in Requests, Answer(h) PROVE LocalTypes' /\ OffersLeft'
  <2>1. \/ task' = [task EXCEPT ![request[h].msg].pc = "waiting"]
        \/ task' = task
    BY <1>4 DEF Answer
  <2>2. UNCHANGED <<route, replies, tests>>
    BY <1>4 DEF Answer
  <2>. QED  BY <1>0, <2>1, <2>2
<1>5. CASE BackendDies
  BY <1>0, <1>5 DEF BackendDies, NoTask
<1>6. ASSUME NEW m \in Messages, Begin(m) PROVE LocalTypes' /\ OffersLeft'
  <2>1. UNCHANGED <<route, replies, tests>>
    BY <1>6 DEF Begin
  <2>2. CASE Untouched(m)
    <3>1. task' = [task EXCEPT ![m].pc = "judging", ![m].loaded = status] /\ quotes[m] = 0
      BY <1>6, <2>2 DEF Begin, Untouched
    <3>2. status \in Statuses
      BY <1>0 DEF DialogueTypes
    <3>3. task' \in [Messages -> TaskType]
      <4>1. [task[m] EXCEPT !.pc = "judging", !.loaded = status] \in TaskType
        BY <1>0, <3>2
      <4>2. task' = [task EXCEPT ![m] = [task[m] EXCEPT !.pc = "judging", !.loaded = status]]
        BY <3>1
      <4>. HIDE DEF TaskType
      <4>. QED  BY <1>0, <4>1, <4>2
    <3>4. task'[m].pc = "judging" /\ \A k \in Messages \ {m} : task'[k] = task[k]
      BY <1>0, <3>1
    <3>. QED  BY <1>0, <2>1, <3>1, <3>3, <3>4
  <2>3. CASE ~Untouched(m)
    <3>1. task' = [task EXCEPT ![m] = NoTask]
      BY <1>6, <2>3 DEF Begin, Ends
    <3>. QED  BY <1>0, <2>1, <3>1 DEF NoTask
  <2>. QED  BY <2>2, <2>3
<1>7. ASSUME NEW m \in Messages, JudgeSilent(m) \/ JudgeEscalates(m) \/ Parsed(m) \/ TaskFails(m)
      PROVE  LocalTypes' /\ OffersLeft'
  BY <1>0, <1>7 DEF JudgeSilent, JudgeEscalates, Parsed, TaskFails, Ends, NoTask
<1>8. ASSUME NEW m \in Messages, JudgeReads(m) PROVE LocalTypes' /\ OffersLeft'
  <2>1. PICK n \in {0, OffersOf[m]} : task' = [task EXCEPT ![m].pc = "offers", ![m].left = n]
    BY <1>8 DEF JudgeReads
  <2>2. n \in Nat /\ n <= OffersOf[m] /\ quotes[m] = 0
    BY <1>0, <1>8 DEF JudgeReads
  <2>3. UNCHANGED <<route, replies, tests>>
    BY <1>8 DEF JudgeReads
  <2>4. task' \in [Messages -> TaskType]
    <3>1. [task[m] EXCEPT !.pc = "offers", !.left = n] \in TaskType
      BY <1>0, <2>2
    <3>2. task' = [task EXCEPT ![m] = [task[m] EXCEPT !.pc = "offers", !.left = n]]
      BY <2>1
    <3>. HIDE DEF TaskType
    <3>. QED  BY <1>0, <3>1, <3>2
  <2>5. task'[m].pc = "offers" /\ task'[m].left = n
    BY <1>0, <2>1
  <2>6. \A k \in Messages \ {m} : task'[k] = task[k]
    BY <1>0, <2>1
  <2>. QED  BY <1>0, <2>2, <2>3, <2>4, <2>5, <2>6
<1>9. ASSUME NEW m \in Messages, StoreOffer(m) PROVE LocalTypes' /\ OffersLeft'
  BY <1>0, <1>9 DEF StoreOffer, DialogueTypes
<1>10. ASSUME NEW m \in Messages,
              TestBegins(m) \/ TestEscalates(m) \/ TestGenerates(m) \/ TestSends(m) \/ TestSent(m)
                \/ TestFails(m)
       PROVE  LocalTypes' /\ OffersLeft'
  BY <1>0, <1>10
  DEF TestBegins, TestEscalates, TestGenerates, TestSends, TestSent, TestFails, TestGoes, Ends,
      NoTask
<1>11. ASSUME NEW p \in People, Human(p) PROVE LocalTypes' /\ OffersLeft'
  BY <1>1, <1>11
  DEF Human, OpensCase, OpensRequest, OpensTable, Opens, Resolves, Escalates, Summarizes, Reopens,
      PersonStays
<1>. QED
  BY <1>2, <1>3, <1>4, <1>5, <1>6, <1>7, <1>8, <1>9, <1>10, <1>11
  DEF Next, Serve, Work, Fault, Outside
-----------------------------------------------------------------------------
(* The queue and the log. *)

\* What a step does to the queue: nothing, one message more, or its head dropped.
LEMMA QueueMoves ==
  ASSUME GatewayInv, Next
  PROVE  \/ /\ UNCHANGED <<memory, file, log>>
            /\ \A m \in Messages : phone'[m] = "queued" <=> phone[m] = "queued"
         \/ \E m \in Messages :
              /\ phone[m] # "queued" /\ phone' = [phone EXCEPT ![m] = "queued"]
              /\ memory' = Append(memory, m) /\ file' = memory' /\ log' = Append(log, m)
              /\ UNCHANGED <<row, testRows, task, request, flight>>
         \/ \E h \in Requests :
              /\ flight = h /\ request[h].pc = "answer"
              /\ memory' = Tail(memory) /\ file' = memory' /\ UNCHANGED <<phone, log>>
<1>. USE DEF gateway, replies, tests
<1>0. GatewayTypes /\ QueueInv /\ PostedInv
  BY DEF GatewayInv, TypeOK
<1>1. CASE UNCHANGED gateway
  BY <1>1
<1>2. ASSUME NEW m \in Messages, Arrives(m) \/ Ignore(m)
      PROVE  /\ UNCHANGED <<memory, file, log>>
             /\ \A k \in Messages : phone'[k] = "queued" <=> phone[k] = "queued"
  BY <1>0, <1>2 DEF Arrives, Ignore, GatewayTypes
<1>3. ASSUME NEW m \in Messages, Queue(m)
      PROVE  /\ phone[m] # "queued" /\ phone' = [phone EXCEPT ![m] = "queued"]
             /\ memory' = Append(memory, m) /\ file' = memory' /\ log' = Append(log, m)
             /\ UNCHANGED <<row, testRows, task, request, flight>>
  BY <1>3 DEF Queue
<1>4. ASSUME NEW h \in Requests, Post(h) PROVE UNCHANGED <<phone, memory, file, log>>
  BY <1>4 DEF Post
<1>5. ASSUME NEW h \in Requests, CallbackEnds(h, FALSE) PROVE UNCHANGED <<memory, file>>
  BY <1>0, <1>5 DEF CallbackEnds, Kept, QueueInv
<1>6. CASE Timeout
  <2>1. flight \in Requests /\ CallbackEnds(flight, FALSE) /\ UNCHANGED <<phone, log>>
    BY <1>0, <1>6 DEF Timeout, GatewayTypes
  <2>. QED  BY <1>5, <2>1
<1>7. CASE GatewayRestarts
  BY <1>0, <1>7 DEF GatewayRestarts, GatewayTypes, QueueInv
<1>8. CASE BackendDies
  BY <1>8 DEF BackendDies
<1>9. ASSUME NEW h \in Requests, RequestFails(h) PROVE UNCHANGED <<phone, memory, file, log>>
  BY <1>5, <1>9 DEF RequestFails
<1>10. ASSUME NEW h \in Requests, Answer(h)
       PROVE  /\ UNCHANGED <<phone, log>>
              /\ \/ UNCHANGED <<memory, file>>
                 \/ /\ flight = h /\ request[h].pc = "answer"
                    /\ memory' = Tail(memory) /\ file' = memory'
  BY <1>10 DEF Answer, CallbackEnds, Kept
<1>11. ASSUME NEW h \in Requests,
              Lookup(h) \/ Insert(h) \/ CommitInbound(h) \/ TestLookup(h) \/ TestCommit(h)
                \/ StoreUnmatched(h)
       PROVE  UNCHANGED gateway
  BY <1>11 DEF Lookup, Insert, CommitInbound, TestLookup, TestCommit, StoreUnmatched
<1>12. CASE \/ \E m \in Messages : Work(m) \/ TaskFails(m) \/ TestFails(m)
            \/ \E p \in People : Human(p)
  BY <1>1, <1>12, InsideFrame
<1>. QED
  <2>1. CASE \E m \in Messages : Queue(m)
    BY <1>3, <2>1
  <2>2. CASE \E h \in Requests : Answer(h)
    BY <1>10, <2>2
  <2>3. CASE \E m \in Messages : Arrives(m) \/ Ignore(m)
    BY <1>2, <2>3
  <2>4. CASE \E h \in Requests : Post(h) \/ RequestFails(h)
    BY <1>4, <1>9, <2>4
  <2>5. CASE \E h \in Requests : Serve(h) /\ ~Answer(h)
    BY <1>1, <1>11, <2>5 DEF Serve
  <2>. QED
    BY <1>6, <1>7, <1>8, <1>12, <2>1, <2>2, <2>3, <2>4, <2>5, <1>1 DEF Next, Fault

\* The log only grows, and what has been dropped from it only grows.
LEMMA QueueStep ==
  ASSUME GatewayInv, Next
  PROVE  /\ QueueInv'
         /\ Dropped' \in Nat /\ Dropped \in Nat /\ Dropped <= Dropped'
         /\ Len(log) <= Len(log') /\ \A i \in 1 .. Len(log) : log'[i] = log[i]
<1>0. GatewayTypes /\ QueueInv /\ PostedInv /\ GatewayTypes'
  BY GatewayTypesStep DEF GatewayInv, TypeOK
<1>1. /\ memory \in Seq(Messages) /\ log \in Seq(Messages) /\ Len(memory) \in Nat
      /\ Len(log) \in Nat /\ Len(memory) <= Len(log)
      /\ phone \in [Messages -> {"coming", "building", "queued", "gone"}]
  BY <1>0 DEF GatewayTypes, QueueInv
<1>2. CASE /\ UNCHANGED <<memory, file, log>>
           /\ \A m \in Messages : phone'[m] = "queued" <=> phone[m] = "queued"
  BY <1>0, <1>1, <1>2 DEF QueueInv, Dropped
<1>3. CASE \E m \in Messages :
              /\ phone[m] # "queued" /\ phone' = [phone EXCEPT ![m] = "queued"]
              /\ memory' = Append(memory, m) /\ file' = memory' /\ log' = Append(log, m)
  <2>1. PICK m \in Messages :
              /\ phone[m] # "queued" /\ phone' = [phone EXCEPT ![m] = "queued"]
              /\ memory' = Append(memory, m) /\ file' = memory' /\ log' = Append(log, m)
    BY <1>3
  <2>2. /\ Len(memory') = Len(memory) + 1 /\ Len(log') = Len(log) + 1
        /\ Dropped' = Dropped /\ Dropped \in Nat
    BY <1>1, <2>1 DEF Dropped
  <2>3. /\ \A i \in 1 .. Len(log) : log'[i] = log[i]
        /\ \A i \in 1 .. Len(memory) : memory'[i] = memory[i]
        /\ log'[Len(log) + 1] = m /\ memory'[Len(memory) + 1] = m
    BY <1>1, <2>1
  <2>4. \A i \in 1 .. Len(log) : log[i] # m
    BY <1>0, <2>1 DEF QueueInv
  <2>5. \A i \in 1 .. Len(memory') : memory'[i] = log'[Dropped' + i]
    <3>1. ASSUME NEW i \in 1 .. Len(memory) PROVE memory'[i] = log'[Dropped' + i]
      <4>1. Dropped + i \in 1 .. Len(log)
        BY <1>1, <2>2 DEF Dropped
      <4>. QED  BY <1>0, <2>2, <2>3, <4>1 DEF QueueInv
    <3>2. memory'[Len(memory) + 1] = log'[Dropped' + (Len(memory) + 1)]
      BY <1>1, <2>2, <2>3 DEF Dropped
    <3>. QED  BY <1>1, <2>2, <3>1, <3>2
  <2>6. \A i \in 1 .. Len(log') : phone'[log'[i]] = "queued"
    <3>1. ASSUME NEW i \in 1 .. Len(log) PROVE phone'[log'[i]] = "queued"
      BY <1>0, <1>1, <2>1, <2>3 DEF QueueInv
    <3>2. phone'[log'[Len(log) + 1]] = "queued"
      BY <1>1, <2>1, <2>3
    <3>. QED  BY <1>1, <2>2, <3>1, <3>2
  <2>7. ASSUME NEW k \in Messages, phone'[k] = "queued" PROVE \E i \in 1 .. Len(log') : log'[i] = k
    <3>1. CASE k = m
      BY <1>1, <2>2, <2>3, <3>1
    <3>2. CASE k # m
      <4>1. PICK i \in 1 .. Len(log) : log[i] = k
        BY <1>0, <1>1, <2>1, <2>7, <3>2 DEF QueueInv
      <4>. QED  BY <1>1, <2>2, <2>3, <4>1
    <3>. QED  BY <3>1, <3>2
  <2>8. \A i, j \in 1 .. Len(log') : log'[i] = log'[j] => i = j
    <3>1. \A i, j \in 1 .. Len(log) : log'[i] = log'[j] => i = j
      BY <1>0, <2>3 DEF QueueInv
    <3>2. \A i \in 1 .. Len(log) : log'[i] # m
      BY <2>3, <2>4
    <3>3. \A i \in 1 .. Len(log') : i \in 1 .. Len(log) \/ i = Len(log) + 1
      BY <1>1, <2>2
    <3>. QED  BY <2>3, <3>1, <3>2, <3>3
  <2>9. file' = memory' /\ Len(memory') <= Len(log') /\ Len(log) <= Len(log')
    BY <1>1, <2>1, <2>2
  <2>10. QueueInv'
    BY <2>5, <2>6, <2>7, <2>8, <2>9 DEF QueueInv
  <2>. QED  BY <2>2, <2>3, <2>9, <2>10
<1>4. CASE \E h \in Requests :
              /\ flight = h /\ request[h].pc = "answer"
              /\ memory' = Tail(memory) /\ file' = memory' /\ UNCHANGED <<phone, log>>
  <2>1. memory # <<>> /\ Len(memory) > 0
    BY <1>0, <1>1, <1>4, WhatsAppAssumption DEF PostedInv
  <2>2. /\ Len(memory') = Len(memory) - 1 /\ file' = memory' /\ UNCHANGED <<phone, log>>
        /\ \A i \in 1 .. Len(memory') : memory'[i] = memory[i + 1]
    BY <1>1, <1>4, <2>1
  <2>3. Dropped' = Dropped + 1 /\ Dropped \in Nat /\ Len(memory') <= Len(log')
    BY <1>1, <2>2 DEF Dropped
  <2>4. ASSUME NEW i \in 1 .. Len(memory') PROVE memory'[i] = log'[Dropped' + i]
    <3>1. i + 1 \in 1 .. Len(memory) /\ i \in Nat
      BY <1>1, <2>2
    <3>2. memory[i + 1] = log[Dropped + (i + 1)]
      BY <1>0, <3>1 DEF QueueInv
    <3>. QED  BY <2>2, <2>3, <3>1, <3>2
  <2>. QED  BY <1>0, <1>1, <2>2, <2>3, <2>4 DEF QueueInv
<1>. QED  BY <1>2, <1>3, <1>4, QueueMoves

\* What is stored stays stored.
LEMMA StoredStays ==
  ASSUME GatewayInv, Next, NEW m \in Messages, Stored(m) PROVE Stored(m)'
<1>. USE DEF replies, tests, dialogue, Stored
<1>0. /\ DialogueTypes /\ GatewayTypes
      /\ row \in [Messages -> {"none", "received", "received_ambiguous", "unresolved",
                              "processing_error"}]
  BY DEF GatewayInv, TypeOK, DialogueTypes
<1>1. CASE UNCHANGED <<row, testRows>>
  BY <1>1
<1>2. CASE Outside
  BY <1>2, OutsideFrame
<1>3. ASSUME NEW h \in Requests, CommitInbound(h) PROVE Stored(m)'
  BY <1>0, <1>3 DEF CommitInbound
<1>4. ASSUME NEW h \in Requests, TestCommit(h) PROVE Stored(m)'
  BY <1>0, <1>4 DEF TestCommit
<1>5. ASSUME NEW h \in Requests, StoreUnmatched(h) PROVE Stored(m)'
  BY <1>0, <1>5 DEF StoreUnmatched
<1>6. ASSUME NEW h \in Requests, Answer(h) PROVE Stored(m)'
  BY <1>1, <1>6 DEF Answer
<1>7. CASE BackendDies
  BY <1>1, <1>7 DEF BackendDies
<1>8. ASSUME NEW k \in Messages, TaskFails(k) PROVE Stored(m)'
  BY <1>0, <1>8 DEF TaskFails
<1>9. ASSUME NEW k \in Messages, Work(k) \/ TestFails(k) PROVE UNCHANGED <<row, testRows>>
  BY <1>9
  DEF Work, Begin, JudgeSilent, JudgeEscalates, JudgeReads, StoreOffer, Parsed, TestBegins,
      TestEscalates, TestGenerates, TestSends, TestSent, TestGoes, TestFails
<1>10. ASSUME NEW p \in People, Human(p) PROVE UNCHANGED <<row, testRows>>
  BY <1>10
  DEF Human, OpensCase, OpensRequest, OpensTable, Opens, Resolves, Escalates, Summarizes, Reopens,
      PersonStays
<1>. QED
  BY <1>1, <1>2, <1>3, <1>4, <1>5, <1>6, <1>7, <1>8, <1>9, <1>10 DEF Next, Serve, Fault, Outside
-----------------------------------------------------------------------------
(* The requests and what is stored. *)

\* What a step does to one request.
LEMMA RequestMoves ==
  ASSUME GatewayInv, Next, NEW h \in Requests, request'[h].pc # "idle"
  PROVE  \/ /\ request[h].pc = "idle" /\ request'[h].pc # "answer"
            /\ Len(memory) > 0 /\ request'[h].msg = memory[1]
            /\ UNCHANGED <<memory, log>>
         \/ /\ request[h].pc # "idle" /\ request'[h].msg = request[h].msg
            /\ \/ request'[h].pc = request[h].pc
               \/ request'[h].pc # "answer"
               \/ Stored(request[h].msg)'
<1>. USE DEF gateway, replies, tests
<1>0. GatewayTypes /\ QueueInv /\ PostedInv /\ DialogueTypes /\ LocalTypes
  BY DEF GatewayInv, TypeOK
<1>1. CASE UNCHANGED request
  BY <1>0, <1>1
<1>2. ASSUME NEW g \in Requests, Post(g)
      PROVE  \/ request'[h] = request[h]
             \/ /\ request[h].pc = "idle" /\ request'[h].pc # "answer"
                /\ Len(memory) > 0 /\ request'[h].msg = memory[1]
                /\ UNCHANGED <<memory, log>>
  BY <1>0, <1>2 DEF Post, NextEvent, GatewayTypes
<1>3. ASSUME NEW g \in Requests, Lookup(g)
      PROVE  /\ request[h].pc # "idle" /\ request'[h].msg = request[h].msg
             /\ \/ request'[h].pc = request[h].pc
                \/ request'[h].pc # "answer"
                \/ Stored(request[h].msg)'
  <2>1. CASE g # h
    BY <1>0, <1>3, <2>1 DEF Lookup, Answers, Goes, GatewayTypes
  <2>2. CASE g = h
    <3>1. request[h].msg \in Messages
      BY <1>0, <1>3, <2>2, PostedMessage DEF Lookup
    <3>2. route[request[h].msg] \in {"one", "several", "test", "nobody"}
      BY <1>0, <3>1 DEF LocalTypes
    <3>. QED  BY <1>0, <1>3, <2>2, <3>2 DEF Lookup, Answers, Goes, GatewayTypes, Stored
  <2>. QED  BY <2>1, <2>2
<1>4. ASSUME NEW g \in Requests, Insert(g) \/ TestLookup(g)
      PROVE  /\ request[h].pc # "idle" /\ request'[h].msg = request[h].msg
             /\ \/ request'[h].pc = request[h].pc
                \/ request'[h].pc # "answer"
                \/ Stored(request[h].msg)'
  <2>1. CASE \E new \in BOOLEAN : Answers(g, new)
    <3>1. Stored(request[g].msg)'
      BY <1>0, <1>4, <2>1 DEF Insert, TestLookup, Answers, Stored, GatewayTypes
    <3>2. request[g].pc # "idle"
      BY <1>4 DEF Insert, TestLookup
    <3>. QED  BY <1>0, <2>1, <3>1, <3>2 DEF Answers, GatewayTypes
  <2>2. CASE request' = [request EXCEPT ![g].pc = "commit", ![g].loaded = status]
    BY <1>0, <1>4, <2>2 DEF Insert, TestLookup, GatewayTypes
  <2>3. CASE request' = [request EXCEPT ![g].pc = "testcommit", ![g].loaded = testRun]
    BY <1>0, <1>4, <2>3 DEF Insert, TestLookup, GatewayTypes
  <2>. QED  BY <1>4, <2>1, <2>2, <2>3 DEF Insert, TestLookup
<1>5. ASSUME NEW g \in Requests, CommitInbound(g) \/ TestCommit(g) \/ StoreUnmatched(g)
      PROVE  /\ request[h].pc # "idle" /\ request'[h].msg = request[h].msg
             /\ \/ request'[h].pc = request[h].pc
                \/ request'[h].pc # "answer"
                \/ Stored(request[h].msg)'
  <2>1. request[g].msg \in Messages
    BY <1>0, <1>5, PostedMessage DEF CommitInbound, TestCommit, StoreUnmatched
  <2>2. \E new \in BOOLEAN : Answers(g, new)
    BY <1>5 DEF CommitInbound, TestCommit, StoreUnmatched
  <2>3. request'[g].msg = request[g].msg /\ Stored(request[g].msg)'
    <3>1. request'[g].msg = request[g].msg
      BY <1>0, <2>2 DEF Answers, GatewayTypes
    <3>2. CASE CommitInbound(g)
      BY <1>0, <2>1, <3>1, <3>2 DEF CommitInbound, DialogueTypes, Stored
    <3>3. CASE TestCommit(g)
      <4>1. request[g].msg \in testRows'
        BY <3>3 DEF TestCommit
      <4>. QED  BY <3>1, <4>1 DEF Stored
    <3>4. CASE StoreUnmatched(g)
      BY <1>0, <2>1, <3>1, <3>4 DEF StoreUnmatched, DialogueTypes, Stored
    <3>. QED  BY <1>5, <3>1, <3>2, <3>3, <3>4
  <2>4. request[g].pc # "idle"
    BY <1>5 DEF CommitInbound, TestCommit, StoreUnmatched
  <2>. QED  BY <1>0, <2>2, <2>3, <2>4 DEF Answers, GatewayTypes, Stored
<1>6. ASSUME NEW g \in Requests, Answer(g) \/ RequestFails(g) PROVE request'[h] = request[h]
  <2>1. request' = [request EXCEPT ![g] = Free]
    BY <1>6 DEF Answer, RequestFails
  <2>2. g # h
    BY <1>0, <2>1 DEF GatewayTypes, Free
  <2>. QED  BY <1>0, <2>1, <2>2 DEF GatewayTypes
<1>7. CASE BackendDies
  BY <1>7 DEF BackendDies, Free
<1>8. ASSUME NEW m \in Messages, Arrives(m) \/ Ignore(m) \/ Queue(m) PROVE UNCHANGED request
  BY <1>8 DEF Arrives, Ignore, Queue
<1>9. CASE Timeout \/ GatewayRestarts
  BY <1>1, <1>9 DEF Timeout, GatewayRestarts
<1>10. CASE \/ \E m \in Messages : Work(m) \/ TaskFails(m) \/ TestFails(m)
            \/ \E p \in People : Human(p)
  BY <1>1, <1>10, InsideFrame
<1>. QED
  BY <1>1, <1>2, <1>3, <1>4, <1>5, <1>6, <1>7, <1>8, <1>9, <1>10 DEF Next, Serve, Fault

\* What has just been stored is the message of a request.
LEMMA StoredMoves ==
  ASSUME GatewayInv, Next, NEW m \in Messages, ~Stored(m), Stored(m)'
  PROVE  \E h \in Requests : request[h].pc # "idle" /\ request[h].msg = m
<1>. USE DEF replies, tests, dialogue, Stored
<1>0. DialogueTypes /\ GatewayTypes /\ StoredInv
  BY DEF GatewayInv, TypeOK
<1>1. CASE UNCHANGED <<row, testRows>>
  BY <1>1
<1>2. CASE Outside
  BY <1>2, OutsideFrame
<1>3. ASSUME NEW h \in Requests, CommitInbound(h) \/ TestCommit(h) \/ StoreUnmatched(h)
      PROVE  \E g \in Requests : request[g].pc # "idle" /\ request[g].msg = m
  BY <1>0, <1>3 DEF CommitInbound, TestCommit, StoreUnmatched, DialogueTypes
<1>4. ASSUME NEW h \in Requests, Answer(h) PROVE UNCHANGED <<row, testRows>>
  BY <1>4 DEF Answer
<1>5. CASE BackendDies
  BY <1>1, <1>5 DEF BackendDies
<1>6. ASSUME NEW k \in Messages, TaskFails(k) PROVE FALSE
  BY <1>0, <1>6 DEF TaskFails, DialogueTypes, StoredInv
<1>7. ASSUME NEW k \in Messages, Work(k) \/ TestFails(k) PROVE UNCHANGED <<row, testRows>>
  BY <1>7
  DEF Work, Begin, JudgeSilent, JudgeEscalates, JudgeReads, StoreOffer, Parsed, TestBegins,
      TestEscalates, TestGenerates, TestSends, TestSent, TestGoes, TestFails
<1>8. ASSUME NEW p \in People, Human(p) PROVE UNCHANGED <<row, testRows>>
  BY <1>8
  DEF Human, OpensCase, OpensRequest, OpensTable, Opens, Resolves, Escalates, Summarizes, Reopens,
      PersonStays
<1>. QED
  BY <1>1, <1>2, <1>3, <1>4, <1>5, <1>6, <1>7, <1>8 DEF Next, Serve, Fault, Outside
-----------------------------------------------------------------------------
(* The invariant. *)

LEMMA PostedStep ==
  ASSUME GatewayInv, Next PROVE PostedInv'
<1>0. /\ GatewayTypes /\ QueueInv /\ PostedInv /\ StoredInv
      /\ memory \in Seq(Messages) /\ log \in Seq(Messages)
  BY DEF GatewayInv, TypeOK, GatewayTypes
<1>1. /\ Dropped' \in Nat /\ Dropped \in Nat /\ Dropped <= Dropped'
      /\ Len(log) <= Len(log') /\ \A i \in 1 .. Len(log) : log'[i] = log[i]
      /\ Len(log) \in Nat /\ Len(log') \in Nat
  BY <1>0, QueueStep, GatewayTypesStep DEF GatewayTypes
<1>2. ASSUME NEW h \in Requests, request'[h].pc # "idle"
      PROVE  \E i \in 1 .. Len(log') : i <= Dropped' + 1 /\ log'[i] = request'[h].msg
  <2>1. PICK i \in 1 .. Len(log) : i <= Dropped + 1 /\ log[i] = request'[h].msg
    <3>1. CASE request[h].pc # "idle" /\ request'[h].msg = request[h].msg
      BY <1>0, <3>1 DEF PostedInv
    <3>2. CASE Len(memory) > 0 /\ request'[h].msg = memory[1]
      <4>1. Dropped + 1 \in 1 .. Len(log)
        BY <1>0, <1>1, <3>2 DEF Dropped
      <4>2. log[Dropped + 1] = memory[1]
        BY <1>0, <3>2 DEF QueueInv
      <4>. QED  BY <1>1, <3>2, <4>1, <4>2
    <3>. QED  BY <1>2, <3>1, <3>2, RequestMoves
  <2>2. i \in 1 .. Len(log') /\ i <= Dropped' + 1
    <3>1. Len(memory) \in Nat /\ Len(memory') \in Nat
      BY <1>0, GatewayTypesStep DEF GatewayTypes
    <3>2. i \in Nat /\ i >= 1 /\ i <= Len(log) /\ i <= Dropped + 1
      BY <1>1, <2>1
    <3>3. Dropped <= Dropped' /\ Len(log) <= Len(log') /\ Len(log) \in Nat /\ Len(log') \in Nat
      BY <1>1
    <3>. QED  BY <3>1, <3>2, <3>3 DEF Dropped
  <2>3. log'[i] = request'[h].msg
    BY <1>1, <2>1
  <2>. QED  BY <2>2, <2>3
<1>3. ASSUME NEW h \in Requests, request'[h].pc = "answer" PROVE Stored(request[h].msg)'
  <2>1. /\ request'[h].msg = request[h].msg /\ request[h].pc # "idle"
        /\ request[h].pc = "answer" \/ Stored(request[h].msg)'
    BY <1>3, RequestMoves
  <2>2. CASE request[h].pc = "answer"
    <3>1. PICK m \in Messages : m = request[h].msg
      BY <1>0, <2>1, PostedMessage
    <3>2. Stored(m)
      BY <1>0, <2>2, <3>1 DEF PostedInv
    <3>3. Stored(m)'
      BY <3>2, StoredStays
    <3>. QED  BY <2>1, <3>1, <3>3 DEF Stored
  <2>. QED  BY <2>1, <2>2
<1>4. ASSUME flight' # Nothing
      PROVE  /\ request'[flight'].pc # "idle"
             /\ Len(memory') > 0 /\ request'[flight'].msg = memory'[1]
  <2>. DEFINE Holds == /\ flight \in Requests /\ request[flight].pc # "idle"
                       /\ Len(memory) > 0 /\ request[flight].msg = memory[1]
  <2>1. flight # Nothing => Holds
    BY <1>0 DEF PostedInv, GatewayTypes
  <2>2. ASSUME NEW h \in Requests, Post(h) PROVE Holds'
    BY <1>0, <2>2 DEF Post, NextEvent, GatewayTypes
  <2>3. ASSUME UNCHANGED <<flight, request>>,
               memory' = memory \/ \E m \in Messages : memory' = Append(memory, m)
        PROVE  Holds'
    BY <1>0, <1>4, <2>1, <2>3
  <2>4. ASSUME NEW m \in Messages, Arrives(m) \/ Ignore(m) \/ Queue(m) PROVE Holds'
    BY <2>3, <2>4 DEF Arrives, Ignore, Queue
  <2>5. ASSUME NEW h \in Requests,
               Lookup(h) \/ Insert(h) \/ CommitInbound(h) \/ TestLookup(h) \/ TestCommit(h)
                 \/ StoreUnmatched(h)
        PROVE  Holds'
    <3>1. UNCHANGED gateway
      BY <2>5 DEF Lookup, Insert, CommitInbound, TestLookup, TestCommit, StoreUnmatched
    <3>2. request'[flight].pc # "idle"
      BY <1>4, <2>1, <2>5, <3>1, RequestTurns DEF gateway
    <3>3. request'[flight].msg = request[flight].msg
      BY <1>4, <2>1, <2>5, <3>1, RequestTurns DEF gateway
    <3>. QED  BY <1>4, <2>1, <3>1, <3>2, <3>3 DEF gateway
  <2>6. ASSUME NEW h \in Requests, Answer(h) \/ RequestFails(h) PROVE Holds'
    <3>1. /\ CallbackEnds(h, TRUE) \/ CallbackEnds(h, FALSE)
          /\ request' = [request EXCEPT ![h] = Free]
      BY <2>6 DEF Answer, RequestFails
    <3>2. flight # h /\ UNCHANGED <<flight, memory>>
      BY <1>4, <3>1 DEF CallbackEnds
    <3>. QED  BY <1>0, <1>4, <2>1, <3>1, <3>2 DEF GatewayTypes
  <2>7. ~Timeout /\ ~GatewayRestarts /\ ~BackendDies
    BY <1>4 DEF Timeout, GatewayRestarts, BackendDies, CallbackEnds
  <2>8. ASSUME \/ \E m \in Messages : Work(m) \/ TaskFails(m) \/ TestFails(m)
               \/ \E p \in People : Human(p)
        PROVE  Holds'
    BY <2>3, <2>8, InsideFrame DEF gateway
  <2>9. Holds'
    <3>1. CASE \E m \in Messages : Arrives(m) \/ Queue(m) \/ Ignore(m)
      BY <2>4, <3>1
    <3>2. CASE \E h \in Requests : Post(h)
      BY <2>2, <3>2
    <3>3. CASE \E h \in Requests : Answer(h) \/ RequestFails(h)
      BY <2>6, <3>3
    <3>4. CASE \E h \in Requests : Serve(h) /\ ~Answer(h)
      BY <2>5, <3>4 DEF Serve
    <3>5. ASSUME NEW h \in Requests, Post(h) \/ Serve(h) PROVE Holds'
      BY <3>2, <3>3, <3>4, <3>5
    <3>6. Fault => Holds'
      BY <2>7, <2>8, <3>3 DEF Fault
    <3>7. (\E m \in Messages : Work(m)) \/ (\E p \in People : Human(p)) => Holds'
      BY <2>8
    <3>. QED  BY <3>1, <3>5, <3>6, <3>7 DEF Next
  <2>. QED  BY <2>9
<1>. QED  BY <1>2, <1>3, <1>4 DEF PostedInv

\* A task is started for a message that has been stored.
LEMMA TaskMoves ==
  ASSUME GatewayInv, Next, NEW m \in Messages, task'[m].pc # "none"
  PROVE  task[m].pc # "none" \/ \E h \in Requests : request[h].pc = "answer" /\ request[h].msg = m
<1>0. LocalTypes
  BY DEF GatewayInv
<1>1. CASE UNCHANGED task
  BY <1>1
<1>2. CASE Outside
  BY <1>1, <1>2, OutsideFrame
<1>3. ASSUME NEW h \in Requests, CommitInbound(h) \/ TestCommit(h) \/ StoreUnmatched(h)
      PROVE  UNCHANGED task
  BY <1>3 DEF CommitInbound, TestCommit, StoreUnmatched
<1>4. ASSUME NEW h \in Requests, Answer(h)
      PROVE  task[m].pc # "none" \/ (request[h].pc = "answer" /\ request[h].msg = m)
  <2>1. \/ task' = [task EXCEPT ![request[h].msg].pc = "waiting"]
        \/ task' = task
    BY <1>4 DEF Answer
  <2>2. request[h].pc = "answer"
    BY <1>4 DEF Answer
  <2>. QED  BY <1>0, <2>1, <2>2 DEF LocalTypes, TaskType
<1>5. CASE BackendDies
  BY <1>5 DEF BackendDies, NoTask
<1>6. ASSUME NEW k \in Messages, Begin(k) \/ TaskFails(k) PROVE task[m].pc # "none"
  BY <1>0, <1>6 DEF Begin, TaskFails, Ends, NoTask, LocalTypes, TaskType
<1>7. ASSUME NEW k \in Messages, JudgeSilent(k) \/ JudgeEscalates(k) \/ JudgeReads(k)
      PROVE  task[m].pc # "none"
  BY <1>0, <1>7 DEF JudgeSilent, JudgeEscalates, JudgeReads, Ends, NoTask, LocalTypes, TaskType
<1>8. ASSUME NEW k \in Messages, StoreOffer(k) \/ Parsed(k) PROVE task[m].pc # "none"
  BY <1>0, <1>8 DEF StoreOffer, Parsed, Ends, NoTask, LocalTypes, TaskType
<1>9. ASSUME NEW k \in Messages,
             TestBegins(k) \/ TestEscalates(k) \/ TestGenerates(k) \/ TestSends(k) \/ TestSent(k)
               \/ TestFails(k)
      PROVE  task[m].pc # "none"
  BY <1>0, <1>9
  DEF TestBegins, TestEscalates, TestGenerates, TestSends, TestSent, TestFails, TestGoes, Ends,
      NoTask, LocalTypes, TaskType
<1>10. ASSUME NEW p \in People, Human(p) PROVE UNCHANGED task
  BY <1>10
  DEF Human, OpensCase, OpensRequest, OpensTable, Opens, Resolves, Escalates, Summarizes, Reopens,
      PersonStays
<1>. QED
  BY <1>1, <1>2, <1>3, <1>4, <1>5, <1>6, <1>7, <1>8, <1>9, <1>10
  DEF Next, Serve, Work, Fault, Outside

LEMMA StoredStep ==
  ASSUME GatewayInv, Next PROVE StoredInv'
<1>0. /\ GatewayTypes /\ QueueInv /\ PostedInv /\ StoredInv /\ GatewayTypes'
      /\ memory \in Seq(Messages) /\ log \in Seq(Messages)
      /\ memory' \in Seq(Messages) /\ log' \in Seq(Messages)
  BY GatewayTypesStep DEF GatewayInv, TypeOK, GatewayTypes
<1>1. /\ Dropped' \in Nat /\ Dropped \in Nat /\ Dropped <= Dropped' /\ QueueInv'
      /\ Len(log) <= Len(log') /\ \A i \in 1 .. Len(log) : log'[i] = log[i]
      /\ Len(log) \in Nat /\ Len(log') \in Nat
  BY <1>0, QueueStep
<1>2. Dropped' = Dropped
        \/ (/\ Dropped' = Dropped + 1 /\ Dropped + 1 \in 1 .. Len(log)
            /\ Stored(log[Dropped + 1]))
  <2>1. ASSUME NEW h \in Requests, flight = h, request[h].pc = "answer", memory' = Tail(memory),
               UNCHANGED log
        PROVE  /\ Dropped' = Dropped + 1 /\ Dropped + 1 \in 1 .. Len(log)
               /\ Stored(log[Dropped + 1])
    <3>1. Len(memory) > 0 /\ request[h].msg = memory[1] /\ Stored(request[h].msg)
      BY <1>0, <2>1, WhatsAppAssumption DEF PostedInv
    <3>2. Dropped + 1 \in 1 .. Len(log) /\ memory[1] = log[Dropped + 1]
      <4>1. 1 \in 1 .. Len(memory) /\ Len(memory) <= Len(log) /\ Len(log) \in Nat
        BY <1>0, <3>1 DEF QueueInv
      <4>2. memory[1] = log[Dropped + 1]
        BY <1>0, <4>1 DEF QueueInv
      <4>. QED  BY <4>1, <4>2 DEF Dropped
    <3>3. Len(memory') = Len(memory) - 1
      BY <1>0, <2>1, <3>1
    <3>. QED  BY <1>0, <2>1, <3>1, <3>2, <3>3 DEF Dropped
  <2>2. ASSUME NEW m \in Messages, memory' = Append(memory, m), log' = Append(log, m)
        PROVE  Dropped' = Dropped
    BY <1>0, <2>2 DEF Dropped
  <2>3. ASSUME UNCHANGED <<memory, log>> PROVE Dropped' = Dropped
    BY <2>3 DEF Dropped
  <2>. QED  BY <2>1, <2>2, <2>3, QueueMoves
<1>3. ASSUME NEW i \in 1 .. Len(log'), i <= Dropped' PROVE Stored(log[i])'
  <2>1. i \in 1 .. Len(log) /\ Stored(log[i])
    BY <1>0, <1>1, <1>2, <1>3 DEF StoredInv, Dropped
  <2>2. log[i] \in Messages /\ log'[i] = log[i]
    BY <1>0, <1>1, <2>1
  <2>3. PICK m \in Messages : m = log[i]
    BY <2>2
  <2>4. Stored(m)'
    BY <2>1, <2>3, StoredStays
  <2>. QED  BY <2>2, <2>3, <2>4 DEF Stored
<1>4. ASSUME NEW i \in 1 .. Len(log'), Stored(log[i])' PROVE i <= Dropped' + 1
  <2>1. PICK m \in Messages : m = log'[i]
    BY <1>0
  <2>2. Stored(m)'
    BY <1>4, <2>1 DEF Stored
  <2>3. PICK j \in 1 .. Len(log) : j <= Dropped + 1 /\ log[j] = m
    <3>1. CASE Stored(m)
      <4>1. phone[m] = "queued"
        BY <1>0, <3>1 DEF StoredInv
      <4>2. PICK j \in 1 .. Len(log) : log[j] = m
        BY <1>0, <4>1 DEF QueueInv
      <4>. QED  BY <1>0, <3>1, <4>2 DEF StoredInv
    <3>2. CASE ~Stored(m)
      <4>1. PICK h \in Requests : request[h].pc # "idle" /\ request[h].msg = m
        BY <2>2, <3>2, StoredMoves
      <4>. QED  BY <1>0, <4>1 DEF PostedInv
    <3>. QED  BY <3>1, <3>2
  <2>4. j \in 1 .. Len(log') /\ log'[j] = log'[i]
    BY <1>1, <2>1, <2>3
  <2>5. i = j
    BY <1>1, <2>4 DEF QueueInv
  <2>6. j \in Nat /\ j <= Dropped + 1
    BY <1>1, <2>3
  <2>7. Dropped' \in Nat /\ Dropped \in Nat /\ Dropped <= Dropped'
    BY <1>1
  <2>8. j <= Dropped' + 1
    <3>1. Len(memory) \in Nat /\ Len(memory') \in Nat
      BY <1>0
    <3>. QED  BY <1>1, <2>6, <2>7, <3>1 DEF Dropped
  <2>. QED  BY <2>5, <2>8
<1>5. ASSUME NEW m \in Messages, Stored(m)' PROVE phone'[m] = "queued"
  <2>1. phone[m] = "queued"
    <3>1. CASE Stored(m)
      BY <1>0, <3>1 DEF StoredInv
    <3>2. CASE ~Stored(m)
      <4>1. PICK h \in Requests : request[h].pc # "idle" /\ request[h].msg = m
        BY <1>5, <3>2, StoredMoves
      <4>. QED  BY <1>0, <4>1 DEF PostedInv, QueueInv
    <3>. QED  BY <3>1, <3>2
  <2>2. PICK i \in 1 .. Len(log) : log[i] = m
    BY <1>0, <2>1 DEF QueueInv
  <2>3. i \in 1 .. Len(log') /\ log'[i] = m
    BY <1>1, <2>2
  <2>. QED  BY <1>1, <2>3 DEF QueueInv
<1>6. ASSUME NEW m \in Messages, task'[m].pc # "none" PROVE Stored(m)'
  <2>1. Stored(m)
    BY <1>0, <1>6, TaskMoves DEF StoredInv, PostedInv
  <2>. QED  BY <2>1, StoredStays
<1>. QED  BY <1>3, <1>4, <1>5, <1>6 DEF StoredInv

LEMMA GatewayStart ==
  ASSUME Init PROVE GatewayInv
<1>. USE WhatsAppAssumption
<1>1. TypeOK
  BY DEF Init, TypeOK, GatewayTypes, DialogueTypes, Statuses, TestStatuses, Free
<1>2. LocalTypes /\ OffersLeft
  BY DEF Init, LocalTypes, TaskType, OffersLeft, NoTask, Statuses
<1>3. QueueInv /\ PostedInv /\ StoredInv
  BY DEF Init, QueueInv, PostedInv, StoredInv, Dropped, Stored, Free, NoTask
<1>. QED  BY <1>1, <1>2, <1>3 DEF GatewayInv

\* GatewayInv is an invariant: it holds at the start and every step keeps it.
LEMMA GatewayInvariant == Spec => []GatewayInv
<1>1. ASSUME GatewayInv, [Next]_vars PROVE GatewayInv'
  <2>1. CASE Next
    BY <1>1, <2>1, GatewayTypesStep, DialogueTypesStep, LocalStep, QueueStep, PostedStep, StoredStep
    DEF GatewayInv, TypeOK
  <2>2. CASE UNCHANGED vars
    <3>1. TypeOK'
      BY <1>1, <2>2 DEF vars, gateway, replies, tests, dialogue, GatewayInv, TypeOK, GatewayTypes,
                        DialogueTypes
    <3>2. LocalTypes' /\ OffersLeft'
      BY <1>1, <2>2 DEF vars, replies, tests, GatewayInv, LocalTypes, OffersLeft
    <3>3. QueueInv'
      BY <1>1, <2>2 DEF vars, gateway, GatewayInv, QueueInv, Dropped
    <3>4. PostedInv' /\ StoredInv'
      BY <1>1, <2>2
      DEF vars, gateway, replies, tests, GatewayInv, PostedInv, StoredInv, Dropped, Stored
    <3>. QED  BY <3>1, <3>2, <3>3, <3>4 DEF GatewayInv
  <2>. QED  BY <1>1, <2>1, <2>2
<1>. QED  BY <1>1, GatewayStart, PTL DEF Spec

\* The variables of the gateway, of the callbacks and of the dialogue keep
\* their types, and a reply gives no more quotations than it has offers
\* (receive_event, _process_business_whatsapp, update_escalation).
THEOREM InboxTyped == Spec => []TypeOK
<1>1. GatewayInv => TypeOK
  BY DEF GatewayInv
<1>. QED  BY <1>1, GatewayInvariant, PTL

\* A reply the gateway has queued is in its file until the backend has stored
\* it, whatever times out, fails or dies (flushEvents).
THEOREM QueuedUntilStored == Spec => []NothingDropped
<1>1. ASSUME GatewayInv PROVE NothingDropped
  <2>0. /\ QueueInv /\ StoredInv /\ memory \in Seq(Messages) /\ log \in Seq(Messages)
    BY <1>1 DEF GatewayInv, TypeOK, GatewayTypes
  <2>. SUFFICES ASSUME NEW m \in Messages, phone[m] = "queued"
                PROVE  Stored(m) \/ m \in {file[i] : i \in DOMAIN file}
    BY DEF NothingDropped
  <2>1. PICK i \in 1 .. Len(log) : log[i] = m
    BY <2>0 DEF QueueInv
  <2>2. CASE i <= Dropped
    BY <2>0, <2>1, <2>2 DEF StoredInv
  <2>3. CASE ~(i <= Dropped)
    <3>1. i - Dropped \in 1 .. Len(memory) /\ Dropped + (i - Dropped) = i
      BY <2>0, <2>3 DEF Dropped, QueueInv
    <3>2. memory[i - Dropped] = m
      BY <2>0, <2>1, <3>1 DEF QueueInv
    <3>. QED  BY <2>0, <3>1, <3>2 DEF QueueInv
  <2>. QED  BY <2>2, <2>3
<1>. QED  BY <1>1, GatewayInvariant, PTL

\* The replies are stored in the order in which the gateway has queued them,
\* although a callback may outlive its timeout and be posted again (flushEvents).
THEOREM OrderKept == Spec => []StoredInOrder
<1>1. ASSUME GatewayInv PROVE StoredInOrder
  <2>0. StoredInv /\ QueueInv /\ memory \in Seq(Messages) /\ log \in Seq(Messages)
    BY <1>1 DEF GatewayInv, TypeOK, GatewayTypes
  <2>. SUFFICES ASSUME NEW i \in 1 .. Len(log), NEW j \in 1 .. Len(log), i < j, Stored(log[j])
                PROVE  Stored(log[i])
    BY <2>0 DEF StoredInOrder
  <2>1. j <= Dropped + 1 /\ Dropped \in Int
    BY <2>0 DEF StoredInv, Dropped
  <2>2. i <= Dropped
    BY <2>0, <2>1
  <2>. QED  BY <2>0, <2>2 DEF StoredInv
<1>. QED  BY <1>1, GatewayInvariant, PTL
=============================================================================
