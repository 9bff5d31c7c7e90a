-------------------------- MODULE MessageDelivery --------------------------
(***************************************************************************)
(* Outbound messages: the rows of communications and rfq_recipients that   *)
(* the threads of the API and the search workers write while they call a   *)
(* mail or WhatsApp provider.                                              *)
(*                                                                         *)
(* Source: backend/app/services/communication_delivery.py, mailbox.py,     *)
(* combined_communication.py, search_auto_dispatch.py and the recipients   *)
(* and dispatch handlers of backend/app/api/suppliers.py.                  *)
(*                                                                         *)
(* Sessions neither expire objects on commit nor flush before a query: a   *)
(* request keeps what it read first, and what it assigns reaches the table *)
(* with its next commit.  An UPDATE of a row that was deleted meanwhile    *)
(* raises, and the transaction is rolled back.                             *)
(***************************************************************************)
EXTENDS Naturals, FiniteSets

CONSTANTS
  Procs,       \* threads that serve requests or execute searches
  Rfqs, Suppliers,
  ClientKeys,  \* idempotency keys made by the interface
  Drafts,      \* e-mail drafts, rows without a key
  MaxIds,      \* bound: recipient ids ever used
  MaxMoves,    \* bound: requests and changes by people, together
  Other,       \* a supplier none of this is about, but who may be chosen
  NoSupplier,
  NoLetter

Ids == 1 .. MaxIds
Places == Rfqs \X Suppliers          \* unique in rfq_recipients
Keyed == ClientKeys \cup Ids         \* the key of recipient i is dispatch-i
Letters == Keyed \cup Drafts
Nowhere == <<NoLetter, NoSupplier>>
RfqStatuses == {"draft", "sent", "later"}

ASSUME DeliveryAssumption ==
  /\ MaxIds \in Nat /\ MaxMoves \in Nat
  /\ {NoSupplier, Other} \cap Suppliers = {} /\ NoSupplier # Other /\ NoLetter \notin Letters
  /\ ClientKeys \cap Ids = {} /\ Drafts \cap Keyed = {}

VARIABLES
  letter,    \* communications.status; "none" is no row
  about,     \* the places a communication is linked to
  demo,      \* places that have a communication of the demo mode (no key)
  nextId,    \* the sequence of rfq_recipients
  place,     \* rfq_id and supplier_id of a recipient
  rcpt,      \* rfq_recipients.status
  excluded,  \* places whose rfq_supplier_links.status is excluded
  decision,  \* purchase_decisions: the supplier chosen for an RFQ
  rfq,       \* rfqs.status; "later" is any status after SENT
  pc, kind,  \* what a thread is doing and which function it executes
  job,       \* the communication it works on
  scope,     \* the places its request is about
  target,    \* the one of them a loop is at
  queue,     \* recipients it has read and not handled yet
  todo,      \* suppliers the automatic dispatch has not tried yet
  pend,      \* statuses assigned to recipients and not flushed yet
  any,       \* sent_any
  seen,      \* rfqs.status as it read them
  result,    \* what the provider answered
  calls,     \* history: calls of the provider for a letter
  accepted,  \* history: the provider took it
  auto,      \* history: recipients created by the automatic dispatch
  moves      \* requests and changes so far

rows == <<letter, about, demo>>
recipients == <<nextId, place, rcpt>>
choices == <<excluded, decision>>
thread == <<pc, kind, job, scope, target, queue, todo, pend, any, seen,
            result>>
history == <<calls, accepted, auto>>
vars == <<rows, recipients, choices, rfq, thread, history, moves>>

NothingPending == [i \in Ids |-> "none"]

Init ==
  /\ letter = [l \in Letters |-> IF l \in Drafts THEN "draft" ELSE "none"]
  /\ about \in [Letters -> SUBSET Places]
  /\ \A l \in Keyed : about[l] = {}
  /\ \A d \in Drafts : Cardinality(about[d]) = 1
  /\ demo = {}
  /\ nextId = 1
  /\ place = [i \in Ids |-> Nowhere]
  /\ rcpt = [i \in Ids |-> "none"]
  /\ excluded = {}
  /\ decision = [r \in Rfqs |-> NoSupplier]
  /\ rfq = [r \in Rfqs |-> "draft"]
  /\ pc = [p \in Procs |-> "idle"]
  /\ kind = [p \in Procs |-> "none"]
  /\ job = [p \in Procs |-> NoLetter]
  /\ scope = [p \in Procs |-> {}]
  /\ target = [p \in Procs |-> Nowhere]
  /\ queue = [p \in Procs |-> {}]
  /\ todo = [p \in Procs |-> {}]
  /\ pend = [p \in Procs |-> NothingPending]
  /\ any = [p \in Procs |-> FALSE]
  /\ seen = [p \in Procs |-> rfq]
  /\ result = [p \in Procs |-> "none"]
  /\ calls = [l \in Letters |-> 0]
  /\ accepted = {}
  /\ auto = {}
  /\ moves = 0

----------------------------------------------------------------------------
(* Queries.                                                                *)

Live(i) == rcpt[i] \in {"queued", "sent", "error"}

\* Mutant: a recipient that was written to does not count.
OpenRecipientOf(pl) == {i \in Ids : rcpt[i] = "queued" /\ place[i] = pl}

\* The row of a place; the database keeps it unique.
RecipientOf(pl) == {i \in Ids : Live(i) /\ place[i] = pl}

\* communication_linked_to_rfq for the contacts of a supplier
Talked(pl) == pl \in demo \/ \E l \in Letters : letter[l] # "none" /\ pl \in about[l]

\* Once a decision is saved only the chosen supplier is written to.
MayWrite(pl) == decision[pl[1]] \in {NoSupplier, pl[2]}

----------------------------------------------------------------------------
(* Threads.                                                                *)

Goto(p, c) == pc' = [pc EXCEPT ![p] = c]

\* A request begins; it keeps the RFQs as it read them.
Start(p, k, c, l, w) ==
  /\ pc[p] = "idle"
  /\ Goto(p, c)
  /\ kind' = [kind EXCEPT ![p] = k]
  /\ job' = [job EXCEPT ![p] = l]
  /\ scope' = [scope EXCEPT ![p] = w]
  /\ seen' = [seen EXCEPT ![p] = IF k \in {"combined", "dispatch", "auto"} THEN rfq ELSE @]
  /\ UNCHANGED <<rows, recipients, choices, rfq, target, pend, any, result, history>>

\* It ends, by its return or by an exception: what was not flushed is lost.
End(p) ==
  /\ Goto(p, "idle")
  /\ kind' = [kind EXCEPT ![p] = "none"]
  /\ job' = [job EXCEPT ![p] = NoLetter]
  /\ scope' = [scope EXCEPT ![p] = {}]
  /\ target' = [target EXCEPT ![p] = Nowhere]
  /\ queue' = [queue EXCEPT ![p] = {}]
  /\ todo' = [todo EXCEPT ![p] = {}]
  /\ pend' = [pend EXCEPT ![p] = NothingPending]
  /\ any' = [any EXCEPT ![p] = FALSE]
  /\ seen' = [seen EXCEPT ![p] = [r \in Rfqs |-> "draft"]]
  /\ result' = [result EXCEPT ![p] = "none"]

\* Mutant: the attempt was not committed when the provider was called.
DieUncommitted(p) ==
  /\ pc[p] # "idle"
  /\ End(p)
  /\ letter' = [l \in Letters |-> IF l = job[p] /\ l \in Keyed THEN "none" ELSE letter[l]]
  /\ UNCHANGED <<about, demo, recipients, choices, rfq, history>>

\* The process dies with its threads.
Die(p) ==
  /\ pc[p] # "idle"
  /\ End(p)
  /\ UNCHANGED <<rows, recipients, choices, rfq, history>>

----------------------------------------------------------------------------
(* What starts a request.  A key that is known already returns the stored  *)
(* row or is refused, so only the lookup that finds nothing goes on.       *)

\* Mutant: an attempt that failed is made again.
NewOrFailed(k) == letter[k] \in {"none", "delivery_error"}

\* No row has this key.
IsNew(k) == letter[k] = "none"

\* send_conversation_message, up to the INSERT
ConversationBegins(p, k, pl) ==
  /\ IsNew(k)
  /\ MayWrite(pl) /\ Talked(pl)
  /\ Start(p, "conversation", "insert", k, {pl})
  /\ UNCHANGED <<queue, todo>>

\* send_mailbox_message: a letter of its own, or a reply to one of an RFQ
MailBegins(p, k, pls) ==
  /\ IsNew(k)
  /\ Start(p, "mail", "insert", k, pls)
  /\ UNCHANGED <<queue, todo>>

\* send_email_draft, up to the check of the status
DraftBegins(p, d) ==
  /\ letter[d] = "draft"
  /\ \A pl \in about[d] : MayWrite(pl)
  /\ Start(p, "draft", "take", d, about[d])
  /\ UNCHANGED <<queue, todo>>

QueuedIn(pls) == {i \in Ids : rcpt[i] = "queued" /\ place[i] \in pls}

\* prepare_combined_message and the lookup of dispatch_combined_message: one
\* supplier, chosen and still queued for each of two or more RFQs
CombinedBegins(p, k, s, R) ==
  /\ IsNew(k)
  /\ Cardinality(R) >= 2
  /\ \A r \in R : decision[r] = NoSupplier /\ QueuedIn({<<r, s>>}) # {}
  /\ Start(p, "combined", "insert", k, R \X {s})
  /\ queue' = [queue EXCEPT ![p] = QueuedIn(R \X {s})]
  /\ UNCHANGED todo

\* dispatch, up to the loop over the queue
DispatchBegins(p, r) ==
  /\ decision[r] = NoSupplier
  /\ QueuedIn({r} \X Suppliers) # {}
  /\ Start(p, "dispatch", "loop", NoLetter, {r} \X Suppliers)
  /\ queue' = [queue EXCEPT ![p] = QueuedIn({r} \X Suppliers)]
  /\ UNCHANGED todo

\* dispatch with the channel switched off: nothing is called, one commit
DispatchDemo(r) ==
  /\ decision[r] = NoSupplier
  /\ LET Q == QueuedIn({r} \X Suppliers)
     IN /\ Q # {}
        /\ rcpt' = [i \in Ids |-> IF i \in Q THEN "sent" ELSE rcpt[i]]
        /\ demo' = demo \cup {place[i] : i \in Q}
  /\ rfq' = [rfq EXCEPT ![r] = IF @ = "draft" THEN "sent" ELSE @]
  /\ UNCHANGED <<letter, about, nextId, place, choices, thread, history>>

\* _dispatch after a completed search, up to the loop over the companies
AutoBegins(p, r) ==
  /\ decision[r] = NoSupplier
  /\ Start(p, "auto", "loop", NoLetter, {r} \X Suppliers)
  /\ todo' = [todo EXCEPT ![p] = Suppliers]
  /\ UNCHANGED queue

----------------------------------------------------------------------------
(* Writing recipients and RFQs.                                            *)

AddRecipient(pl) ==
  /\ nextId' = nextId + 1
  /\ place' = [place EXCEPT ![nextId] = pl]
  /\ rcpt' = [rcpt EXCEPT ![nextId] = "queued"]

SetRecipients(R, status) == rcpt' = [i \in Ids |-> IF i \in R THEN status ELSE rcpt[i]]

Pending(p) == {i \in Ids : pend[p][i] # "none"}
CanFlush(p) == \A i \in Pending(p) : Live(i)

Flush(p) ==
  /\ CanFlush(p)
  /\ rcpt' = [i \in Ids |-> IF i \in Pending(p) THEN pend[p][i] ELSE rcpt[i]]

\* The RFQs that were DRAFT or VERIFIED as the request read them.
MarkSent(p, R) ==
  rfq' = [r \in Rfqs |-> IF r \in R /\ seen[p][r] = "draft" THEN "sent" ELSE rfq[r]]

----------------------------------------------------------------------------
(* The loops of dispatch and of _dispatch.                                 *)

\* A recipient without an address, or with an earlier attempt: its status is
\* assigned and will be flushed by a later commit.
DispatchSkips(p, i) ==
  /\ pc[p] = "loop" /\ kind[p] = "dispatch" /\ i \in queue[p]
  /\ \/ /\ ~IsNew(i)
        /\ pend' = [pend EXCEPT ![p][i] = IF letter[i] = "sent" THEN "sent" ELSE "error"]
        /\ any' = [any EXCEPT ![p] = @ \/ letter[i] = "sent"]
     \/ /\ pend' = [pend EXCEPT ![p][i] = "error"]
        /\ UNCHANGED any
  /\ queue' = [queue EXCEPT ![p] = @ \ {i}]
  /\ UNCHANGED <<rows, recipients, choices, rfq, pc, kind, job, scope, target, todo, seen,
                 result, history>>

DispatchPicks(p, i) ==
  /\ pc[p] = "loop" /\ kind[p] = "dispatch" /\ i \in queue[p]
  /\ IsNew(i)
  /\ Goto(p, "insert")
  /\ job' = [job EXCEPT ![p] = i]
  /\ target' = [target EXCEPT ![p] = place[i]]
  /\ queue' = [queue EXCEPT ![p] = @ \ {i}]
  /\ UNCHANGED <<rows, recipients, choices, rfq, kind, scope, todo, pend, any, seen, result,
                 history>>

\* The last commit of dispatch.
DispatchEnds(p) ==
  /\ pc[p] = "loop" /\ kind[p] = "dispatch" /\ queue[p] = {}
  /\ \/ /\ Flush(p)
        /\ IF any[p] THEN MarkSent(p, {pl[1] : pl \in scope[p]}) ELSE UNCHANGED rfq
     \/ ~CanFlush(p) /\ UNCHANGED <<rcpt, rfq>>
  /\ End(p)
  /\ UNCHANGED <<rows, nextId, place, choices, history>>

\* A company that is excluded, has a recipient or has been talked to is left
\* to people.
Untouched(pl) == pl \notin excluded /\ RecipientOf(pl) = {} /\ ~Talked(pl)

\* One of these, or without an address.
AutoSkips(p, s) ==
  /\ pc[p] = "loop" /\ kind[p] = "auto" /\ s \in todo[p]
  /\ todo' = [todo EXCEPT ![p] = @ \ {s}]
  /\ UNCHANGED <<rows, recipients, choices, rfq, pc, kind, job, scope, target, queue, pend, any,
                 seen, result, history>>

\* The text is prepared by a model between the checks and the INSERT.
AutoPicks(p, pl) ==
  /\ pc[p] = "loop" /\ kind[p] = "auto" /\ pl \in scope[p] /\ pl[2] \in todo[p]
  /\ Untouched(pl)
  /\ Goto(p, "insert")
  /\ target' = [target EXCEPT ![p] = pl]
  /\ todo' = [todo EXCEPT ![p] = @ \ {pl[2]}]
  /\ UNCHANGED <<rows, recipients, choices, rfq, kind, job, scope, queue, pend, any, seen, result,
                 history>>

AutoEnds(p) ==
  /\ pc[p] = "loop" /\ kind[p] = "auto" /\ todo[p] = {}
  /\ End(p)
  /\ UNCHANGED <<rows, recipients, choices, rfq, history>>

----------------------------------------------------------------------------
(* Saving the attempt, calling the provider, saving the outcome.           *)

InsertRow(l, status, pls) ==
  /\ letter' = [letter EXCEPT ![l] = status]
  /\ about' = [about EXCEPT ![l] = pls]

\* The unique key lets one of two requests in; the other ends.
InsertKeyed(p) ==
  /\ pc[p] = "insert" /\ kind[p] \in {"conversation", "mail", "combined"}
  /\ \/ /\ IsNew(job[p])
        /\ \/ InsertRow(job[p], "sending", scope[p]) /\ Goto(p, "call") /\ UNCHANGED result
           \/ /\ kind[p] = "combined"   \* e-mail is switched off
              /\ InsertRow(job[p], "demo", scope[p])
              /\ Goto(p, "record")
              /\ result' = [result EXCEPT ![p] = "demo"]
        /\ UNCHANGED <<kind, job, scope, target, queue, todo, pend, any, seen>>
     \/ ~IsNew(job[p]) /\ End(p) /\ UNCHANGED <<letter, about>>
  /\ UNCHANGED <<demo, recipients, choices, rfq, history>>

InsertForRecipient(p) ==
  /\ pc[p] = "insert" /\ kind[p] = "dispatch"
  /\ \/ /\ IsNew(job[p])
        /\ InsertRow(job[p], "sending", {target[p]})
        /\ Flush(p)
        /\ pend' = [pend EXCEPT ![p] = NothingPending]
        /\ Goto(p, "call")
        /\ UNCHANGED <<kind, job, scope, target, queue, todo, any, seen, result>>
     \/ (~IsNew(job[p]) \/ ~CanFlush(p)) /\ End(p) /\ UNCHANGED <<letter, about, rcpt>>
  /\ UNCHANGED <<demo, nextId, place, choices, rfq, history>>

\* The recipient and the attempt are one transaction.
InsertAuto(p) ==
  /\ pc[p] = "insert" /\ kind[p] = "auto"
  /\ \/ /\ RecipientOf(target[p]) = {} /\ nextId <= MaxIds
        /\ AddRecipient(target[p])
        /\ job' = [job EXCEPT ![p] = nextId]
        /\ auto' = auto \cup {nextId}
        /\ \/ InsertRow(nextId, "sending", {target[p]}) /\ Goto(p, "call") /\ UNCHANGED result
           \/ /\ InsertRow(nextId, "demo", {target[p]})
              /\ Goto(p, "record")
              /\ result' = [result EXCEPT ![p] = "demo"]
        /\ UNCHANGED <<kind, scope, target, queue, todo, pend, any, seen>>
     \/ /\ RecipientOf(target[p]) # {} \/ nextId > MaxIds
        /\ End(p)
        /\ UNCHANGED <<letter, about, recipients, auto>>
  /\ UNCHANGED <<demo, choices, rfq, calls, accepted>>

\* send_email_draft: the UPDATE does not look at the status again.
TakeDraft(p) ==
  /\ pc[p] = "take"
  /\ letter' = [letter EXCEPT ![job[p]] = "sending"]
  /\ Goto(p, "call")
  /\ UNCHANGED <<about, demo, recipients, choices, rfq, kind, job, scope, target, queue, todo, pend,
                 any, seen, result, history>>

\* The provider answers, refuses, or something else goes wrong; only an answer
\* tells whether it has taken the message.
CallProvider(p) ==
  /\ pc[p] = "call"
  /\ calls' = [calls EXCEPT ![job[p]] = @ + 1]
  /\ \E answer \in {"ok", "error", "raised"} :
       /\ result' = [result EXCEPT ![p] = answer]
       /\ \/ accepted' = accepted \cup {job[p]}
          \/ answer # "ok" /\ UNCHANGED accepted
  /\ Goto(p, "record")
  /\ UNCHANGED <<rows, recipients, choices, rfq, kind, job, scope, target, queue, todo, pend, any,
                 seen, auto>>

SetLetter(l, status) == letter' = [letter EXCEPT ![l] = status]

\* Mutant: only a refusal by the provider counts as a failure.
RecordUnlessRefused(p) ==
  /\ pc[p] = "record" /\ kind[p] \in {"conversation", "mail", "draft"}
  /\ SetLetter(job[p], IF result[p] = "error" THEN "delivery_error" ELSE "sent")
  /\ End(p)
  /\ UNCHANGED <<about, demo, recipients, choices, rfq, history>>

\* Mutant: the answer of the provider is stored as the status.
RecordAnswer(p) ==
  /\ pc[p] = "record" /\ kind[p] \in {"conversation", "mail", "draft"}
  /\ SetLetter(job[p], result[p])
  /\ End(p)
  /\ UNCHANGED <<about, demo, recipients, choices, rfq, history>>

\* send_conversation_message, send_mailbox_message, send_email_draft
RecordLetter(p) ==
  /\ pc[p] = "record" /\ kind[p] \in {"conversation", "mail", "draft"}
  /\ SetLetter(job[p], IF result[p] = "ok" THEN "sent" ELSE "delivery_error")
  /\ End(p)
  /\ UNCHANGED <<about, demo, recipients, choices, rfq, history>>

NextRecipient(p) ==
  /\ Goto(p, "loop")
  /\ job' = [job EXCEPT ![p] = NoLetter]
  /\ target' = [target EXCEPT ![p] = Nowhere]
  /\ result' = [result EXCEPT ![p] = "none"]
  /\ UNCHANGED <<kind, scope, queue, todo, pend, seen>>

\* dispatch: the statuses of the recipient and of the attempt are one commit.
\* If the recipient is gone, or the error is an unforeseen one, the request
\* ends and the attempt stays as it is.
RecordDispatch(p) ==
  /\ pc[p] = "record" /\ kind[p] = "dispatch"
  /\ \/ /\ result[p] # "raised" /\ Live(job[p])
        /\ SetLetter(job[p], IF result[p] = "ok" THEN "sent" ELSE "delivery_error")
        /\ SetRecipients({job[p]}, IF result[p] = "ok" THEN "sent" ELSE "error")
        /\ any' = [any EXCEPT ![p] = @ \/ result[p] = "ok"]
        /\ NextRecipient(p)
     \/ (result[p] = "raised" \/ ~Live(job[p])) /\ End(p) /\ UNCHANGED <<letter, rcpt>>
  /\ UNCHANGED <<about, demo, nextId, place, choices, rfq, history>>

\* dispatch_combined_message, for itself and for the automatic dispatch
RecordCombined(p) ==
  /\ pc[p] = "record" /\ kind[p] \in {"combined", "auto"}
  /\ LET R == IF kind[p] = "auto" THEN {job[p]} ELSE queue[p]
         pls == IF kind[p] = "auto" THEN {target[p]} ELSE scope[p]
     IN \/ /\ result[p] # "raised" /\ \A i \in R : Live(i)
           /\ \/ /\ result[p] = "error"
                 /\ SetLetter(job[p], "delivery_error")
                 /\ SetRecipients(R, "error")
                 /\ UNCHANGED rfq
              \/ /\ result[p] # "error"
                 /\ SetLetter(job[p], IF result[p] = "ok" THEN "sent" ELSE "demo")
                 /\ SetRecipients(R, "sent")
                 /\ MarkSent(p, {pl[1] : pl \in pls})
           /\ IF kind[p] = "auto" THEN NextRecipient(p) /\ UNCHANGED any ELSE End(p)
        \/ /\ result[p] = "raised" \/ \E i \in R : ~Live(i)
           /\ End(p)
           /\ UNCHANGED <<letter, rcpt, rfq>>
  /\ UNCHANGED <<about, demo, nextId, place, choices, history>>

----------------------------------------------------------------------------
(* What people do to recipients and RFQs.                                  *)

\* select_recipients
Select(pl) ==
  /\ RecipientOf(pl) = {} /\ pl \notin excluded /\ nextId <= MaxIds
  /\ AddRecipient(pl)
  /\ UNCHANGED <<rows, choices, rfq, thread, history>>

\* remove_recipient
Remove(i) ==
  /\ rcpt[i] = "queued"
  /\ SetRecipients({i}, "removed")
  /\ UNCHANGED <<rows, nextId, place, choices, rfq, thread, history>>

\* set_supplier_exclusion: the queued recipients go with the exclusion.
SetExclusion(pl) ==
  /\ \/ /\ pl \notin excluded
        /\ excluded' = excluded \cup {pl}
        /\ SetRecipients(QueuedIn({pl}), "removed")
     \/ pl \in excluded /\ excluded' = excluded \ {pl} /\ UNCHANGED rcpt
  /\ UNCHANGED <<rows, nextId, place, decision, rfq, thread, history>>

\* The purchase decision is saved, or changed: drafts to other suppliers are
\* cancelled.
Decide(r, s) ==
  /\ decision[r] # s
  /\ decision' = [decision EXCEPT ![r] = s]
  /\ letter' = [l \in Letters |->
       IF letter[l] = "draft" /\ \E pl \in about[l] : pl[1] = r /\ pl[2] # s
       THEN "cancelled" ELSE letter[l]]
  /\ UNCHANGED <<about, demo, recipients, excluded, rfq, thread, history>>

\* An answer of a supplier is taken in.
ReplyArrives(r) ==
  /\ rfq[r] # "later"
  /\ rfq' = [rfq EXCEPT ![r] = "later"]
  /\ UNCHANGED <<rows, recipients, choices, thread, history>>

----------------------------------------------------------------------------

Begins(p) ==
  \/ \E k \in ClientKeys :
       \/ \E pl \in Places : ConversationBegins(p, k, pl)
       \/ \E pls \in {{}} \cup {{pl} : pl \in Places} : MailBegins(p, k, pls)
       \/ \E s \in Suppliers, R \in SUBSET Rfqs : CombinedBegins(p, k, s, R)
  \/ \E d \in Drafts : DraftBegins(p, d)
  \/ \E r \in Rfqs : DispatchBegins(p, r) \/ AutoBegins(p, r)

Loops(p) ==
  \/ \E i \in Ids : DispatchSkips(p, i) \/ DispatchPicks(p, i)
  \/ DispatchEnds(p)
  \/ \E s \in Suppliers : AutoSkips(p, s)
  \/ \E pl \in Places : AutoPicks(p, pl)
  \/ AutoEnds(p)

Sends(p) ==
  \/ InsertKeyed(p) \/ InsertForRecipient(p) \/ InsertAuto(p) \/ TakeDraft(p)
  \/ CallProvider(p)
  \/ RecordLetter(p) \/ RecordDispatch(p) \/ RecordCombined(p)

People ==
  \/ \E pl \in Places : Select(pl) \/ SetExclusion(pl)
  \/ \E i \in Ids : Remove(i)
  \/ \E r \in Rfqs : DispatchDemo(r) \/ ReplyArrives(r)
  \/ \E r \in Rfqs, s \in Suppliers \cup {Other} : Decide(r, s)

Move(A) == moves < MaxMoves /\ moves' = moves + 1 /\ A

Next ==
  \/ Move(People)
  \/ \E p \in Procs : Move(Begins(p))
  \/ \E p \in Procs : (Loops(p) \/ Sends(p) \/ Die(p)) /\ UNCHANGED moves

Spec == Init /\ [][Next]_vars

----------------------------------------------------------------------------
(* Properties.                                                             *)

RowTypes ==
  /\ letter \in [Letters -> {"none", "draft", "cancelled", "sending", "sent", "demo",
                           "delivery_error"}]
  /\ about \in [Letters -> SUBSET Places]
  /\ demo \subseteq Places
  /\ calls \in [Letters -> Nat]
  /\ accepted \subseteq Letters

RecipientTypes ==
  /\ nextId \in 1 .. MaxIds + 1
  /\ place \in [Ids -> Places \cup {Nowhere}]
  /\ rcpt \in [Ids -> {"none", "queued", "sent", "error", "removed"}]
  /\ excluded \subseteq Places
  /\ decision \in [Rfqs -> Suppliers \cup {Other, NoSupplier}]
  /\ rfq \in [Rfqs -> RfqStatuses]
  /\ auto \subseteq Ids

ThreadTypes ==
  /\ pc \in [Procs -> {"idle", "insert", "take", "loop", "call", "record"}]
  /\ kind \in [Procs -> {"none", "conversation", "mail", "draft", "combined", "dispatch", "auto"}]
  /\ job \in [Procs -> Letters \cup {NoLetter}]
  /\ scope \in [Procs -> SUBSET Places]
  /\ target \in [Procs -> Places \cup {Nowhere}]
  /\ queue \in [Procs -> SUBSET Ids]
  /\ todo \in [Procs -> SUBSET Suppliers]
  /\ pend \in [Procs -> [Ids -> {"none", "sent", "error"}]]
  /\ any \in [Procs -> BOOLEAN]
  /\ seen \in [Procs -> [Rfqs -> RfqStatuses]]
  /\ result \in [Procs -> {"none", "ok", "error", "raised", "demo"}]

\* Every column and every local variable holds a value of its type.
TypeOK == RowTypes /\ RecipientTypes /\ ThreadTypes /\ moves \in 0 .. MaxMoves

\* The provider is called once at most for an idempotency key, whatever
\* repeats the request and wherever a process dies.
AtMostOnce == \A k \in Keyed : calls[k] <= 1

\* A row says sent, and a recipient says sent, only when the provider has
\* taken a letter to it, or in the demo mode.
SentIsTrue ==
  /\ \A l \in Letters : letter[l] = "sent" => l \in accepted
  /\ \A i \in Ids : rcpt[i] = "sent" =>
       \/ place[i] \in demo
       \/ \E l \in Letters : place[i] \in about[l] /\ (l \in accepted \/ letter[l] = "demo")

\* Several searches may end for one RFQ, and a zombie among them: a company
\* gets a second automatic letter only if a person took the recipient of the
\* first one off the list.
AutoWritesOnce ==
  \A i, j \in auto : i < j /\ place[i] = place[j] => rcpt[i] = "removed"

\* The rows with a key behave as attempts that are made once.
Attempt(k) == CASE letter[k] = "none" -> "open"
                [] letter[k] = "sending" -> "pending"
                [] letter[k] = "sent" -> "done"
                [] OTHER -> "void"

Once == INSTANCE SendOnce WITH
  Attempts <- Keyed,
  state <- [k \in Keyed |-> Attempt(k)],
  sends <- [k \in Keyed |-> calls[k]]

ImplementsSendOnce == Once!Spec

\* A draft is sent once at most (docstring of send_email_draft).
DraftSentOnce == \A d \in Drafts : calls[d] <= 1

\* No letter to a company begins after the company was excluded from the RFQ
\* (comment in set_supplier_exclusion).
ExcludedNotWritten ==
  [][\A i \in Ids : calls'[i] > calls[i] => place[i] \notin excluded]_vars
=============================================================================
