----------------------- MODULE MessageDeliveryProofs -----------------------
(***************************************************************************)
(* Outbound messages, for any number of threads, suppliers, RFQs, keys and *)
(* requests: an attempt with an idempotency key calls the provider once at *)
(* most, and behaves as SendOnce says; what a row says of a letter is      *)
(* true; and the automatic dispatch writes to a company once.              *)
(***************************************************************************)
EXTENDS MessageDelivery, TLAPS

\* A recipient exists from the number it got; before, nothing has its number.
Numbered ==
  \A i \in Ids :
    IF i < nextId THEN place[i] \in Places ELSE rcpt[i] = "none" /\ letter[i] = "none"

\* The provider is not called for what is not in the table.
Counted == \A k \in Keyed : calls[k] <= 1 /\ (letter[k] = "none" => calls[k] = 0)

\* What a thread works on, at each place of its code.
Working(p) ==
  /\ \A i \in queue[p] : i < nextId
  /\ pc[p] = "insert" /\ kind[p] \in {"conversation", "mail", "combined"} =>
       job[p] \in ClientKeys
  /\ pc[p] = "insert" /\ kind[p] = "dispatch" => job[p] \in Ids /\ job[p] < nextId
  /\ pc[p] = "insert" /\ kind[p] \in {"dispatch", "auto"} => target[p] \in Places
  /\ pc[p] = "take" => job[p] \in Drafts
  /\ pc[p] \in {"call", "record"} => job[p] \in Letters

\* Between its INSERT and its last commit an attempt with a key belongs to
\* one thread, and its row says so.
Owned(p) ==
  job[p] \in Keyed =>
    /\ pc[p] = "call" => letter[job[p]] = "sending" /\ calls[job[p]] = 0
    /\ pc[p] = "record" =>
         \/ letter[job[p]] = "sending" /\ calls[job[p]] = 1
         \/ letter[job[p]] = "demo" /\ result[p] = "demo"

Apart ==
  \A p, q \in Procs :
    p # q /\ {pc[p], pc[q]} \subseteq {"call", "record"} /\ job[p] = job[q]
      => job[p] \notin Keyed

DeliveryInv ==
  /\ TypeOK /\ Numbered /\ Counted
  /\ \A p \in Procs : Working(p) /\ Owned(p)
  /\ Apart

-----------------------------------------------------------------------------
(* Types. *)

Typed == RowTypes /\ RecipientTypes /\ ThreadTypes

LEMMA EndTypes ==
  ASSUME ThreadTypes, NEW p \in Procs, End(p) PROVE ThreadTypes'
  BY DEF ThreadTypes, End, Goto, NothingPending, RfqStatuses

LEMMA StartTypes ==
  ASSUME Typed, NEW p \in Procs, NEW k, NEW c, NEW l \in Letters \cup {NoLetter},
         NEW w \in SUBSET Places, Start(p, k, c, l, w),
         k \in {"conversation", "mail", "draft", "combined", "dispatch", "auto"},
         c \in {"insert", "take", "loop"},
         queue' \in [Procs -> SUBSET Ids], todo' \in [Procs -> SUBSET Suppliers]
  PROVE  Typed'
<1>. USE DEF Typed, Start, Goto, rows, recipients, choices, history
<1>1. RowTypes'
  BY DEF RowTypes
<1>2. RecipientTypes'
  BY DEF RecipientTypes
<1>3. ThreadTypes'
  BY DEF ThreadTypes, RecipientTypes
<1>. QED  BY <1>1, <1>2, <1>3

LEMMA BeginTypes ==
  ASSUME Typed, NEW p \in Procs, Begins(p) PROVE Typed'
<1>. USE DEF Keyed, Letters
<1>0. queue \in [Procs -> SUBSET Ids] /\ todo \in [Procs -> SUBSET Suppliers]
  BY DEF Typed, ThreadTypes
<1>1. ASSUME NEW k \in ClientKeys, NEW pl \in Places, ConversationBegins(p, k, pl) PROVE Typed'
  BY <1>0, <1>1, StartTypes DEF ConversationBegins
<1>2. ASSUME NEW k \in ClientKeys, NEW pls \in SUBSET Places, MailBegins(p, k, pls) PROVE Typed'
  BY <1>0, <1>2, StartTypes DEF MailBegins
<1>3. ASSUME NEW k \in ClientKeys, NEW s \in Suppliers, NEW R \in SUBSET Rfqs,
             CombinedBegins(p, k, s, R)
      PROVE  Typed'
  <2>1. R \X {s} \in SUBSET Places
    BY DEF Places
  <2>2. queue' \in [Procs -> SUBSET Ids] /\ todo' = todo
    BY <1>0, <1>3 DEF CombinedBegins, QueuedIn
  <2>3. Start(p, "combined", "insert", k, R \X {s})
    BY <1>3 DEF CombinedBegins
  <2>. QED  BY <1>0, <2>1, <2>2, <2>3, StartTypes
<1>4. ASSUME NEW d \in Drafts, DraftBegins(p, d) PROVE Typed'
  <2>1. about[d] \in SUBSET Places
    BY DEF Typed, RowTypes
  <2>. QED  BY <1>0, <1>4, <2>1, StartTypes DEF DraftBegins
<1>5. ASSUME NEW r \in Rfqs, DispatchBegins(p, r) PROVE Typed'
  <2>1. {r} \X Suppliers \in SUBSET Places
    BY DEF Places
  <2>2. queue' \in [Procs -> SUBSET Ids] /\ todo' = todo
    BY <1>0, <1>5 DEF DispatchBegins, QueuedIn
  <2>3. Start(p, "dispatch", "loop", NoLetter, {r} \X Suppliers)
    BY <1>5 DEF DispatchBegins
  <2>. QED  BY <1>0, <2>1, <2>2, <2>3, StartTypes
<1>6. ASSUME NEW r \in Rfqs, AutoBegins(p, r) PROVE Typed'
  <2>1. {r} \X Suppliers \in SUBSET Places
    BY DEF Places
  <2>2. Start(p, "auto", "loop", NoLetter, {r} \X Suppliers)
    BY <1>6 DEF AutoBegins
  <2>3. queue' = queue /\ todo' \in [Procs -> SUBSET Suppliers]
    BY <1>0, <1>6 DEF AutoBegins
  <2>. QED  BY <1>0, <2>1, <2>2, <2>3, StartTypes
<1>7. \A pls \in {{}} \cup {{pl} : pl \in Places} : pls \in SUBSET Places
  OBVIOUS
<1>. QED  BY <1>1, <1>2, <1>3, <1>4, <1>5, <1>6, <1>7 DEF Begins

LEMMA FlushTypes ==
  ASSUME Typed, NEW p \in Procs, Flush(p)
  PROVE  rcpt' \in [Ids -> {"none", "queued", "sent", "error", "removed"}]
<1>1. \A i \in Ids : pend[p][i] \in {"none", "sent", "error"}
  BY DEF Typed, ThreadTypes
<1>2. \A i \in Ids : rcpt'[i] \in {"none", "queued", "sent", "error", "removed"}
  BY <1>1 DEF Flush, Typed, RecipientTypes
<1>3. rcpt' = [i \in Ids |-> rcpt'[i]]
  BY DEF Flush
<1>. QED  BY <1>2, <1>3

LEMMA LoopTypes ==
  ASSUME Typed, NEW p \in Procs, Loops(p) PROVE Typed'
<1>. USE DEF Typed, Goto, rows, recipients, choices, history
<1>1. ASSUME NEW i \in Ids, DispatchSkips(p, i) PROVE Typed'
  <2>1. RowTypes' /\ RecipientTypes'
    BY <1>1 DEF DispatchSkips, RowTypes, RecipientTypes
  <2>2. pend' \in [Procs -> [Ids -> {"none", "sent", "error"}]]
    <3>1. PICK status \in {"sent", "error"} : pend' = [pend EXCEPT ![p][i] = status]
      BY <1>1 DEF DispatchSkips
    <3>. QED  BY <3>1 DEF ThreadTypes
  <2>3. any' \in [Procs -> BOOLEAN]
    <3>1. PICK b \in BOOLEAN : any' = [any EXCEPT ![p] = b] \/ any' = any
      BY <1>1 DEF DispatchSkips, ThreadTypes
    <3>. QED  BY <3>1 DEF ThreadTypes
  <2>4. ThreadTypes'
    BY <1>1, <2>2, <2>3 DEF DispatchSkips, ThreadTypes
  <2>. QED  BY <2>1, <2>4
<1>2. ASSUME NEW i \in Ids, DispatchPicks(p, i) PROVE Typed'
  <2>1. RowTypes' /\ RecipientTypes'
    BY <1>2 DEF DispatchPicks, RowTypes, RecipientTypes
  <2>2. ThreadTypes'
    BY <1>2 DEF DispatchPicks, ThreadTypes, RecipientTypes, Letters, Keyed
  <2>. QED  BY <2>1, <2>2
<1>3. ASSUME DispatchEnds(p) PROVE Typed'
  <2>1. RowTypes' /\ ThreadTypes'
    BY <1>3, EndTypes DEF DispatchEnds, RowTypes
  <2>2. rcpt' \in [Ids -> {"none", "queued", "sent", "error", "removed"}]
    BY <1>3, FlushTypes DEF DispatchEnds, RecipientTypes
  <2>3. rfq' \in [Rfqs -> RfqStatuses]
    BY <1>3 DEF DispatchEnds, MarkSent, RfqStatuses, RecipientTypes
  <2>. QED  BY <1>3, <2>1, <2>2, <2>3 DEF DispatchEnds, RecipientTypes
<1>4. ASSUME NEW s \in Suppliers, AutoSkips(p, s) PROVE Typed'
  <2>1. RowTypes' /\ RecipientTypes'
    BY <1>4 DEF AutoSkips, RowTypes, RecipientTypes
  <2>2. ThreadTypes'
    BY <1>4 DEF AutoSkips, ThreadTypes
  <2>. QED  BY <2>1, <2>2
<1>5. ASSUME NEW pl \in Places, AutoPicks(p, pl) PROVE Typed'
  <2>1. RowTypes' /\ RecipientTypes'
    BY <1>5 DEF AutoPicks, RowTypes, RecipientTypes
  <2>2. ThreadTypes'
    BY <1>5 DEF AutoPicks, ThreadTypes
  <2>. QED  BY <2>1, <2>2
<1>6. ASSUME AutoEnds(p) PROVE Typed'
  BY <1>6, EndTypes DEF AutoEnds, RowTypes, RecipientTypes
<1>. QED  BY <1>1, <1>2, <1>3, <1>4, <1>5, <1>6 DEF Loops

LEMMA SendTypes ==
  ASSUME DeliveryInv, NEW p \in Procs, Sends(p) PROVE Typed'
<1>. USE DEF Typed, Goto, rows, recipients, choices, history
<1>0. /\ RowTypes /\ RecipientTypes /\ ThreadTypes /\ Working(p)
  BY DEF DeliveryInv, TypeOK
<1>1. ASSUME InsertKeyed(p) PROVE Typed'
  <2>1. job[p] \in Letters /\ scope[p] \in SUBSET Places
    BY <1>0, <1>1 DEF InsertKeyed, Working, Letters, Keyed, ThreadTypes
  <2>2. RowTypes' /\ RecipientTypes'
    BY <1>0, <1>1, <2>1 DEF InsertKeyed, InsertRow, RowTypes, RecipientTypes
  <2>3. ThreadTypes'
    BY <1>0, <1>1, EndTypes DEF InsertKeyed, ThreadTypes
  <2>. QED  BY <2>2, <2>3
<1>2. ASSUME InsertForRecipient(p) PROVE Typed'
  <2>1. job[p] \in Letters /\ {target[p]} \in SUBSET Places
    BY <1>0, <1>2 DEF InsertForRecipient, Working, Letters, Keyed
  <2>2. RowTypes'
    BY <1>0, <1>2, <2>1 DEF InsertForRecipient, InsertRow, RowTypes
  <2>3. RecipientTypes'
    BY <1>0, <1>2, FlushTypes DEF InsertForRecipient, RecipientTypes
  <2>4. CASE End(p)
    BY <1>0, <2>2, <2>3, <2>4, EndTypes
  <2>5. CASE ~End(p)
    <3>1. /\ pend' = [pend EXCEPT ![p] = NothingPending]
          /\ pc' = [pc EXCEPT ![p] = "call"]
          /\ UNCHANGED <<kind, job, scope, target, queue, todo, any, seen, result>>
      BY <1>2, <2>5 DEF InsertForRecipient
    <3>2. NothingPending \in [Ids -> {"none", "sent", "error"}]
      BY DEF NothingPending
    <3>3. ThreadTypes'
      BY <1>0, <3>1, <3>2 DEF ThreadTypes
    <3>. QED  BY <2>2, <2>3, <3>3
  <2>. QED  BY <2>4, <2>5
<1>3. ASSUME InsertAuto(p) PROVE Typed'
  <2>1. {target[p]} \in SUBSET Places
    BY <1>0, <1>3 DEF InsertAuto, Working
  <2>2. nextId <= MaxIds => nextId \in Ids /\ nextId \in Letters
    BY <1>0 DEF RecipientTypes, Ids, Letters, Keyed
  <2>3. RowTypes'
    BY <1>0, <1>3, <2>1, <2>2 DEF InsertAuto, InsertRow, RowTypes
  <2>4. CASE End(p) /\ UNCHANGED <<recipients, auto>>
    BY <1>0, <1>3, <2>3, <2>4, EndTypes DEF InsertAuto, RecipientTypes
  <2>5. CASE ~(End(p) /\ UNCHANGED <<recipients, auto>>)
    <3>1. /\ nextId <= MaxIds
          /\ AddRecipient(target[p])
          /\ job' = [job EXCEPT ![p] = nextId]
          /\ auto' = auto \cup {nextId}
          /\ pc' \in {[pc EXCEPT ![p] = "call"], [pc EXCEPT ![p] = "record"]}
          /\ result' \in {result, [result EXCEPT ![p] = "demo"]}
          /\ UNCHANGED <<kind, scope, target, queue, todo, pend, any, seen, choices, rfq>>
      BY <1>3, <2>5 DEF InsertAuto
    <3>2. target[p] \in Places
      BY <1>0, <1>3 DEF InsertAuto, Working
    <3>3. nextId' \in 1 .. MaxIds + 1
      BY <1>0, <3>1, DeliveryAssumption DEF AddRecipient, RecipientTypes
    <3>4. RecipientTypes'
      BY <1>0, <2>2, <3>1, <3>2, <3>3 DEF AddRecipient, RecipientTypes
    <3>5. pc' \in [Procs -> {"idle", "insert", "take", "loop", "call", "record"}]
      BY <1>0, <3>1 DEF ThreadTypes
    <3>6. result' \in [Procs -> {"none", "ok", "error", "raised", "demo"}]
      BY <1>0, <3>1 DEF ThreadTypes
    <3>7. job' \in [Procs -> Letters \cup {NoLetter}]
      BY <1>0, <2>2, <3>1 DEF ThreadTypes
    <3>8. ThreadTypes'
      BY <1>0, <3>1, <3>5, <3>6, <3>7 DEF ThreadTypes
    <3>. QED  BY <2>3, <3>4, <3>8
  <2>. QED  BY <2>4, <2>5
<1>4. ASSUME TakeDraft(p) PROVE Typed'
  <2>1. job[p] \in Letters
    BY <1>0, <1>4 DEF TakeDraft, Working, Letters
  <2>2. RowTypes' /\ RecipientTypes'
    BY <1>0, <1>4, <2>1 DEF TakeDraft, RowTypes, RecipientTypes
  <2>3. ThreadTypes'
    BY <1>0, <1>4 DEF TakeDraft, ThreadTypes
  <2>. QED  BY <2>2, <2>3
<1>5. ASSUME CallProvider(p) PROVE Typed'
  <2>1. job[p] \in Letters
    BY <1>0, <1>5 DEF CallProvider, Working
  <2>2. RowTypes' /\ RecipientTypes'
    BY <1>0, <1>5, <2>1 DEF CallProvider, RowTypes, RecipientTypes
  <2>3. ThreadTypes'
    BY <1>0, <1>5 DEF CallProvider, ThreadTypes
  <2>. QED  BY <2>2, <2>3
<1>6. ASSUME RecordLetter(p) PROVE Typed'
  <2>1. job[p] \in Letters
    BY <1>0, <1>6 DEF RecordLetter, Working
  <2>2. RowTypes' /\ RecipientTypes'
    BY <1>0, <1>6, <2>1 DEF RecordLetter, SetLetter, RowTypes, RecipientTypes
  <2>. QED  BY <1>0, <1>6, <2>2, EndTypes DEF RecordLetter
<1>7. ASSUME NextRecipient(p) PROVE
        /\ pc' \in [Procs -> {"idle", "insert", "take", "loop", "call", "record"}]
        /\ job' \in [Procs -> Letters \cup {NoLetter}]
        /\ target' \in [Procs -> Places \cup {Nowhere}]
        /\ result' \in [Procs -> {"none", "ok", "error", "raised", "demo"}]
        /\ UNCHANGED <<kind, scope, queue, todo, pend, seen>>
  BY <1>0, <1>7 DEF NextRecipient, ThreadTypes
<1>8. ASSUME RecordDispatch(p) PROVE Typed'
  <2>1. job[p] \in Letters
    BY <1>0, <1>8 DEF RecordDispatch, Working
  <2>2. RowTypes' /\ RecipientTypes'
    BY <1>0, <1>8, <2>1 DEF RecordDispatch, SetLetter, SetRecipients, RowTypes, RecipientTypes
  <2>3. CASE NextRecipient(p)
    <3>1. PICK b \in BOOLEAN : any' = [any EXCEPT ![p] = b]
      BY <1>0, <1>8, <2>3, EndTypes DEF RecordDispatch, ThreadTypes, NextRecipient, End
    <3>2. any' \in [Procs -> BOOLEAN]
      BY <1>0, <3>1 DEF ThreadTypes
    <3>. QED  BY <1>0, <1>7, <2>2, <2>3, <3>2 DEF ThreadTypes
  <2>. QED  BY <1>0, <1>8, <2>2, <2>3, EndTypes DEF RecordDispatch
<1>9. ASSUME RecordCombined(p) PROVE Typed'
  <2>1. job[p] \in Letters
    BY <1>0, <1>9 DEF RecordCombined, Working
  <2>2. RowTypes'
    BY <1>0, <1>9, <2>1 DEF RecordCombined, SetLetter, RowTypes
  <2>3. rcpt' \in [Ids -> {"none", "queued", "sent", "error", "removed"}]
    <3>. DEFINE R == IF kind[p] = "auto" THEN {job[p]} ELSE queue[p]
    <3>1. UNCHANGED rcpt \/ SetRecipients(R, "error") \/ SetRecipients(R, "sent")
      BY <1>9 DEF RecordCombined
    <3>. QED  BY <1>0, <3>1 DEF SetRecipients, RecipientTypes
  <2>4. rfq' \in [Rfqs -> RfqStatuses]
    BY <1>0, <1>9 DEF RecordCombined, MarkSent, RecipientTypes, RfqStatuses
  <2>5. RecipientTypes'
    BY <1>0, <1>9, <2>3, <2>4 DEF RecordCombined, RecipientTypes
  <2>6. ThreadTypes'
    BY <1>0, <1>7, <1>9, EndTypes DEF RecordCombined, ThreadTypes
  <2>. QED  BY <2>2, <2>5, <2>6
<1>. QED  BY <1>1, <1>2, <1>3, <1>4, <1>5, <1>6, <1>8, <1>9 DEF Sends

LEMMA PeopleTypes ==
  ASSUME Typed, Numbered, People PROVE Typed'
<1>. USE DEF Typed, rows, recipients, choices, history, thread
<1>1. ASSUME NEW pl \in Places, Select(pl) PROVE Typed'
  BY <1>1, DeliveryAssumption
  DEF Select, AddRecipient, RowTypes, RecipientTypes, ThreadTypes, Ids
<1>2. ASSUME NEW i \in Ids, Remove(i) PROVE Typed'
  BY <1>2 DEF Remove, SetRecipients, RowTypes, RecipientTypes, ThreadTypes
<1>3. ASSUME NEW pl \in Places, SetExclusion(pl) PROVE Typed'
  BY <1>3 DEF SetExclusion, SetRecipients, RowTypes, RecipientTypes, ThreadTypes
<1>4. ASSUME NEW r \in Rfqs, DispatchDemo(r) PROVE Typed'
  <2>1. PICK Q \in SUBSET Ids : /\ \A i \in Q : rcpt[i] = "queued"
                                /\ rcpt' = [i \in Ids |-> IF i \in Q THEN "sent" ELSE rcpt[i]]
                                /\ demo' = demo \cup {place[i] : i \in Q}
    BY <1>4 DEF DispatchDemo, QueuedIn
  <2>2. \A i \in Q : place[i] \in Places
    BY <2>1 DEF Numbered
  <2>3. demo' \subseteq Places
    BY <2>1, <2>2 DEF RowTypes
  <2>5. RowTypes'
    BY <1>4, <2>3 DEF DispatchDemo, RowTypes
  <2>4. RecipientTypes'
    BY <1>4, <2>1 DEF DispatchDemo, RecipientTypes, RfqStatuses
  <2>. QED  BY <1>4, <2>4, <2>5 DEF DispatchDemo, ThreadTypes
<1>5. ASSUME NEW r \in Rfqs, ReplyArrives(r) PROVE Typed'
  BY <1>5 DEF ReplyArrives, RowTypes, RecipientTypes, ThreadTypes, RfqStatuses
<1>6. ASSUME NEW r \in Rfqs, NEW s \in Suppliers \cup {Other}, Decide(r, s) PROVE Typed'
  BY <1>6 DEF Decide, RowTypes, RecipientTypes, ThreadTypes
<1>. QED  BY <1>1, <1>2, <1>3, <1>4, <1>5, <1>6 DEF People

LEMMA NextTypes == DeliveryInv /\ [Next]_vars => TypeOK'
<1>. SUFFICES ASSUME DeliveryInv, [Next]_vars PROVE TypeOK'
  OBVIOUS
<1>0. Typed /\ Numbered /\ TypeOK
  BY DEF DeliveryInv, TypeOK, Typed
<1>1. CASE Move(People)
  BY <1>0, <1>1, PeopleTypes, DeliveryAssumption DEF Move, Typed, TypeOK
<1>2. ASSUME NEW p \in Procs, Move(Begins(p)) PROVE TypeOK'
  BY <1>0, <1>2, BeginTypes, DeliveryAssumption DEF Move, Typed, TypeOK
<1>3. ASSUME NEW p \in Procs, Loops(p) \/ Sends(p), UNCHANGED moves PROVE TypeOK'
  BY <1>0, <1>3, LoopTypes, SendTypes DEF Typed, TypeOK
<1>4. ASSUME NEW p \in Procs, Die(p), UNCHANGED moves PROVE TypeOK'
  BY <1>0, <1>4, EndTypes
  DEF Die, TypeOK, RowTypes, RecipientTypes, rows, recipients, choices, history
<1>5. CASE UNCHANGED vars
  BY <1>0, <1>5
  DEF vars, TypeOK, RowTypes, RecipientTypes, ThreadTypes, rows, recipients, choices, history, thread
<1>. QED  BY <1>1, <1>2, <1>3, <1>4, <1>5 DEF Next

-----------------------------------------------------------------------------
(* The recipients' numbers and the count of calls. *)

Keeps ==
  /\ nextId' = nextId /\ place' = place
  /\ \A i \in Ids : rcpt[i] = "none" => rcpt'[i] = "none"
  /\ \A k \in Keyed : letter[k] = "none" => letter'[k] = "none"
  /\ \A k \in Keyed : letter'[k] = "none" => letter[k] = "none"

LEMMA KeepsNumbers == ASSUME Numbered, Keeps PROVE Numbered'
  BY DEF Numbered, Keeps, Keyed

LEMMA KeepsCounts == ASSUME Counted, Keeps, UNCHANGED calls PROVE Counted'
  BY DEF Counted, Keeps

\* The row of an owned attempt is there.
LEMMA OwnedRow ==
  ASSUME DeliveryInv, NEW p \in Procs, pc[p] \in {"call", "record"}, job[p] \in Keyed
  PROVE  letter[job[p]] # "none" /\ (job[p] \in Ids => job[p] < nextId)
<1>1. Owned(p) /\ Numbered
  BY DEF DeliveryInv
<1>2. letter[job[p]] # "none"
  BY <1>1 DEF Owned
<1>. QED  BY <1>1, <1>2 DEF Numbered

LEMMA FlushKeeps ==
  ASSUME DeliveryInv, NEW p \in Procs, Flush(p)
  PROVE  \A i \in Ids : rcpt[i] = "none" => rcpt'[i] = "none"
  BY DEF Flush, CanFlush, Pending, Live

LEMMA BegunKeeps ==
  ASSUME DeliveryInv, NEW p \in Procs, Begins(p) \/ Loops(p) \/ Die(p)
  PROVE  Keeps /\ UNCHANGED <<letter, calls>>
<1>. USE DEF rows, recipients, choices, history, Keeps
<1>1. CASE Begins(p)
  BY <1>1 DEF Begins, ConversationBegins, MailBegins, CombinedBegins, DraftBegins, DispatchBegins,
              AutoBegins, Start
<1>2. CASE Loops(p) /\ ~DispatchEnds(p)
  BY <1>2 DEF Loops, DispatchSkips, DispatchPicks, AutoSkips, AutoPicks, AutoEnds
<1>3. CASE DispatchEnds(p)
  BY <1>3, FlushKeeps DEF DispatchEnds
<1>4. CASE Die(p)
  BY <1>4 DEF Die
<1>. QED  BY <1>1, <1>2, <1>3, <1>4

LEMMA RecordKeeps ==
  ASSUME DeliveryInv, NEW p \in Procs,
         RecordLetter(p) \/ RecordDispatch(p) \/ RecordCombined(p)
  PROVE  Keeps /\ UNCHANGED calls
<1>. USE DEF rows, recipients, choices, history, Keeps
<1>1. /\ letter \in [Letters -> {"none", "draft", "cancelled", "sending", "sent", "demo",
                                 "delivery_error"}]
      /\ Keyed \subseteq Letters
  BY DEF DeliveryInv, TypeOK, RowTypes, Letters
<1>2. job[p] \in Keyed => letter[job[p]] # "none"
  BY OwnedRow DEF RecordLetter, RecordDispatch, RecordCombined
<1>3. /\ UNCHANGED <<nextId, place, calls>>
      /\ \/ UNCHANGED letter
         \/ SetLetter(job[p], "sent") \/ SetLetter(job[p], "delivery_error")
         \/ SetLetter(job[p], "demo")
  BY DEF RecordLetter, RecordDispatch, RecordCombined
<1>4. \A k \in Keyed : letter[k] = "none" <=> letter'[k] = "none"
  BY <1>1, <1>2, <1>3 DEF SetLetter
<1>5. \A i \in Ids : rcpt[i] = "none" => rcpt'[i] = "none"
  <2>1. CASE RecordLetter(p)
    BY <2>1 DEF RecordLetter
  <2>2. CASE RecordDispatch(p)
    BY <2>2 DEF RecordDispatch, SetRecipients, Live
  <2>3. CASE RecordCombined(p)
    <3>. DEFINE R == IF kind[p] = "auto" THEN {job[p]} ELSE queue[p]
    <3>1. CASE UNCHANGED rcpt
      BY <3>1
    <3>2. CASE ~UNCHANGED rcpt
      <4>1. SetRecipients(R, "error") \/ SetRecipients(R, "sent")
        BY <2>3, <3>2 DEF RecordCombined
      <4>2. \A i \in R : Live(i)
        BY <2>3, <3>2 DEF RecordCombined
      <4>. QED  BY <4>1, <4>2 DEF SetRecipients, Live
    <3>. QED  BY <3>1, <3>2
  <2>. QED  BY <2>1, <2>2, <2>3
<1>. QED  BY <1>3, <1>4, <1>5

LEMMA PeopleKeep ==
  ASSUME DeliveryInv, People, UNCHANGED nextId
  PROVE  Keeps /\ UNCHANGED calls
<1>. USE DEF rows, recipients, choices, history, Keeps
<1>0. nextId \in Nat
  BY DEF DeliveryInv, TypeOK, RecipientTypes
<1>1. ASSUME NEW pl \in Places, Select(pl) PROVE FALSE
  BY <1>0, <1>1 DEF Select, AddRecipient
<1>2. ASSUME NEW i \in Ids, Remove(i) PROVE Keeps /\ UNCHANGED calls
  BY <1>2 DEF Remove, SetRecipients
<1>3. ASSUME NEW pl \in Places, SetExclusion(pl) PROVE Keeps /\ UNCHANGED calls
  BY <1>3 DEF SetExclusion, SetRecipients, QueuedIn
<1>4. ASSUME NEW r \in Rfqs, DispatchDemo(r) PROVE Keeps /\ UNCHANGED calls
  BY <1>4 DEF DispatchDemo, QueuedIn
<1>5. ASSUME NEW r \in Rfqs, ReplyArrives(r) PROVE Keeps /\ UNCHANGED calls
  BY <1>5 DEF ReplyArrives
<1>6. ASSUME NEW r \in Rfqs, NEW s \in Suppliers \cup {Other}, Decide(r, s)
      PROVE  Keeps /\ UNCHANGED calls
  BY <1>6 DEF Decide, Letters
<1>. QED  BY <1>1, <1>2, <1>3, <1>4, <1>5, <1>6 DEF People

-----------------------------------------------------------------------------
(* The threads. *)

\* A step of one thread leaves the others, and what they own, alone.
Others(p) ==
  \A q \in Procs \ {p} :
    /\ pc'[q] = pc[q] /\ kind'[q] = kind[q] /\ job'[q] = job[q]
    /\ target'[q] = target[q] /\ queue'[q] = queue[q] /\ result'[q] = result[q]
    /\ pc[q] \in {"call", "record"} /\ job[q] \in Keyed =>
         letter'[job[q]] = letter[job[q]] /\ calls'[job[q]] = calls[job[q]]

\* The thread itself owns nothing that another one owns.
Alone(p) ==
  pc'[p] \in {"call", "record"} /\ job'[p] \in Keyed =>
    \A q \in Procs \ {p} : pc[q] \in {"call", "record"} => job[q] # job'[p]

ThreadInv == (\A p \in Procs : Working(p) /\ Owned(p)) /\ Apart

LEMMA OneThreadMoves ==
  ASSUME DeliveryInv, TypeOK', NEW p \in Procs, nextId <= nextId', Others(p), Alone(p),
         Working(p)', Owned(p)'
  PROVE  ThreadInv'
<1>0. nextId \in Nat /\ nextId' \in Nat /\ queue \in [Procs -> SUBSET Ids]
  BY DEF DeliveryInv, TypeOK, RecipientTypes, ThreadTypes
<1>1. ASSUME NEW q \in Procs, q # p PROVE Working(q)' /\ Owned(q)'
  <2>1. Working(q) /\ Owned(q)
    BY DEF DeliveryInv
  <2>2. Working(q)'
    BY <1>0, <1>1, <2>1 DEF Working, Others, Ids
  <2>3. Owned(q)'
    BY <1>1, <2>1 DEF Owned, Others
  <2>. QED  BY <2>2, <2>3
<1>2. Apart'
  BY DEF DeliveryInv, Apart, Others, Alone
<1>. QED  BY <1>1, <1>2 DEF ThreadInv

\* A thread that is neither at a call nor after one owns nothing.
LEMMA RestingThread ==
  ASSUME DeliveryInv, TypeOK', NEW p \in Procs, nextId <= nextId', Others(p),
         pc'[p] \notin {"call", "record"}, Working(p)'
  PROVE  ThreadInv'
<1>1. Alone(p) /\ Owned(p)'
  BY DEF Alone, Owned
<1>. QED  BY <1>1, OneThreadMoves

LEMMA EndedThread ==
  ASSUME DeliveryInv, TypeOK', NEW p \in Procs, End(p), nextId <= nextId',
         \A q \in Procs \ {p} : pc[q] \in {"call", "record"} /\ job[q] \in Keyed =>
           letter'[job[q]] = letter[job[q]] /\ calls'[job[q]] = calls[job[q]]
  PROVE  ThreadInv'
<1>0. ThreadTypes
  BY DEF DeliveryInv, TypeOK
<1>1. Others(p)
  BY <1>0 DEF Others, End, Goto, ThreadTypes
<1>2. pc'[p] = "idle" /\ queue'[p] = {}
  BY <1>0 DEF End, Goto, ThreadTypes
<1>3. Working(p)'
  BY <1>2 DEF Working
<1>. QED  BY <1>1, <1>2, <1>3, RestingThread

LEMMA BegunThread ==
  ASSUME DeliveryInv, TypeOK', NEW p \in Procs, Begins(p) PROVE ThreadInv'
<1>0. /\ ThreadTypes /\ Numbered /\ nextId \in Nat
      /\ UNCHANGED <<nextId, letter, calls>>
  BY BegunKeeps DEF DeliveryInv, TypeOK, RecipientTypes, Keeps
<1>. USE <1>0 DEF Start, Goto, ThreadTypes
<1>1. \A i \in Ids : rcpt[i] = "queued" => i < nextId
  BY DEF Numbered
<1>2. ASSUME NEW k \in ClientKeys, NEW pl \in Places, ConversationBegins(p, k, pl)
      PROVE  ThreadInv'
  <2>1. Others(p) /\ pc'[p] = "insert" /\ Working(p)'
    BY <1>2 DEF ConversationBegins, Others, Working, DeliveryInv
  <2>. QED  BY <2>1, RestingThread
<1>3. ASSUME NEW k \in ClientKeys, NEW pls, MailBegins(p, k, pls) PROVE ThreadInv'
  <2>1. Others(p) /\ pc'[p] = "insert" /\ Working(p)'
    BY <1>3 DEF MailBegins, Others, Working, DeliveryInv
  <2>. QED  BY <2>1, RestingThread
<1>4. ASSUME NEW k \in ClientKeys, NEW s \in Suppliers, NEW R \in SUBSET Rfqs,
             CombinedBegins(p, k, s, R)
      PROVE  ThreadInv'
  <2>1. Others(p) /\ pc'[p] = "insert" /\ Working(p)'
    BY <1>1, <1>4 DEF CombinedBegins, QueuedIn, Others, Working
  <2>. QED  BY <2>1, RestingThread
<1>5. ASSUME NEW d \in Drafts, DraftBegins(p, d) PROVE ThreadInv'
  <2>1. Others(p) /\ pc'[p] = "take" /\ Working(p)'
    BY <1>5 DEF DraftBegins, Others, Working, DeliveryInv
  <2>. QED  BY <2>1, RestingThread
<1>6. ASSUME NEW r \in Rfqs, DispatchBegins(p, r) PROVE ThreadInv'
  <2>1. Others(p) /\ pc'[p] = "loop" /\ Working(p)'
    BY <1>1, <1>6 DEF DispatchBegins, QueuedIn, Others, Working
  <2>. QED  BY <2>1, RestingThread
<1>7. ASSUME NEW r \in Rfqs, AutoBegins(p, r) PROVE ThreadInv'
  <2>1. Others(p) /\ pc'[p] = "loop" /\ Working(p)'
    BY <1>7 DEF AutoBegins, Others, Working, DeliveryInv
  <2>. QED  BY <2>1, RestingThread
<1>. QED  BY <1>2, <1>3, <1>4, <1>5, <1>6, <1>7 DEF Begins

LEMMA LoopingThread ==
  ASSUME DeliveryInv, TypeOK', NEW p \in Procs, Loops(p) PROVE ThreadInv'
<1>0. /\ ThreadTypes /\ Working(p) /\ nextId \in Nat
      /\ UNCHANGED <<nextId, letter, calls>>
  BY BegunKeeps DEF DeliveryInv, TypeOK, RecipientTypes, Keeps
<1>. USE <1>0 DEF Goto, ThreadTypes
<1>1. ASSUME NEW i \in Ids, DispatchSkips(p, i) PROVE ThreadInv'
  <2>1. Others(p) /\ pc'[p] = "loop" /\ Working(p)'
    BY <1>1 DEF DispatchSkips, Others, Working
  <2>. QED  BY <2>1, RestingThread
<1>2. ASSUME NEW i \in Ids, DispatchPicks(p, i) PROVE ThreadInv'
  <2>1. Others(p) /\ pc'[p] = "insert" /\ kind'[p] = "dispatch" /\ job'[p] = i
    BY <1>2 DEF DispatchPicks, Others
  <2>2. i < nextId /\ target'[p] = place[i] /\ place[i] \in Places
    BY <1>2 DEF DispatchPicks, Working, DeliveryInv, Numbered
  <2>3. Working(p)'
    BY <1>2, <2>1, <2>2 DEF DispatchPicks, Working
  <2>. QED  BY <2>1, <2>3, RestingThread
<1>3. CASE DispatchEnds(p) \/ AutoEnds(p)
  BY <1>3, EndedThread DEF DispatchEnds, AutoEnds
<1>4. ASSUME NEW s \in Suppliers, AutoSkips(p, s) PROVE ThreadInv'
  <2>1. Others(p) /\ pc'[p] = "loop" /\ Working(p)'
    BY <1>4 DEF AutoSkips, Others, Working
  <2>. QED  BY <2>1, RestingThread
<1>5. ASSUME NEW pl \in Places, AutoPicks(p, pl) PROVE ThreadInv'
  <2>1. Others(p) /\ pc'[p] = "insert" /\ kind'[p] = "auto" /\ target'[p] = pl
    BY <1>5 DEF AutoPicks, Others
  <2>2. Working(p)'
    BY <1>5, <2>1 DEF AutoPicks, Working
  <2>. QED  BY <2>1, <2>2, RestingThread
<1>. QED  BY <1>1, <1>2, <1>3, <1>4, <1>5 DEF Loops

\* A new row belongs to nobody else.
LEMMA NewRowIsAlone ==
  ASSUME DeliveryInv, NEW p \in Procs, NEW k \in Keyed, letter[k] = "none"
  PROVE  \A q \in Procs \ {p} : pc[q] \in {"call", "record"} => job[q] # k
  BY OwnedRow

\* The INSERT of an attempt, followed by the call or, in the demo mode, not.
Inserts(p, k, status) ==
  /\ letter' = [letter EXCEPT ![k] = status]
  /\ job' \in {job, [job EXCEPT ![p] = k]} /\ job'[p] = k
  /\ \/ status = "sending" /\ Goto(p, "call") /\ UNCHANGED result
     \/ status = "demo" /\ Goto(p, "record") /\ result' = [result EXCEPT ![p] = "demo"]
  /\ UNCHANGED <<kind, target, queue, calls>>

LEMMA InsertsStep ==
  ASSUME DeliveryInv, TypeOK', NEW p \in Procs, NEW k \in Keyed, letter[k] = "none",
         NEW status, Inserts(p, k, status), nextId <= nextId'
  PROVE  Counted' /\ ThreadInv'
<1>0. /\ RowTypes /\ ThreadTypes /\ Counted /\ Working(p) /\ nextId \in Nat /\ nextId' \in Nat
      /\ Keyed \subseteq Letters
  BY DEF DeliveryInv, TypeOK, RecipientTypes, Letters
<1>1. Counted'
  BY <1>0 DEF Counted, Inserts, RowTypes
<1>2. \A q \in Procs \ {p} : pc[q] \in {"call", "record"} => job[q] # k
  BY NewRowIsAlone
<1>3. Others(p)
  BY <1>0, <1>2 DEF Others, Inserts, Goto, RowTypes, ThreadTypes
<1>4. Alone(p)
  BY <1>2 DEF Alone, Inserts
<1>5. pc'[p] \in {"call", "record"} /\ queue'[p] = queue[p]
  BY <1>0 DEF Inserts, Goto, ThreadTypes
<1>6. Working(p)'
  <2>1. \A i \in queue[p] : i \in Nat
    BY <1>0 DEF ThreadTypes, Ids
  <2>2. job'[p] \in Letters
    BY <1>0 DEF Inserts
  <2>. QED  BY <1>0, <1>5, <2>1, <2>2 DEF Working
<1>7. calls[k] = 0
  BY <1>0 DEF Counted
<1>8. Owned(p)'
  BY <1>0, <1>7 DEF Owned, Inserts, Goto, RowTypes, ThreadTypes
<1>. QED  BY <1>1, <1>3, <1>4, <1>6, <1>8, OneThreadMoves

LEMMA InsertKeyedStep ==
  ASSUME DeliveryInv, TypeOK', NEW p \in Procs, InsertKeyed(p)
  PROVE  Numbered' /\ Counted' /\ ThreadInv'
<1>0. /\ RowTypes /\ ThreadTypes /\ Numbered /\ Counted /\ Working(p) /\ nextId \in Nat
      /\ UNCHANGED <<nextId, place, rcpt, calls>>
  BY DEF DeliveryInv, TypeOK, RecipientTypes, InsertKeyed, recipients, history
<1>1. job[p] \in ClientKeys
  BY <1>0 DEF InsertKeyed, Working
<1>2. CASE End(p) /\ UNCHANGED letter
  BY <1>0, <1>2, EndedThread, KeepsNumbers, KeepsCounts DEF Keeps
<1>3. CASE ~(End(p) /\ UNCHANGED letter)
  <2>1. PICK status \in {"sending", "demo"} :
          /\ letter[job[p]] = "none" /\ InsertRow(job[p], status, scope[p])
          /\ \/ status = "sending" /\ Goto(p, "call") /\ UNCHANGED result
             \/ status = "demo" /\ Goto(p, "record") /\ result' = [result EXCEPT ![p] = "demo"]
          /\ UNCHANGED <<kind, job, target, queue>>
    BY <1>3 DEF InsertKeyed, IsNew
  <2>2. Inserts(p, job[p], status)
    BY <1>0, <2>1 DEF Inserts, InsertRow
  <2>3. \A i \in Ids : letter'[i] = letter[i]
    BY <1>0, <1>1, <2>1, DeliveryAssumption DEF InsertRow, RowTypes, Letters, Keyed
  <2>4. Numbered'
    BY <1>0, <2>3 DEF Numbered
  <2>5. job[p] \in Keyed
    BY <1>1 DEF Keyed
  <2>. QED  BY <1>0, <2>1, <2>2, <2>4, <2>5, InsertsStep
<1>. QED  BY <1>2, <1>3

LEMMA InsertForRecipientStep ==
  ASSUME DeliveryInv, TypeOK', NEW p \in Procs, InsertForRecipient(p)
  PROVE  Numbered' /\ Counted' /\ ThreadInv'
<1>0. /\ RowTypes /\ ThreadTypes /\ Numbered /\ Counted /\ Working(p) /\ nextId \in Nat
      /\ UNCHANGED <<nextId, place, calls>>
  BY DEF DeliveryInv, TypeOK, RecipientTypes, InsertForRecipient, history
<1>1. job[p] \in Ids /\ job[p] < nextId
  BY <1>0 DEF InsertForRecipient, Working
<1>2. CASE End(p) /\ UNCHANGED <<letter, rcpt>>
  BY <1>0, <1>2, EndedThread, KeepsNumbers, KeepsCounts DEF Keeps
<1>3. CASE ~(End(p) /\ UNCHANGED <<letter, rcpt>>)
  <2>1. /\ letter[job[p]] = "none" /\ InsertRow(job[p], "sending", {target[p]})
        /\ Flush(p) /\ Goto(p, "call")
        /\ UNCHANGED <<kind, job, target, queue, result>>
    BY <1>3 DEF InsertForRecipient, IsNew
  <2>2. Inserts(p, job[p], "sending")
    BY <1>0, <2>1 DEF Inserts, InsertRow
  <2>3. \A i \in Ids : i >= nextId => letter'[i] = letter[i]
    BY <1>0, <1>1, <2>1 DEF InsertRow, RowTypes, Letters, Keyed, Ids
  <2>4. Numbered'
    BY <1>0, <2>1, <2>3, FlushKeeps DEF Numbered, Ids
  <2>5. job[p] \in Keyed
    BY <1>1 DEF Keyed
  <2>. QED  BY <1>0, <2>1, <2>2, <2>4, <2>5, InsertsStep
<1>. QED  BY <1>2, <1>3

LEMMA InsertAutoStep ==
  ASSUME DeliveryInv, TypeOK', NEW p \in Procs, InsertAuto(p)
  PROVE  Numbered' /\ Counted' /\ ThreadInv'
<1>0. /\ RowTypes /\ RecipientTypes /\ ThreadTypes /\ Numbered /\ Counted /\ Working(p)
      /\ nextId \in Nat \ {0} /\ UNCHANGED calls
  BY DEF DeliveryInv, TypeOK, RecipientTypes, InsertAuto
<1>1. target[p] \in Places
  BY <1>0 DEF InsertAuto, Working
<1>2. CASE End(p) /\ UNCHANGED <<letter, recipients>>
  BY <1>0, <1>2, EndedThread, KeepsNumbers, KeepsCounts DEF Keeps, recipients
<1>3. CASE ~(End(p) /\ UNCHANGED <<letter, recipients>>)
  <2>1. PICK status \in {"sending", "demo"} :
          /\ nextId <= MaxIds /\ AddRecipient(target[p])
          /\ job' = [job EXCEPT ![p] = nextId]
          /\ InsertRow(nextId, status, {target[p]})
          /\ \/ status = "sending" /\ Goto(p, "call") /\ UNCHANGED result
             \/ status = "demo" /\ Goto(p, "record") /\ result' = [result EXCEPT ![p] = "demo"]
          /\ UNCHANGED <<kind, target, queue>>
    BY <1>3 DEF InsertAuto
  <2>2. nextId \in Ids /\ nextId \in Keyed /\ nextId' = nextId + 1
    BY <1>0, <2>1, DeliveryAssumption DEF Ids, Keyed, AddRecipient
  <2>3. letter[nextId] = "none"
    BY <1>0, <2>2 DEF Numbered
  <2>4. Inserts(p, nextId, status)
    BY <1>0, <2>1 DEF Inserts, InsertRow, ThreadTypes
  <2>5. ASSUME NEW i \in Ids
        PROVE  IF i < nextId' THEN place'[i] \in Places
                              ELSE rcpt'[i] = "none" /\ letter'[i] = "none"
    <3>1. CASE i = nextId
      BY <1>0, <1>1, <2>1, <2>2, <3>1 DEF AddRecipient, RecipientTypes
    <3>2. CASE i # nextId
      <4>1. place'[i] = place[i] /\ rcpt'[i] = rcpt[i] /\ letter'[i] = letter[i]
        BY <1>0, <2>1, <2>2, <3>2
        DEF AddRecipient, InsertRow, RecipientTypes, RowTypes, Letters, Keyed
      <4>2. i \in Nat
        BY DEF Ids
      <4>3. i < nextId' => i < nextId
        BY <1>0, <2>2, <3>2, <4>2
      <4>4. ~(i < nextId') => ~(i < nextId)
        BY <1>0, <2>2, <4>2
      <4>. QED  BY <1>0, <4>1, <4>3, <4>4 DEF Numbered
    <3>. QED  BY <3>1, <3>2
  <2>6. Numbered'
    BY <2>5 DEF Numbered
  <2>7. nextId <= nextId'
    BY <1>0, <2>2
  <2>. QED  BY <2>2, <2>3, <2>4, <2>6, <2>7, InsertsStep
<1>. QED  BY <1>2, <1>3

LEMMA TakeDraftStep ==
  ASSUME DeliveryInv, TypeOK', NEW p \in Procs, TakeDraft(p)
  PROVE  Numbered' /\ Counted' /\ ThreadInv'
<1>0. /\ RowTypes /\ ThreadTypes /\ Numbered /\ Counted /\ Working(p) /\ nextId \in Nat
      /\ UNCHANGED <<nextId, place, rcpt, calls>>
  BY DEF DeliveryInv, TypeOK, RecipientTypes, TakeDraft, recipients, history
<1>1. job[p] \in Drafts /\ job[p] \notin Keyed
  BY <1>0, DeliveryAssumption DEF TakeDraft, Working
<1>2. \A k \in Keyed : letter'[k] = letter[k]
  BY <1>0, <1>1 DEF TakeDraft, RowTypes, Letters
<1>3. Keeps
  BY <1>0, <1>2 DEF Keeps
<1>4. Others(p)
  BY <1>0, <1>2 DEF Others, TakeDraft, Goto, ThreadTypes
<1>5. pc'[p] = "call" /\ job'[p] = job[p] /\ queue'[p] = queue[p] /\ UNCHANGED kind
  BY <1>0 DEF TakeDraft, Goto, ThreadTypes
<1>6. Alone(p) /\ Owned(p)' /\ Working(p)'
  BY <1>0, <1>1, <1>5 DEF Alone, Owned, Working, Letters
<1>. QED  BY <1>0, <1>3, <1>4, <1>6, KeepsNumbers, KeepsCounts, OneThreadMoves

LEMMA CallProviderStep ==
  ASSUME DeliveryInv, TypeOK', NEW p \in Procs, CallProvider(p)
  PROVE  Numbered' /\ Counted' /\ ThreadInv'
<1>0. /\ RowTypes /\ ThreadTypes /\ Numbered /\ Counted /\ Working(p) /\ Owned(p) /\ Apart
      /\ nextId \in Nat /\ UNCHANGED <<nextId, place, rcpt, letter>>
  BY DEF DeliveryInv, TypeOK, RecipientTypes, CallProvider, recipients, rows
<1>1. pc[p] = "call" /\ job[p] \in Letters
  BY <1>0 DEF CallProvider, Working
<1>2. PICK answer \in {"ok", "error", "raised"} : result' = [result EXCEPT ![p] = answer]
  BY DEF CallProvider
<1>3. Numbered'
  BY <1>0 DEF Numbered
<1>4. \A k \in Keyed : calls'[k] = IF k = job[p] THEN calls[k] + 1 ELSE calls[k]
  BY <1>0 DEF CallProvider, RowTypes, Letters
<1>5. job[p] \in Keyed => letter[job[p]] = "sending" /\ calls[job[p]] = 0
  BY <1>0, <1>1 DEF Owned
<1>6. Counted'
  BY <1>0, <1>4, <1>5 DEF Counted
<1>7. \A q \in Procs \ {p} : pc[q] \in {"call", "record"} /\ job[q] \in Keyed => job[q] # job[p]
  BY <1>0, <1>1 DEF Apart
<1>8. Others(p)
  BY <1>0, <1>2, <1>4, <1>7 DEF Others, CallProvider, Goto, ThreadTypes
<1>9. pc'[p] = "record" /\ job'[p] = job[p] /\ queue'[p] = queue[p] /\ UNCHANGED kind
  BY <1>0 DEF CallProvider, Goto, ThreadTypes
<1>10. Alone(p) /\ Working(p)'
  BY <1>0, <1>1, <1>7, <1>9 DEF Alone, Working
<1>11. Owned(p)'
  BY <1>0, <1>4, <1>5, <1>9 DEF Owned
<1>. QED  BY <1>0, <1>3, <1>6, <1>8, <1>10, <1>11, OneThreadMoves

LEMMA RecordStep ==
  ASSUME DeliveryInv, TypeOK', NEW p \in Procs,
         RecordLetter(p) \/ RecordDispatch(p) \/ RecordCombined(p)
  PROVE  Numbered' /\ Counted' /\ ThreadInv'
<1>0. /\ RowTypes /\ ThreadTypes /\ Numbered /\ Counted /\ Working(p) /\ Apart
      /\ nextId \in Nat /\ Keeps /\ UNCHANGED <<nextId, calls>>
  BY RecordKeeps DEF DeliveryInv, TypeOK, RecipientTypes, Keeps
<1>1. Numbered' /\ Counted'
  BY <1>0, KeepsNumbers, KeepsCounts
<1>2. pc[p] = "record"
  BY DEF RecordLetter, RecordDispatch, RecordCombined
<1>3. \A q \in Procs \ {p} : pc[q] \in {"call", "record"} /\ job[q] \in Keyed => job[q] # job[p]
  BY <1>0, <1>2 DEF Apart
<1>4. \/ UNCHANGED letter
      \/ SetLetter(job[p], "sent") \/ SetLetter(job[p], "delivery_error")
      \/ SetLetter(job[p], "demo")
  BY DEF RecordLetter, RecordDispatch, RecordCombined
<1>5. \A q \in Procs \ {p} : pc[q] \in {"call", "record"} /\ job[q] \in Keyed =>
        letter'[job[q]] = letter[job[q]] /\ calls'[job[q]] = calls[job[q]]
  BY <1>0, <1>3, <1>4 DEF SetLetter, RowTypes, Letters
<1>6. CASE End(p)
  BY <1>0, <1>1, <1>5, <1>6, EndedThread
<1>7. CASE NextRecipient(p)
  <2>1. Others(p)
    BY <1>0, <1>5, <1>7 DEF Others, NextRecipient, Goto, ThreadTypes
  <2>2. pc'[p] = "loop" /\ Working(p)'
    BY <1>0, <1>7 DEF NextRecipient, Goto, ThreadTypes, Working
  <2>. QED  BY <1>0, <1>1, <2>1, <2>2, RestingThread
<1>. QED  BY <1>6, <1>7 DEF RecordLetter, RecordDispatch, RecordCombined

LEMMA PeopleStep ==
  ASSUME DeliveryInv, TypeOK', People PROVE Numbered' /\ Counted' /\ ThreadInv'
<1>a. UNCHANGED thread
  BY DEF People, Select, Remove, SetExclusion, DispatchDemo, ReplyArrives, Decide
<1>0. /\ RowTypes /\ RecipientTypes /\ ThreadTypes /\ Numbered /\ Counted
      /\ nextId \in Nat \ {0} /\ UNCHANGED thread
  BY <1>a DEF DeliveryInv, TypeOK, RecipientTypes
<1>1. ASSUME nextId <= nextId', UNCHANGED calls,
             \A k \in Keyed : letter[k] \in {"sending", "demo"} => letter'[k] = letter[k]
      PROVE  ThreadInv'
  <2>1. ASSUME NEW p \in Procs PROVE Working(p)' /\ Owned(p)'
    <3>1. Working(p) /\ Owned(p) /\ queue[p] \subseteq Nat
      BY <1>0 DEF DeliveryInv, ThreadTypes, Ids
    <3>2. nextId' \in Nat
      BY DEF TypeOK, RecipientTypes
    <3>3. job[p] \in Ids => job[p] \in Nat
      BY DEF Ids
    <3>4. Working(p)'
      BY <1>0, <1>1, <3>1, <3>2, <3>3 DEF Working, thread
    <3>5. Owned(p)'
      BY <1>0, <1>1, <3>1 DEF Owned, thread
    <3>. QED  BY <3>4, <3>5
  <2>2. Apart'
    BY <1>0 DEF DeliveryInv, Apart, thread
  <2>. QED  BY <2>1, <2>2 DEF ThreadInv
<1>2. \A k \in Keyed : letter[k] \in {"sending", "demo"} => letter'[k] = letter[k]
  <2>1. \A r \in Rfqs : \A s : Decide(r, s) =>
          \A k \in Keyed : letter[k] # "draft" => letter'[k] = letter[k]
    BY DEF Decide, Letters
  <2>. QED
    BY <2>1 DEF People, Select, Remove, SetExclusion, DispatchDemo, ReplyArrives, rows
<1>3. CASE UNCHANGED nextId
  BY <1>0, <1>1, <1>2, <1>3, PeopleKeep, KeepsNumbers, KeepsCounts
<1>4. ASSUME NEW pl \in Places, Select(pl) PROVE Numbered' /\ Counted' /\ ThreadInv'
  <2>1. UNCHANGED <<letter, calls>> /\ nextId' = nextId + 1 /\ nextId \in Ids
    BY <1>0, <1>4, DeliveryAssumption DEF Select, AddRecipient, rows, history, Ids
  <2>2. ASSUME NEW i \in Ids
        PROVE  IF i < nextId' THEN place'[i] \in Places
                              ELSE rcpt'[i] = "none" /\ letter'[i] = "none"
    <3>1. CASE i = nextId
      BY <1>0, <1>4, <2>1, <3>1 DEF Select, AddRecipient, RecipientTypes
    <3>2. CASE i # nextId
      <4>1. place'[i] = place[i] /\ rcpt'[i] = rcpt[i] /\ letter'[i] = letter[i]
        BY <1>0, <1>4, <2>1, <3>2 DEF Select, AddRecipient, RecipientTypes
      <4>2. i \in Nat
        BY DEF Ids
      <4>3. (i < nextId') <=> (i < nextId)
        BY <1>0, <2>1, <3>2, <4>2
      <4>. QED  BY <1>0, <4>1, <4>3 DEF Numbered
    <3>. QED  BY <3>1, <3>2
  <2>3. Numbered' /\ Counted'
    BY <1>0, <2>1, <2>2 DEF Numbered, Counted
  <2>. QED  BY <1>0, <1>1, <1>2, <2>1, <2>3
<1>. QED
  BY <1>3, <1>4 DEF People, Remove, SetExclusion, DispatchDemo, ReplyArrives, Decide, recipients

-----------------------------------------------------------------------------
(* The theorems. *)

LEMMA DeliveryStep == DeliveryInv /\ [Next]_vars => DeliveryInv'
<1>. SUFFICES ASSUME DeliveryInv, [Next]_vars PROVE DeliveryInv'
  OBVIOUS
<1>0. TypeOK'
  BY NextTypes
<1>1. ASSUME Numbered', Counted', ThreadInv' PROVE DeliveryInv'
  BY <1>0, <1>1 DEF DeliveryInv, ThreadInv
<1>2. CASE Move(People)
  BY <1>0, <1>1, <1>2, PeopleStep DEF Move
<1>3. ASSUME NEW p \in Procs, Begins(p) \/ Loops(p) \/ Die(p) PROVE DeliveryInv'
  <2>1. Keeps /\ UNCHANGED <<letter, calls>> /\ nextId \in Nat /\ Numbered /\ Counted
    BY <1>3, BegunKeeps DEF DeliveryInv, TypeOK, RecipientTypes
  <2>2. ThreadInv'
    BY <1>0, <1>3, <2>1, BegunThread, LoopingThread, EndedThread DEF Die, Keeps
  <2>. QED  BY <1>1, <2>1, <2>2, KeepsNumbers, KeepsCounts
<1>4. ASSUME NEW p \in Procs, Sends(p) PROVE DeliveryInv'
  BY <1>0, <1>1, <1>4, InsertKeyedStep, InsertForRecipientStep, InsertAutoStep, TakeDraftStep,
     CallProviderStep, RecordStep
  DEF Sends
<1>5. CASE UNCHANGED vars
  BY <1>0, <1>5
  DEF vars, rows, recipients, history, thread, DeliveryInv, Numbered, Counted, Working, Owned, Apart
<1>. QED  BY <1>2, <1>3, <1>4, <1>5 DEF Next, Move

LEMMA DeliveryInit == Init => DeliveryInv
<1>. SUFFICES ASSUME Init PROVE DeliveryInv
  OBVIOUS
<1>. USE DeliveryAssumption DEF Init
<1>1. RowTypes
  BY DEF RowTypes
<1>2. RecipientTypes
  BY DEF RecipientTypes, RfqStatuses
<1>3. ThreadTypes
  BY DEF ThreadTypes, RfqStatuses, NothingPending
<1>4. moves \in 0 .. MaxMoves
  OBVIOUS
<1>5. Numbered
  <2>1. \A i \in Ids : i \in Letters /\ i \notin Drafts /\ i \in Nat /\ i >= 1
    BY DEF Letters, Keyed, Ids
  <2>. QED  BY <2>1 DEF Numbered
<1>8. Counted
  BY DEF Counted, Letters
<1>6. \A p \in Procs : Working(p) /\ Owned(p)
  BY DEF Working, Owned
<1>7. Apart
  BY DEF Apart
<1>. QED  BY <1>1, <1>2, <1>3, <1>4, <1>5, <1>6, <1>7, <1>8
         DEF DeliveryInv, TypeOK

LEMMA DeliveryInvariant == Spec => []DeliveryInv
  BY DeliveryInit, DeliveryStep, PTL DEF Spec

\* The rows of communications and rfq_recipients, and what the threads
\* remember of them, keep their types.
THEOREM DeliveryTyped == Spec => []TypeOK
<1>1. DeliveryInv => TypeOK
  BY DEF DeliveryInv
<1>. QED  BY <1>1, DeliveryInvariant, PTL

\* The provider is called once at most for an idempotency key, for any number
\* of threads, requests and deaths (the unique column idempotency_key and the
\* commit before the call).
THEOREM CalledAtMostOnce == Spec => []AtMostOnce
<1>1. DeliveryInv => AtMostOnce
  BY DEF DeliveryInv, Counted, AtMostOnce
<1>. QED  BY <1>1, DeliveryInvariant, PTL

-----------------------------------------------------------------------------
(* The attempts with a key implement SendOnce. *)

OnceStep == Once!Next \/ UNCHANGED <<[k \in Keyed |-> Attempt(k)], [k \in Keyed |-> calls[k]]>>

LEMMA AttemptRests ==
  ASSUME \A k \in Keyed : Attempt(k)' = Attempt(k) /\ calls'[k] = calls[k]
  PROVE  OnceStep
  BY DEF OnceStep

\* One attempt goes on, the others and the calls stay as they are.
LEMMA AttemptMoves ==
  ASSUME NEW a \in Keyed, NEW next,
         \A k \in Keyed : calls'[k] = calls[k] /\ (k # a => Attempt(k)' = Attempt(k)),
         Attempt(a)' = next,
         \/ Attempt(a) = "open" /\ next \in {"pending", "void"}
         \/ Attempt(a) = "pending" /\ next = "void"
         \/ Attempt(a) = "pending" /\ calls[a] = 1 /\ next = "done"
  PROVE  OnceStep
<1>. DEFINE old == [k \in Keyed |-> Attempt(k)]
            new == [k \in Keyed |-> Attempt(k)']
            sent == [k \in Keyed |-> calls[k]]
<1>1. new = [old EXCEPT ![a] = next] /\ [k \in Keyed |-> calls'[k]] = sent
  OBVIOUS
<1>2. old[a] = Attempt(a) /\ sent[a] = calls[a]
  OBVIOUS
<1>3. Once!Register(a) \/ Once!Void(a) \/ Once!Confirm(a)
  BY <1>1, <1>2 DEF Once!Register, Once!Void, Once!Confirm
<1>. QED  BY <1>3 DEF OnceStep, Once!Next

LEMMA AttemptCalled ==
  ASSUME NEW a \in Keyed, Attempt(a) = "pending", calls[a] = 0,
         calls \in [Letters -> Nat], calls' = [calls EXCEPT ![a] = @ + 1], UNCHANGED letter
  PROVE  OnceStep
<1>. DEFINE old == [k \in Keyed |-> Attempt(k)]
            sent == [k \in Keyed |-> calls[k]]
<1>1. [k \in Keyed |-> Attempt(k)'] = old /\ old[a] = "pending"
  BY DEF Attempt
<1>a. Keyed \subseteq Letters
  BY DEF Letters
<1>b. \A k \in Keyed : calls'[k] = IF k = a THEN 1 ELSE calls[k]
  BY <1>a
<1>2. [k \in Keyed |-> calls'[k]] = [sent EXCEPT ![a] = 1] /\ sent[a] = 0
  BY <1>b
<1>3. Once!Send(a)
  BY <1>1, <1>2 DEF Once!Send
<1>. QED  BY <1>3 DEF OnceStep, Once!Next

\* A commit that gives one row another status.
LEMMA RowMoves ==
  ASSUME DeliveryInv, NEW l \in Letters, NEW status,
         letter' = [letter EXCEPT ![l] = status], UNCHANGED calls,
         l \in Keyed =>
           \/ letter[l] = "none" /\ status \in {"sending", "demo"}
           \/ letter[l] = "sending" /\ status \in {"delivery_error", "demo"}
           \/ letter[l] = "sending" /\ calls[l] = 1 /\ status = "sent"
           \/ letter[l] = "demo" /\ status \in {"delivery_error", "demo"}
  PROVE  OnceStep
<1>0. letter \in [Letters -> {"none", "draft", "cancelled", "sending", "sent", "demo",
                              "delivery_error"}]
  BY DEF DeliveryInv, TypeOK, RowTypes
<1>1. \A k \in Keyed : k # l => Attempt(k)' = Attempt(k)
  BY <1>0 DEF Attempt, Letters
<1>2. CASE l \notin Keyed
  BY <1>1, <1>2, AttemptRests
<1>3. CASE l \in Keyed
  <2>1. letter'[l] = status
    BY <1>0
  <2>2. CASE letter[l] = "demo"
    <3>1. Attempt(l)' = Attempt(l)
      BY <1>3, <2>1, <2>2 DEF Attempt
    <3>. QED  BY <1>1, <3>1, AttemptRests
  <2>3. CASE letter[l] = "none"
    <3>1. Attempt(l) = "open" /\ Attempt(l)' \in {"pending", "void"}
      BY <1>3, <2>1, <2>3 DEF Attempt
    <3>. QED  BY <1>1, <1>3, <3>1, AttemptMoves
  <2>4. CASE letter[l] = "sending"
    <3>1. /\ Attempt(l) = "pending"
          /\ Attempt(l)' = "void" \/ (Attempt(l)' = "done" /\ calls[l] = 1)
      BY <1>3, <2>1, <2>4 DEF Attempt
    <3>. QED  BY <1>1, <1>3, <3>1, AttemptMoves
  <2>. QED  BY <1>3, <2>2, <2>3, <2>4
<1>. QED  BY <1>2, <1>3

LEMMA SendRefines ==
  ASSUME DeliveryInv, NEW p \in Procs, Sends(p) PROVE OnceStep
<1>. USE DEF rows, recipients, history
<1>0. /\ RowTypes /\ Working(p) /\ Owned(p) /\ Numbered /\ Keyed \subseteq Letters
  BY DEF DeliveryInv, TypeOK, Letters
<1>1. ASSUME UNCHANGED <<letter, calls>> PROVE OnceStep
  BY <1>1, AttemptRests DEF Attempt
<1>2. CASE InsertKeyed(p)
  <2>1. CASE UNCHANGED letter
    BY <1>1, <1>2, <2>1 DEF InsertKeyed
  <2>2. CASE ~UNCHANGED letter
    <3>1. job[p] \in Keyed
      BY <1>0, <1>2 DEF InsertKeyed, Working, Keyed
    <3>2. /\ letter[job[p]] = "none" /\ UNCHANGED calls
          /\ \E status \in {"sending", "demo"} : letter' = [letter EXCEPT ![job[p]] = status]
      BY <1>2, <2>2 DEF InsertKeyed, InsertRow, IsNew
    <3>. QED  BY <1>0, <3>1, <3>2, RowMoves
  <2>. QED  BY <2>1, <2>2
<1>3. CASE InsertForRecipient(p)
  <2>1. CASE UNCHANGED letter
    BY <1>1, <1>3, <2>1 DEF InsertForRecipient
  <2>2. CASE ~UNCHANGED letter
    <3>1. job[p] \in Keyed
      BY <1>0, <1>3 DEF InsertForRecipient, Working, Keyed
    <3>2. /\ letter[job[p]] = "none" /\ UNCHANGED calls
          /\ letter' = [letter EXCEPT ![job[p]] = "sending"]
      BY <1>3, <2>2 DEF InsertForRecipient, InsertRow, IsNew
    <3>. QED  BY <1>0, <3>1, <3>2, RowMoves
  <2>. QED  BY <2>1, <2>2
<1>4. CASE InsertAuto(p)
  <2>1. CASE UNCHANGED letter
    BY <1>1, <1>4, <2>1 DEF InsertAuto
  <2>2. CASE ~UNCHANGED letter
    <3>1. nextId <= MaxIds
      BY <1>4, <2>2 DEF InsertAuto
    <3>2. nextId \in Ids /\ nextId \in Keyed
      BY <3>1, DeliveryAssumption DEF DeliveryInv, TypeOK, RecipientTypes, Ids, Keyed
    <3>3. letter[nextId] = "none"
      BY <1>0, <3>2 DEF Numbered, Ids
    <3>4. /\ UNCHANGED calls
          /\ \E status \in {"sending", "demo"} : letter' = [letter EXCEPT ![nextId] = status]
      BY <1>4, <2>2 DEF InsertAuto, InsertRow
    <3>. QED  BY <1>0, <3>2, <3>3, <3>4, RowMoves
  <2>. QED  BY <2>1, <2>2
<1>5. CASE TakeDraft(p)
  <2>1. job[p] \in Letters /\ job[p] \notin Keyed
    BY <1>0, <1>5, DeliveryAssumption DEF TakeDraft, Working, Letters
  <2>. QED  BY <1>5, <2>1, RowMoves DEF TakeDraft
<1>6. CASE CallProvider(p)
  <2>1. job[p] \in Letters /\ calls' = [calls EXCEPT ![job[p]] = @ + 1] /\ UNCHANGED letter
    BY <1>0, <1>6 DEF CallProvider, Working
  <2>2. CASE job[p] \in Keyed
    <3>1. Attempt(job[p]) = "pending" /\ calls[job[p]] = 0
      BY <1>0, <1>6, <2>2 DEF CallProvider, Owned, Attempt
    <3>. QED  BY <1>0, <2>1, <2>2, <3>1, AttemptCalled DEF RowTypes
  <2>3. CASE job[p] \notin Keyed
    BY <1>0, <2>1, <2>3, AttemptRests DEF Attempt, RowTypes
  <2>. QED  BY <2>2, <2>3
<1>7. CASE RecordLetter(p) \/ RecordDispatch(p) \/ RecordCombined(p)
  <2>1. pc[p] = "record" /\ UNCHANGED calls
    BY <1>7 DEF RecordLetter, RecordDispatch, RecordCombined
  <2>2. job[p] \in Letters
    BY <1>0, <2>1 DEF Working
  <2>3. job[p] \in Keyed => \/ letter[job[p]] = "sending" /\ calls[job[p]] = 1
                            \/ letter[job[p]] = "demo" /\ result[p] = "demo"
    BY <1>0, <2>1 DEF Owned
  <2>4. \/ UNCHANGED letter
        \/ SetLetter(job[p], "sent") /\ result[p] = "ok"
        \/ SetLetter(job[p], "delivery_error")
        \/ SetLetter(job[p], "demo")
    BY <1>7 DEF RecordLetter, RecordDispatch, RecordCombined
  <2>5. CASE UNCHANGED letter
    BY <1>1, <2>1, <2>5
  <2>. QED  BY <2>1, <2>2, <2>3, <2>4, <2>5, RowMoves DEF SetLetter
<1>. QED  BY <1>2, <1>3, <1>4, <1>5, <1>6, <1>7 DEF Sends

LEMMA StepRefines == DeliveryInv /\ [Next]_vars => OnceStep
<1>. SUFFICES ASSUME DeliveryInv, [Next]_vars PROVE OnceStep
  OBVIOUS
<1>1. ASSUME UNCHANGED <<letter, calls>> PROVE OnceStep
  BY <1>1, AttemptRests DEF Attempt
<1>2. CASE Move(People)
  <2>1. ASSUME NEW r \in Rfqs, NEW s \in Suppliers \cup {Other}, Decide(r, s) PROVE OnceStep
    <3>a. Keyed \subseteq Letters
      BY DEF Letters
    <3>b. \A k \in Letters : letter[k] # "draft" => letter'[k] = letter[k]
      BY <2>1 DEF Decide
    <3>c. \A k \in Letters : letter'[k] = "cancelled" \/ letter'[k] = letter[k]
      BY <2>1 DEF Decide
    <3>1. \A k \in Keyed : letter'[k] = letter[k]
                             \/ (letter[k] = "draft" /\ letter'[k] = "cancelled")
      BY <3>a, <3>b, <3>c
    <3>2. \A k \in Keyed : Attempt(k)' = Attempt(k)
      BY <3>1 DEF Attempt
    <3>. QED  BY <2>1, <3>2, AttemptRests DEF Decide, history
  <2>2. ASSUME NEW pl \in Places, Select(pl) \/ SetExclusion(pl) PROVE OnceStep
    BY <1>1, <2>2 DEF Select, SetExclusion, rows, history
  <2>3. ASSUME NEW i \in Ids, Remove(i) PROVE OnceStep
    BY <1>1, <2>3 DEF Remove, rows, history
  <2>4. ASSUME NEW r \in Rfqs, DispatchDemo(r) \/ ReplyArrives(r) PROVE OnceStep
    BY <1>1, <2>4 DEF DispatchDemo, ReplyArrives, rows, history
  <2>. QED  BY <1>2, <2>1, <2>2, <2>3, <2>4 DEF Move, People
<1>3. ASSUME NEW p \in Procs, Begins(p) \/ Loops(p) \/ Die(p) PROVE OnceStep
  BY <1>1, <1>3, BegunKeeps
<1>4. ASSUME NEW p \in Procs, Sends(p) PROVE OnceStep
  BY <1>4, SendRefines
<1>5. CASE UNCHANGED vars
  BY <1>1, <1>5 DEF vars, rows, history
<1>. QED  BY <1>2, <1>3, <1>4, <1>5 DEF Next, Move

\* Every step of the delivery is, for the rows with a key, a step or a stutter
\* of SendOnce: registered before the call, called once, pending for ever when
\* the outcome is unknown.
THEOREM DeliveryRefinesSendOnce == Spec => ImplementsSendOnce
<1>1. Init => Once!Init
  <2>1. ASSUME Init, NEW k \in Keyed PROVE Attempt(k) = "open" /\ calls[k] = 0
    BY <2>1, DeliveryAssumption DEF Init, Attempt, Letters
  <2>. QED  BY <2>1 DEF Once!Init
<1>2. DeliveryInv /\ [Next]_vars => [Once!Next]_(Once!onceVars)
  BY StepRefines DEF OnceStep, Once!onceVars
<1>. QED  BY <1>1, <1>2, DeliveryInvariant, PTL DEF Spec, ImplementsSendOnce, Once!Spec
-----------------------------------------------------------------------------
(* What a row says has happened. *)

\* A place some letter has reached, or was shown to reach in the demo mode.
Reached(pl) ==
  \/ pl \in demo
  \/ \E l \in Letters : pl \in about[l] /\ (l \in accepted \/ letter[l] = "demo")

LettersTrue == \A l \in Letters : letter[l] = "sent" => l \in accepted
RecipientsTrue == \A i \in Ids : rcpt[i] = "sent" => Reached(place[i])

\* The letter of a recipient is linked to the place of the recipient.
Linked == \A i \in Ids : letter[i] # "none" => place[i] \in about[i]

\* What the provider took is in the table, and a draft stays there.
Stored ==
  /\ \A l \in accepted : letter[l] # "none"
  /\ \A d \in Drafts : letter[d] \notin {"none", "demo"}

\* What a thread remembers of a letter is true of it until it has recorded it.
Honest(p) ==
  /\ \A i \in Ids : pend[p][i] = "sent" => letter[i] = "sent"
  /\ pc[p] = "take" => kind[p] = "draft"
  /\ pc[p] = "insert" /\ kind[p] = "dispatch" => target[p] = place[job[p]]
  /\ kind[p] = "combined" => \A i \in queue[p] : place[i] \in scope[p]
  /\ pc[p] \in {"call", "record"} =>
       /\ kind[p] \in {"combined", "dispatch", "auto"} => job[p] \in Keyed
       /\ kind[p] \in {"dispatch", "auto"} => job[p] \in Ids
       /\ kind[p] = "combined" => about[job[p]] = scope[p]
  /\ pc[p] = "record" =>
       /\ result[p] \in {"ok", "error", "raised", "demo"}
       /\ result[p] = "ok" => job[p] \in accepted
       /\ result[p] = "demo" => kind[p] \in {"combined", "auto"} /\ letter[job[p]] = "demo"

TruthInv ==
  /\ LettersTrue /\ RecipientsTrue /\ Linked /\ Stored
  /\ \A p \in Procs : Honest(p)

Truthful == DeliveryInv /\ TruthInv

\* What no step takes back.
Grows ==
  /\ \A i \in Ids : i < nextId => place'[i] = place[i]
  /\ \A l \in Letters : letter[l] # "none" => letter'[l] # "none" /\ about'[l] = about[l]
  /\ \A l \in Letters : letter[l] = "demo" => letter'[l] = "demo"
  /\ \A i \in Ids : letter[i] = "sent" => letter'[i] = "sent"
  /\ demo \subseteq demo' /\ accepted \subseteq accepted'

LEMMA ReachedStays ==
  ASSUME Stored, Grows, NEW pl, Reached(pl) PROVE Reached(pl)'
<1>1. CASE pl \in demo
  BY <1>1 DEF Grows, Reached
<1>2. ASSUME NEW l \in Letters, pl \in about[l], l \in accepted \/ letter[l] = "demo"
      PROVE  Reached(pl)'
  <2>1. letter[l] # "none"
    BY <1>2 DEF Stored
  <2>2. about'[l] = about[l] /\ (l \in accepted' \/ letter'[l] = "demo")
    BY <1>2, <2>1 DEF Grows
  <2>. QED  BY <1>2, <2>2 DEF Reached
<1>. QED  BY <1>1, <1>2 DEF Reached

Rests(q) ==
  /\ pc'[q] = pc[q] /\ kind'[q] = kind[q] /\ job'[q] = job[q] /\ scope'[q] = scope[q]
  /\ target'[q] = target[q] /\ queue'[q] = queue[q] /\ pend'[q] = pend[q]
  /\ result'[q] = result[q]

LEMMA RestStaysHonest ==
  ASSUME Truthful, Grows, NEW q \in Procs, Rests(q) PROVE Honest(q)'
<1>0. /\ Honest(q) /\ Working(q) /\ Numbered /\ pend \in [Procs -> [Ids -> {"none", "sent", "error"}]]
      /\ queue[q] \subseteq Ids
  BY DEF Truthful, TruthInv, DeliveryInv, TypeOK, ThreadTypes
<1>1. \A i \in Ids : pend'[q][i] = "sent" => letter'[i] = "sent"
  BY <1>0 DEF Honest, Rests, Grows
<1>2. pc[q] = "insert" /\ kind[q] = "dispatch" => target'[q] = place'[job'[q]]
  BY <1>0 DEF Honest, Working, Rests, Grows
<1>3. kind[q] = "combined" => \A i \in queue'[q] : place'[i] \in scope'[q]
  BY <1>0 DEF Honest, Working, Rests, Grows
<1>4. pc[q] \in {"call", "record"} /\ kind[q] = "combined" => about'[job'[q]] = scope'[q]
  <2>1. pc[q] \in {"call", "record"} /\ kind[q] = "combined" =>
          job[q] \in Letters /\ letter[job[q]] # "none"
    BY <1>0, OwnedRow DEF Honest, Truthful, Letters
  <2>. QED  BY <1>0, <2>1 DEF Honest, Rests, Grows
<1>5. pc[q] = "record" =>
        /\ result[q] = "ok" => job[q] \in accepted'
        /\ result[q] = "demo" => letter'[job[q]] = "demo"
  BY <1>0 DEF Honest, Working, Grows
<1>. QED  BY <1>0, <1>1, <1>2, <1>3, <1>4, <1>5 DEF Honest, Rests

LEMMA OneAtATime ==
  ASSUME DeliveryInv, NEW p \in Procs, Begins(p) \/ Loops(p) \/ Sends(p) \/ Die(p)
  PROVE  \A q \in Procs \ {p} : Rests(q)
<1>0. ThreadTypes
  BY DEF DeliveryInv, TypeOK
<1>. USE <1>0 DEF ThreadTypes, Goto, Rests
<1>1. ASSUME End(p) PROVE \A q \in Procs \ {p} : Rests(q)
  BY <1>1 DEF End
<1>2. ASSUME NextRecipient(p) PROVE \A q \in Procs \ {p} : Rests(q)
  BY <1>2 DEF NextRecipient
<1>3. CASE Begins(p)
  <2>1. PICK k, c, l, w : Start(p, k, c, l, w)
    BY <1>3 DEF Begins, ConversationBegins, MailBegins, CombinedBegins, DraftBegins,
                DispatchBegins, AutoBegins
  <2>2. \A q \in Procs \ {p} : queue'[q] = queue[q]
    BY <1>3 DEF Begins, ConversationBegins, MailBegins, CombinedBegins, DraftBegins,
                DispatchBegins, AutoBegins
  <2>. QED  BY <2>1, <2>2 DEF Start
<1>4. CASE Loops(p)
  <2>1. ASSUME NEW i \in Ids, DispatchSkips(p, i) PROVE \A q \in Procs \ {p} : Rests(q)
    BY <2>1 DEF DispatchSkips
  <2>2. ASSUME NEW i \in Ids, DispatchPicks(p, i) PROVE \A q \in Procs \ {p} : Rests(q)
    BY <2>2 DEF DispatchPicks
  <2>3. ASSUME NEW s \in Suppliers, AutoSkips(p, s) PROVE \A q \in Procs \ {p} : Rests(q)
    BY <2>3 DEF AutoSkips
  <2>4. ASSUME NEW pl \in Places, AutoPicks(p, pl) PROVE \A q \in Procs \ {p} : Rests(q)
    BY <2>4 DEF AutoPicks
  <2>. QED  BY <1>1, <1>4, <2>1, <2>2, <2>3, <2>4 DEF Loops, DispatchEnds, AutoEnds
<1>5. CASE Sends(p)
  <2>1. CASE InsertKeyed(p)
    BY <1>1, <2>1 DEF InsertKeyed
  <2>2. CASE InsertForRecipient(p)
    BY <1>1, <2>2 DEF InsertForRecipient
  <2>3. CASE InsertAuto(p)
    BY <1>1, <2>3 DEF InsertAuto
  <2>4. CASE TakeDraft(p)
    BY <2>4 DEF TakeDraft
  <2>5. CASE CallProvider(p)
    BY <2>5 DEF CallProvider
  <2>6. CASE RecordLetter(p) \/ RecordDispatch(p) \/ RecordCombined(p)
    BY <1>1, <1>2, <2>6 DEF RecordLetter, RecordDispatch, RecordCombined
  <2>. QED  BY <1>5, <2>1, <2>2, <2>3, <2>4, <2>5, <2>6 DEF Sends
<1>6. CASE Die(p)
  BY <1>1, <1>6 DEF Die
<1>. QED  BY <1>3, <1>4, <1>5, <1>6

\* What the three Record actions do to the rows.
LEMMA RecordRows ==
  ASSUME Truthful, NEW p \in Procs,
         RecordLetter(p) \/ RecordDispatch(p) \/ RecordCombined(p)
  PROVE  /\ job[p] \in Letters /\ letter[job[p]] # "none"
         /\ \/ UNCHANGED letter
            \/ SetLetter(job[p], "sent") /\ result[p] = "ok"
            \/ SetLetter(job[p], "delivery_error") /\ result[p] # "demo"
            \/ SetLetter(job[p], "demo") /\ result[p] = "demo"
         /\ result[p] # "demo" => letter[job[p]] # "demo"
         /\ result[p] = "ok" => job[p] \in accepted
<1>0. pc[p] = "record" /\ Working(p) /\ Owned(p) /\ Honest(p) /\ Stored
  BY DEF Truthful, TruthInv, DeliveryInv, RecordLetter, RecordDispatch, RecordCombined
<1>1. job[p] \in Letters /\ letter[job[p]] # "none" /\ (result[p] # "demo" => letter[job[p]] # "demo")
  BY <1>0 DEF Working, Owned, Stored, Letters
<1>2. result[p] = "ok" => job[p] \in accepted
  BY <1>0 DEF Honest
<1>3. CASE RecordLetter(p) \/ RecordDispatch(p)
  <2>1. result[p] # "demo"
    BY <1>0, <1>3 DEF Honest, RecordLetter, RecordDispatch
  <2>. QED  BY <1>1, <1>2, <1>3, <2>1 DEF RecordLetter, RecordDispatch
<1>4. CASE RecordCombined(p)
  <2>1. result[p] \in {"ok", "error", "raised", "demo"}
    BY <1>0 DEF Honest
  <2>. QED  BY <1>1, <1>2, <1>4, <2>1 DEF RecordCombined
<1>. QED  BY <1>3, <1>4

LEMMA InsertGrows ==
  ASSUME Truthful, NEW l \in Letters, letter[l] = "none", NEW status \in {"sending", "demo"},
         NEW pls, InsertRow(l, status, pls), UNCHANGED <<demo, accepted>>,
         \A i \in Ids : i < nextId => place'[i] = place[i]
  PROVE  Grows
  BY DEF Grows, InsertRow, Truthful, DeliveryInv, TypeOK, RowTypes, Letters, Keyed

LEMMA StillGrows ==
  ASSUME UNCHANGED <<letter, about>>, demo \subseteq demo', accepted \subseteq accepted',
         \A i \in Ids : i < nextId => place'[i] = place[i]
  PROVE  Grows
  BY DEF Grows

LEMMA SendsGrow == ASSUME Truthful, NEW p \in Procs, Sends(p) PROVE Grows
<1>0. /\ Working(p) /\ Owned(p) /\ Honest(p) /\ Stored /\ Numbered /\ RowTypes /\ RecipientTypes
      /\ nextId \in Nat /\ Ids \subseteq Nat
  BY DEF Truthful, TruthInv, DeliveryInv, TypeOK, RecipientTypes, Ids
<1>. USE DEF recipients, history, rows
<1>1. CASE InsertKeyed(p)
  <2>1. CASE UNCHANGED <<letter, about>>
    BY <1>1, <2>1, StillGrows DEF InsertKeyed
  <2>2. CASE ~UNCHANGED <<letter, about>>
    <3>1. /\ IsNew(job[p]) /\ UNCHANGED <<demo, accepted, place>>
          /\ \E status \in {"sending", "demo"} : InsertRow(job[p], status, scope[p])
      BY <1>1, <2>2 DEF InsertKeyed
    <3>2. job[p] \in Letters
      BY <1>0, <1>1 DEF InsertKeyed, Working, Letters, Keyed
    <3>. QED  BY <3>1, <3>2, InsertGrows DEF IsNew
  <2>. QED  BY <2>1, <2>2
<1>2. CASE InsertForRecipient(p)
  <2>1. CASE UNCHANGED <<letter, about>>
    BY <1>2, <2>1, StillGrows DEF InsertForRecipient
  <2>2. CASE ~UNCHANGED <<letter, about>>
    <3>1. /\ IsNew(job[p]) /\ UNCHANGED <<demo, accepted, place>>
          /\ InsertRow(job[p], "sending", {target[p]})
      BY <1>2, <2>2 DEF InsertForRecipient
    <3>2. job[p] \in Letters
      BY <1>0, <1>2 DEF InsertForRecipient, Working, Letters, Keyed
    <3>. QED  BY <3>1, <3>2, InsertGrows DEF IsNew
  <2>. QED  BY <2>1, <2>2
<1>3. CASE InsertAuto(p)
  <2>1. CASE UNCHANGED <<letter, about, recipients>>
    BY <1>3, <2>1, StillGrows DEF InsertAuto
  <2>2. CASE ~UNCHANGED <<letter, about, recipients>>
    <3>1. /\ nextId <= MaxIds /\ AddRecipient(target[p]) /\ UNCHANGED <<demo, accepted>>
          /\ \E status \in {"sending", "demo"} : InsertRow(nextId, status, {target[p]})
      BY <1>3, <2>2 DEF InsertAuto
    <3>2. nextId \in Ids /\ nextId \in Letters
      BY <1>0, <3>1 DEF RecipientTypes, Ids, Letters, Keyed
    <3>3. letter[nextId] = "none"
      BY <1>0, <3>2 DEF Numbered
    <3>4. \A i \in Ids : i < nextId => place'[i] = place[i]
      BY <1>0, <3>1 DEF AddRecipient, RecipientTypes
    <3>. QED  BY <3>1, <3>2, <3>3, <3>4, InsertGrows
  <2>. QED  BY <2>1, <2>2
<1>4. CASE TakeDraft(p)
  <2>1. job[p] \in Drafts /\ job[p] \notin Ids /\ letter[job[p]] # "demo"
    BY <1>0, <1>4, DeliveryAssumption DEF TakeDraft, Working, Stored, Keyed
  <2>2. letter' = [letter EXCEPT ![job[p]] = "sending"] /\ UNCHANGED <<about, demo, place, accepted>>
    BY <1>4 DEF TakeDraft
  <2>. QED  BY <1>0, <2>1, <2>2 DEF Grows, RowTypes, Letters, Keyed
<1>5. CASE CallProvider(p)
  <2>1. accepted \subseteq accepted'
    BY <1>5 DEF CallProvider
  <2>. QED  BY <1>5, <2>1, StillGrows DEF CallProvider
<1>6. CASE RecordLetter(p) \/ RecordDispatch(p) \/ RecordCombined(p)
  <2>1. UNCHANGED <<about, demo, place, accepted>>
    BY <1>6 DEF RecordLetter, RecordDispatch, RecordCombined
  <2>2. /\ job[p] \in Letters /\ letter[job[p]] # "none"
        /\ \/ UNCHANGED letter
           \/ SetLetter(job[p], "sent") /\ result[p] = "ok"
           \/ SetLetter(job[p], "delivery_error") /\ result[p] # "demo"
           \/ SetLetter(job[p], "demo") /\ result[p] = "demo"
        /\ result[p] # "demo" => letter[job[p]] # "demo"
    BY <1>6, RecordRows
  <2>3. job[p] \in Ids => letter[job[p]] # "sent"
    BY <1>0, <1>6 DEF Owned, Keyed, RecordLetter, RecordDispatch, RecordCombined
  <2>. QED  BY <1>0, <2>1, <2>2, <2>3 DEF Grows, SetLetter, RowTypes, Letters, Keyed
<1>. QED  BY <1>1, <1>2, <1>3, <1>4, <1>5, <1>6 DEF Sends

LEMMA PeopleGrow == ASSUME Truthful, People PROVE Grows
<1>0. RowTypes /\ RecipientTypes /\ nextId \in Nat /\ Ids \subseteq Nat
  BY DEF Truthful, DeliveryInv, TypeOK, RecipientTypes, Ids
<1>. USE DEF recipients, history, rows
<1>1. ASSUME NEW pl \in Places, Select(pl) PROVE Grows
  <2>1. \A i \in Ids : i < nextId => place'[i] = place[i]
    BY <1>0, <1>1 DEF Select, AddRecipient, RecipientTypes
  <2>. QED  BY <1>1, <2>1, StillGrows DEF Select
<1>2. ASSUME NEW pl \in Places, SetExclusion(pl) PROVE Grows
  BY <1>2, StillGrows DEF SetExclusion
<1>3. ASSUME NEW i \in Ids, Remove(i) PROVE Grows
  BY <1>3, StillGrows DEF Remove
<1>4. ASSUME NEW r \in Rfqs, DispatchDemo(r) \/ ReplyArrives(r) PROVE Grows
  BY <1>4, StillGrows DEF DispatchDemo, ReplyArrives
<1>5. ASSUME NEW r \in Rfqs, NEW s \in Suppliers \cup {Other}, Decide(r, s) PROVE Grows
  <2>1. \A l \in Letters : letter'[l] = letter[l] \/ (letter[l] = "draft" /\ letter'[l] = "cancelled")
    BY <1>5 DEF Decide
  <2>2. Ids \subseteq Letters
    BY DEF Letters, Keyed
  <2>. QED  BY <1>5, <2>1, <2>2 DEF Grows, Decide
<1>. QED  BY <1>1, <1>2, <1>3, <1>4, <1>5 DEF People

LEMMA StepGrows == Truthful /\ [Next]_vars => Grows
<1>. SUFFICES ASSUME Truthful, [Next]_vars PROVE Grows
  OBVIOUS
<1>1. ASSUME NEW p \in Procs, Begins(p) \/ Loops(p) \/ Die(p) PROVE Grows
  <2>1. UNCHANGED <<nextId, place, letter>>
    BY <1>1, BegunKeeps DEF Truthful, Keeps
  <2>2. UNCHANGED <<about, demo, accepted>>
    BY <1>1 DEF Begins, ConversationBegins, MailBegins, CombinedBegins, DraftBegins, DispatchBegins,
      AutoBegins, Start, Loops, DispatchSkips, DispatchPicks, DispatchEnds, AutoSkips, AutoPicks,
      AutoEnds, Die, rows, history
  <2>. QED  BY <2>1, <2>2, StillGrows
<1>2. CASE UNCHANGED vars
  BY <1>2, StillGrows DEF vars, rows, recipients, history
<1>. QED  BY <1>1, <1>2, SendsGrow, PeopleGrow DEF Next, Move

-----------------------------------------------------------------------------
(* Each part of what the rows say, step by step. *)

\* Beginning, looping and dying write no letter.
LEMMA QuietRows ==
  ASSUME Truthful, NEW p \in Procs, Begins(p) \/ Loops(p) \/ Die(p)
  PROVE  UNCHANGED <<letter, about, accepted>>
<1>1. UNCHANGED letter
  BY BegunKeeps DEF Truthful
<1>2. UNCHANGED <<about, accepted>>
  BY DEF Begins, ConversationBegins, MailBegins, CombinedBegins, DraftBegins, DispatchBegins,
    AutoBegins, Start, Loops, DispatchSkips, DispatchPicks, DispatchEnds, AutoSkips, AutoPicks,
    AutoEnds, Die, rows, history
<1>. QED  BY <1>1, <1>2

\* The INSERTs: a letter that was not there, linked to the place of the
\* recipient whose number it carries.
LEMMA InsertedRow ==
  ASSUME Truthful, NEW p \in Procs, InsertKeyed(p) \/ InsertForRecipient(p) \/ InsertAuto(p)
  PROVE  \/ UNCHANGED <<letter, about>>
         \/ \E l \in Keyed, pls \in SUBSET Places :
              /\ letter[l] = "none"
              /\ InsertRow(l, "sending", pls) \/ InsertRow(l, "demo", pls)
              /\ l \in Ids => place'[l] \in pls
<1>0. /\ Working(p) /\ Honest(p) /\ Numbered /\ RecipientTypes /\ ThreadTypes
  BY DEF Truthful, TruthInv, DeliveryInv, TypeOK
<1>1. CASE InsertKeyed(p) /\ ~UNCHANGED <<letter, about>>
  <2>1. /\ letter[job[p]] = "none"
        /\ InsertRow(job[p], "sending", scope[p]) \/ InsertRow(job[p], "demo", scope[p])
    BY <1>1 DEF InsertKeyed, IsNew
  <2>2. job[p] \in Keyed /\ job[p] \notin Ids /\ scope[p] \in SUBSET Places
    BY <1>0, <1>1, DeliveryAssumption DEF InsertKeyed, Working, Keyed, ThreadTypes
  <2>. QED  BY <2>1, <2>2
<1>2. CASE InsertForRecipient(p) /\ ~UNCHANGED <<letter, about>>
  <2>1. letter[job[p]] = "none" /\ InsertRow(job[p], "sending", {target[p]}) /\ UNCHANGED place
    BY <1>2 DEF InsertForRecipient, IsNew
  <2>2. job[p] \in Keyed /\ target[p] = place[job[p]] /\ {target[p]} \in SUBSET Places
    BY <1>0, <1>2 DEF InsertForRecipient, Working, Honest, Keyed
  <2>. QED  BY <2>1, <2>2
<1>3. CASE InsertAuto(p) /\ ~UNCHANGED <<letter, about>>
  <2>1. /\ nextId <= MaxIds /\ AddRecipient(target[p])
        /\ InsertRow(nextId, "sending", {target[p]}) \/ InsertRow(nextId, "demo", {target[p]})
    BY <1>3 DEF InsertAuto
  <2>2. nextId \in Ids /\ nextId \in Keyed
    BY <1>0, <2>1 DEF RecipientTypes, Ids, Keyed
  <2>3. letter[nextId] = "none" /\ place'[nextId] = target[p]
    BY <1>0, <2>1, <2>2 DEF Numbered, AddRecipient, RecipientTypes
  <2>4. {target[p]} \in SUBSET Places
    BY <1>0, <1>3 DEF InsertAuto, Working
  <2>. QED  BY <2>1, <2>2, <2>3, <2>4
<1>. QED  BY <1>1, <1>2, <1>3

LEMMA LettersStep ==
  ASSUME Truthful, [Next]_vars PROVE LettersTrue' /\ Stored' /\ Linked'
<1>0. /\ LettersTrue /\ Stored /\ Linked /\ RowTypes /\ Numbered
      /\ Keyed \subseteq Letters /\ Drafts \subseteq Letters /\ Ids \subseteq Keyed
      /\ Drafts \cap Keyed = {}
  BY DeliveryAssumption DEF Truthful, TruthInv, DeliveryInv, TypeOK, Letters, Keyed
<1>g. Grows
  BY StepGrows
<1>p. \A i \in Ids : letter[i] # "none" => place'[i] = place[i] /\ about'[i] = about[i]
  BY <1>0, <1>g DEF Numbered, Grows
<1>1. ASSUME UNCHANGED letter, \A l \in accepted' : letter[l] # "none"
      PROVE  LettersTrue' /\ Stored' /\ Linked'
  BY <1>0, <1>1, <1>g, <1>p DEF LettersTrue, Stored, Linked, Grows
<1>2. ASSUME NEW p \in Procs, Begins(p) \/ Loops(p) \/ Die(p)
      PROVE  LettersTrue' /\ Stored' /\ Linked'
  BY <1>0, <1>1, <1>2, QuietRows DEF Stored
<1>3. ASSUME NEW p \in Procs, InsertKeyed(p) \/ InsertForRecipient(p) \/ InsertAuto(p)
      PROVE  LettersTrue' /\ Stored' /\ Linked'
  <2>a. UNCHANGED accepted
    BY <1>3 DEF InsertKeyed, InsertForRecipient, InsertAuto, history
  <2>1. CASE UNCHANGED <<letter, about>>
    BY <1>0, <1>1, <2>1, <2>a DEF Stored
  <2>2. ASSUME NEW l \in Keyed, NEW pls \in SUBSET Places, letter[l] = "none",
               InsertRow(l, "sending", pls) \/ InsertRow(l, "demo", pls),
               l \in Ids => place'[l] \in pls
        PROVE  LettersTrue' /\ Stored' /\ Linked'
    <3>1. \A k \in Letters : k # l => letter'[k] = letter[k]
      BY <1>0, <2>2 DEF InsertRow, RowTypes
    <3>2. letter'[l] \in {"sending", "demo"} /\ about'[l] = pls
      BY <1>0, <2>2 DEF InsertRow, RowTypes
    <3>3. LettersTrue' /\ Stored'
      BY <1>0, <2>a, <2>2, <3>1, <3>2 DEF LettersTrue, Stored, RowTypes
    <3>4. Linked'
      BY <1>0, <1>p, <2>2, <3>1, <3>2 DEF Linked
    <3>. QED  BY <3>3, <3>4
  <2>. QED  BY <1>3, <2>1, <2>2, InsertedRow
<1>4. ASSUME NEW p \in Procs, TakeDraft(p) PROVE LettersTrue' /\ Stored' /\ Linked'
  <2>1. job[p] \in Drafts
    BY <1>4 DEF TakeDraft, Truthful, DeliveryInv, Working
  <2>2. letter' = [letter EXCEPT ![job[p]] = "sending"] /\ UNCHANGED <<about, accepted>>
    BY <1>4 DEF TakeDraft, history
  <2>3. \A i \in Ids : letter'[i] = letter[i]
    BY <1>0, <2>1, <2>2 DEF RowTypes
  <2>. QED  BY <1>0, <1>p, <2>1, <2>2, <2>3 DEF LettersTrue, Stored, Linked, RowTypes
<1>5. ASSUME NEW p \in Procs, CallProvider(p) PROVE LettersTrue' /\ Stored' /\ Linked'
  <2>1. letter[job[p]] # "none"
    BY <1>0, <1>5 DEF CallProvider, Truthful, DeliveryInv, Working, Owned, Stored, Letters
  <2>2. UNCHANGED letter /\ accepted' \subseteq accepted \cup {job[p]}
    BY <1>5 DEF CallProvider, rows
  <2>. QED  BY <1>0, <1>1, <2>1, <2>2 DEF Stored
<1>6. ASSUME NEW p \in Procs, RecordLetter(p) \/ RecordDispatch(p) \/ RecordCombined(p)
      PROVE  LettersTrue' /\ Stored' /\ Linked'
  <2>1. UNCHANGED <<about, accepted>>
    BY <1>6 DEF RecordLetter, RecordDispatch, RecordCombined, history
  <2>2. /\ job[p] \in Letters /\ letter[job[p]] # "none"
        /\ \/ UNCHANGED letter
           \/ SetLetter(job[p], "sent") /\ result[p] = "ok"
           \/ SetLetter(job[p], "delivery_error") /\ result[p] # "demo"
           \/ SetLetter(job[p], "demo") /\ result[p] = "demo"
        /\ result[p] = "ok" => job[p] \in accepted
    BY <1>6, RecordRows
  <2>3. job[p] \in Drafts => result[p] # "demo"
    BY <1>0, <1>6 DEF Truthful, TruthInv, Honest, Stored, RecordLetter, RecordDispatch, RecordCombined
  <2>4. \A l \in Letters : letter[l] = "none" <=> letter'[l] = "none"
    BY <1>0, <2>2 DEF SetLetter, RowTypes
  <2>5. LettersTrue'
    BY <1>0, <2>1, <2>2 DEF LettersTrue, SetLetter, RowTypes
  <2>6. Linked'
    BY <1>0, <1>p, <2>4 DEF Linked
  <2>7. Stored'
    BY <1>0, <2>1, <2>2, <2>3, <2>4 DEF Stored, SetLetter, RowTypes
  <2>. QED  BY <2>5, <2>6, <2>7
<1>7. ASSUME People PROVE LettersTrue' /\ Stored' /\ Linked'
  <2>1. ASSUME NEW r \in Rfqs, NEW s \in Suppliers \cup {Other}, Decide(r, s)
        PROVE  LettersTrue' /\ Stored' /\ Linked'
    <3>1. UNCHANGED accepted /\ \A l \in Letters :
            letter'[l] = letter[l] \/ (letter[l] = "draft" /\ letter'[l] = "cancelled")
      BY <2>1 DEF Decide, history
    <3>. QED  BY <1>0, <1>p, <3>1 DEF LettersTrue, Stored, Linked, RowTypes
  <2>2. CASE UNCHANGED <<letter, accepted>>
    BY <1>0, <1>1, <2>2 DEF Stored
  <2>. QED  BY <1>7, <2>1, <2>2
            DEF People, Select, SetExclusion, Remove, DispatchDemo, ReplyArrives, rows, history
<1>8. CASE UNCHANGED vars
  BY <1>0, <1>1, <1>8 DEF vars, rows, history, Stored
<1>. QED  BY <1>2, <1>3, <1>4, <1>5, <1>6, <1>7, <1>8 DEF Next, Move, Sends

\* A recipient becomes "sent" only if its place has been reached.
LEMMA RecipientsRest ==
  ASSUME Truthful, Grows,
         \A i \in Ids : rcpt'[i] = "sent" => rcpt[i] = "sent" \/ (i < nextId /\ Reached(place[i]))
  PROVE  RecipientsTrue'
<1>1. ASSUME NEW i \in Ids, rcpt'[i] = "sent" PROVE Reached(place[i])' /\ place'[i] = place[i]
  <2>1. i < nextId /\ Reached(place[i])
    BY <1>1 DEF Truthful, TruthInv, DeliveryInv, Numbered, RecipientsTrue
  <2>2. place'[i] = place[i]
    BY <2>1 DEF Grows
  <2>3. PICK pl : pl = place[i]
    OBVIOUS
  <2>4. Reached(pl)'
    BY <2>1, <2>3, ReachedStays DEF Truthful, TruthInv
  <2>. QED  BY <2>2, <2>3, <2>4
<1>. QED  BY <1>1 DEF RecipientsTrue, Reached

LEMMA FlushTells ==
  ASSUME Truthful, NEW p \in Procs, Flush(p), NEW i \in Ids, rcpt'[i] = "sent"
  PROVE  rcpt[i] = "sent" \/ (i < nextId /\ Reached(place[i]))
<1>1. CASE i \in Pending(p)
  <2>1. pend[p][i] = "sent"
    BY <1>1 DEF Flush
  <2>2. letter[i] = "sent" /\ i \in Letters
    BY <2>1 DEF Truthful, TruthInv, Honest, Letters, Keyed
  <2>3. i \in accepted /\ place[i] \in about[i] /\ i < nextId
    BY <2>2 DEF Truthful, TruthInv, LettersTrue, Linked, DeliveryInv, Numbered
  <2>. QED  BY <2>2, <2>3 DEF Reached
<1>2. CASE i \notin Pending(p)
  BY <1>2 DEF Flush
<1>. QED  BY <1>1, <1>2

LEMMA RecipientsStep ==
  ASSUME Truthful, [Next]_vars PROVE RecipientsTrue'
<1>g. Grows
  BY StepGrows
<1>0. Ids \subseteq Nat /\ Linked /\ Numbered /\ Ids \subseteq Letters
  BY DEF Truthful, TruthInv, DeliveryInv, Ids, Letters, Keyed
<1>1. ASSUME \A i \in Ids : rcpt'[i] = "sent" => rcpt[i] = "sent" PROVE RecipientsTrue'
  BY <1>1, <1>g, RecipientsRest
<1>2. ASSUME NEW p \in Procs, Begins(p) \/ (Loops(p) /\ ~DispatchEnds(p)) \/ Die(p)
      PROVE  RecipientsTrue'
  <2>1. UNCHANGED rcpt
    BY <1>2 DEF Begins, ConversationBegins, MailBegins, CombinedBegins, DraftBegins, DispatchBegins,
      AutoBegins, Start, Loops, DispatchSkips, DispatchPicks, AutoSkips, AutoPicks,
      AutoEnds, Die, recipients
  <2>. QED  BY <1>1, <2>1
<1>3. ASSUME NEW p \in Procs, DispatchEnds(p) \/ InsertForRecipient(p) PROVE RecipientsTrue'
  <2>1. CASE UNCHANGED rcpt
    BY <1>1, <2>1
  <2>2. CASE Flush(p)
    BY <1>g, <2>2, FlushTells, RecipientsRest
  <2>. QED  BY <1>3, <2>1, <2>2 DEF DispatchEnds, InsertForRecipient
<1>4. ASSUME NEW p \in Procs, InsertAuto(p) PROVE RecipientsTrue'
  <2>1. UNCHANGED rcpt \/ rcpt' = [rcpt EXCEPT ![nextId] = "queued"]
    BY <1>4 DEF InsertAuto, AddRecipient, recipients
  <2>. QED  BY <1>1, <2>1 DEF Truthful, DeliveryInv, TypeOK, RecipientTypes
<1>5. ASSUME NEW p \in Procs, InsertKeyed(p) \/ TakeDraft(p) \/ CallProvider(p) \/ RecordLetter(p)
      PROVE  RecipientsTrue'
  BY <1>1, <1>5 DEF InsertKeyed, TakeDraft, CallProvider, RecordLetter, recipients
<1>6. ASSUME NEW p \in Procs, RecordDispatch(p) PROVE RecipientsTrue'
  <2>1. UNCHANGED rcpt \/ (/\ result[p] = "ok" \/ SetRecipients({job[p]}, "error")
                           /\ result[p] = "ok" => SetRecipients({job[p]}, "sent"))
    BY <1>6 DEF RecordDispatch
  <2>2. result[p] = "ok" => job[p] \in accepted /\ letter[job[p]] # "none"
    BY <1>6, RecordRows
  <2>3. job[p] \in Ids
    BY <1>6 DEF RecordDispatch, Truthful, TruthInv, Honest
  <2>4. result[p] = "ok" => job[p] < nextId /\ Reached(place[job[p]])
    BY <1>0, <2>2, <2>3 DEF Linked, Numbered, Reached
  <2>. QED  BY <1>g, <1>1, <2>1, <2>4, RecipientsRest DEF SetRecipients
<1>7. ASSUME NEW p \in Procs, RecordCombined(p) PROVE RecipientsTrue'
  <2>. DEFINE R == IF kind[p] = "auto" THEN {job[p]} ELSE queue[p]
  <2>1. \/ UNCHANGED rcpt \/ SetRecipients(R, "error")
        \/ result[p] \notin {"error", "raised"} /\ SetRecipients(R, "sent")
    BY <1>7 DEF RecordCombined
  <2>2. /\ pc[p] = "record" /\ kind[p] \in {"combined", "auto"} /\ Honest(p) /\ Working(p)
        /\ queue[p] \subseteq Ids
    BY <1>7 DEF RecordCombined, Truthful, TruthInv, DeliveryInv, TypeOK, ThreadTypes
  <2>3. job[p] \in Letters /\ letter[job[p]] # "none"
    BY <1>7, RecordRows
  <2>4. result[p] \notin {"error", "raised"} => job[p] \in accepted \/ letter[job[p]] = "demo"
    BY <2>2 DEF Honest
  <2>5. \A i \in R : i \in Ids /\ i < nextId /\ place[i] \in about[job[p]]
    BY <1>0, <2>2, <2>3 DEF Honest, Working, Linked, Numbered
  <2>6. result[p] \notin {"error", "raised"} => \A i \in R : i < nextId /\ Reached(place[i])
    BY <2>3, <2>4, <2>5 DEF Reached
  <2>. HIDE DEF R
  <2>. QED  BY <1>g, <1>1, <2>1, <2>6, RecipientsRest DEF SetRecipients
<1>8. ASSUME People PROVE RecipientsTrue'
  <2>1. ASSUME NEW pl \in Places, Select(pl) PROVE RecipientsTrue'
    BY <1>1, <2>1 DEF Select, AddRecipient, Truthful, DeliveryInv, TypeOK, RecipientTypes
  <2>2. ASSUME NEW pl \in Places, SetExclusion(pl) PROVE RecipientsTrue'
    BY <1>1, <2>2 DEF SetExclusion, SetRecipients
  <2>3. ASSUME NEW i \in Ids, Remove(i) PROVE RecipientsTrue'
    BY <1>1, <2>3 DEF Remove, SetRecipients
  <2>4. ASSUME NEW r \in Rfqs, DispatchDemo(r) PROVE RecipientsTrue'
    <3>1. PICK Q \in SUBSET Ids : /\ \A i \in Q : rcpt[i] = "queued"
                                  /\ rcpt' = [i \in Ids |-> IF i \in Q THEN "sent" ELSE rcpt[i]]
                                  /\ demo' = demo \cup {place[i] : i \in Q}
                                  /\ UNCHANGED <<place, letter, about, accepted>>
      BY <2>4 DEF DispatchDemo, QueuedIn, history
    <3>2. \A i \in Ids : rcpt'[i] = "sent" => i \in Q \/ rcpt[i] = "sent"
      BY <3>1
    <3>3. \A i \in Ids : rcpt[i] = "sent" => Reached(place[i])
      BY DEF Truthful, TruthInv, RecipientsTrue
    <3>. QED  BY <3>1, <3>2, <3>3 DEF RecipientsTrue, Reached
  <2>5. ASSUME NEW r \in Rfqs, ReplyArrives(r) \/ \E s : Decide(r, s) PROVE RecipientsTrue'
    BY <1>1, <2>5 DEF ReplyArrives, Decide, recipients
  <2>. QED  BY <1>8, <2>1, <2>2, <2>3, <2>4, <2>5 DEF People
<1>9. CASE UNCHANGED vars
  BY <1>1, <1>9 DEF vars, recipients
<1>. QED  BY <1>2, <1>3, <1>4, <1>5, <1>6, <1>7, <1>8, <1>9 DEF Next, Move, Sends

-----------------------------------------------------------------------------
(* What the threads remember, and the theorem. *)

LEMMA EndedHonest == ASSUME ThreadTypes, NEW p \in Procs, End(p) PROVE Honest(p)'
<1>1. pc'[p] = "idle" /\ kind'[p] = "none" /\ pend'[p] = NothingPending
  BY DEF End, Goto, ThreadTypes
<1>. QED  BY <1>1 DEF Honest, NothingPending

\* No thread but one inside a dispatch has assigned a status and not flushed it.
LEMMA BegunHonest == ASSUME Truthful, Grows, NEW p \in Procs, Begins(p) PROVE Honest(p)'
<1>0. Honest(p) /\ ThreadTypes
  BY DEF Truthful, TruthInv, DeliveryInv, TypeOK
<1>1. \A i \in Ids : pend'[p][i] = "sent" => letter'[i] = "sent"
  <2>1. UNCHANGED <<pend, letter>>
    BY BegunKeeps DEF Truthful, Begins, ConversationBegins, MailBegins, CombinedBegins, DraftBegins,
      DispatchBegins, AutoBegins, Start
  <2>. QED  BY <1>0, <2>1 DEF Honest
<1>2. ASSUME NEW k, NEW c \in {"insert", "take", "loop"}, NEW l, NEW w, Start(p, k, c, l, w),
             ~(k = "dispatch" /\ c = "insert"), c = "take" => k = "draft",
             k = "combined" => \A i \in queue'[p] : place'[i] \in w
      PROVE  Honest(p)'
  <2>1. pc'[p] = c /\ kind'[p] = k /\ scope'[p] = w
    BY <1>0, <1>2 DEF Start, Goto, ThreadTypes
  <2>. QED  BY <1>1, <1>2, <2>1 DEF Honest
<1>3. ASSUME NEW k \in ClientKeys, NEW s \in Suppliers, NEW R \in SUBSET Rfqs,
             CombinedBegins(p, k, s, R)
      PROVE  Honest(p)'
  <2>1. Start(p, "combined", "insert", k, R \X {s})
    BY <1>3 DEF CombinedBegins
  <2>2. \A i \in queue'[p] : place'[i] \in R \X {s}
    BY <1>0, <1>3 DEF CombinedBegins, QueuedIn, Start, recipients, ThreadTypes
  <2>. QED  BY <1>2, <2>1, <2>2
<1>4. ASSUME NEW k, NEW pl, ConversationBegins(p, k, pl) PROVE Honest(p)'
  BY <1>2, <1>4 DEF ConversationBegins
<1>5. ASSUME NEW k, NEW pls, MailBegins(p, k, pls) PROVE Honest(p)'
  BY <1>2, <1>5 DEF MailBegins
<1>6. ASSUME NEW d, DraftBegins(p, d) PROVE Honest(p)'
  BY <1>2, <1>6 DEF DraftBegins
<1>7. ASSUME NEW r, DispatchBegins(p, r) PROVE Honest(p)'
  <2>1. Start(p, "dispatch", "loop", NoLetter, {r} \X Suppliers)
    BY <1>7 DEF DispatchBegins
  <2>. QED  BY <1>2, <2>1
<1>8. ASSUME NEW r, AutoBegins(p, r) PROVE Honest(p)'
  <2>1. Start(p, "auto", "loop", NoLetter, {r} \X Suppliers)
    BY <1>8 DEF AutoBegins
  <2>2. "auto" # "dispatch" /\ "auto" # "combined" 
        /\ "loop" # "take" /\ "loop" \in {"insert", "take", "loop"}
    OBVIOUS
  <2>. QED  BY <1>2, <2>1, <2>2
<1>. QED  BY <1>3, <1>4, <1>5, <1>6, <1>7, <1>8 DEF Begins

LEMMA LoopingHonest == ASSUME Truthful, NEW p \in Procs, Loops(p) PROVE Honest(p)'
<1>0. Honest(p) /\ ThreadTypes /\ UNCHANGED letter
  BY BegunKeeps DEF Truthful, TruthInv, DeliveryInv, TypeOK
<1>. USE <1>0 DEF Goto, recipients, rows, history
<1>1. ASSUME NEW i \in Ids, DispatchSkips(p, i) PROVE Honest(p)'
  <2>1. pc'[p] = "loop" /\ kind'[p] = "dispatch"
    BY <1>1 DEF DispatchSkips
  <2>2. \A j \in Ids : pend'[p][j] = "sent" => letter'[j] = "sent"
    BY <1>1 DEF DispatchSkips, Honest, ThreadTypes
  <2>. QED  BY <2>1, <2>2 DEF Honest
<1>2. ASSUME NEW i \in Ids, DispatchPicks(p, i) PROVE Honest(p)'
  <2>1. /\ pc'[p] = "insert" /\ kind'[p] = "dispatch" /\ job'[p] = i /\ target'[p] = place'[i]
        /\ UNCHANGED pend
    BY <1>2 DEF DispatchPicks, ThreadTypes
  <2>. QED  BY <2>1 DEF Honest
<1>3. CASE DispatchEnds(p) \/ AutoEnds(p)
  BY <1>3, EndedHonest DEF DispatchEnds, AutoEnds
<1>4. ASSUME NEW s \in Suppliers, AutoSkips(p, s) PROVE Honest(p)'
  BY <1>4 DEF AutoSkips, Honest
<1>5. ASSUME NEW pl \in Places, AutoPicks(p, pl) PROVE Honest(p)'
  <2>1. pc'[p] = "insert" /\ kind'[p] = "auto" /\ UNCHANGED pend
    BY <1>5 DEF AutoPicks, ThreadTypes
  <2>. QED  BY <2>1 DEF Honest
<1>. QED  BY <1>1, <1>2, <1>3, <1>4, <1>5 DEF Loops

LEMMA SendingHonest == ASSUME Truthful, Grows, NEW p \in Procs, Sends(p) PROVE Honest(p)'
<1>0. /\ Honest(p) /\ Working(p) /\ Numbered /\ RowTypes /\ ThreadTypes /\ RecipientTypes
  BY DEF Truthful, TruthInv, DeliveryInv, TypeOK
<1>s. \A i \in Ids : pend[p][i] = "sent" => letter'[i] = "sent"
  BY <1>0 DEF Honest, Grows
<1>q. kind[p] = "combined" => \A i \in queue[p] : place'[i] \in scope[p]
  BY <1>0 DEF Honest, Working, Grows, ThreadTypes
<1>. USE DEF Goto, recipients, rows, history
<1>e. ASSUME End(p) PROVE Honest(p)'
  BY <1>0, <1>e, EndedHonest
<1>n. ASSUME NextRecipient(p), kind[p] \in {"dispatch", "auto"} PROVE Honest(p)'
  <2>1. pc'[p] = "loop" /\ kind'[p] = kind[p] /\ pend'[p] = pend[p]
    BY <1>0, <1>n DEF NextRecipient, ThreadTypes
  <2>. QED  BY <1>n, <1>s, <2>1 DEF Honest
<1>1. CASE InsertKeyed(p) /\ ~End(p)
  <2>1. /\ \/ InsertRow(job[p], "sending", scope[p]) /\ pc' = [pc EXCEPT ![p] = "call"]
           \/ /\ kind[p] = "combined" /\ InsertRow(job[p], "demo", scope[p])
              /\ pc' = [pc EXCEPT ![p] = "record"] /\ result' = [result EXCEPT ![p] = "demo"]
        /\ UNCHANGED <<kind, job, scope, queue, pend>>
    BY <1>1 DEF InsertKeyed
  <2>2. /\ job[p] \in Keyed /\ job[p] \in Letters /\ kind[p] \in {"conversation", "mail", "combined"}
    BY <1>0, <1>1 DEF InsertKeyed, Working, Keyed, Letters
  <2>3. about'[job[p]] = scope[p]
    BY <1>0, <2>1, <2>2 DEF InsertRow, RowTypes
  <2>4. CASE pc'[p] = "call"
    BY <1>s, <1>q, <2>1, <2>2, <2>3, <2>4 DEF Honest
  <2>5. CASE pc'[p] # "call"
    <3>1. /\ pc'[p] = "record" /\ result'[p] = "demo" /\ kind[p] = "combined"
          /\ letter'[job[p]] = "demo"
      BY <1>0, <2>1, <2>2, <2>5 DEF InsertRow, RowTypes, ThreadTypes
    <3>. QED  BY <1>s, <1>q, <2>1, <2>2, <2>3, <3>1 DEF Honest
  <2>. QED  BY <2>4, <2>5
<1>2. CASE InsertForRecipient(p) /\ ~End(p)
  <2>1. /\ pc'[p] = "call" /\ kind'[p] = "dispatch" /\ job'[p] = job[p]
        /\ pend'[p] = NothingPending
    BY <1>0, <1>2 DEF InsertForRecipient, ThreadTypes
  <2>2. job[p] \in Ids
    BY <1>0, <1>2 DEF InsertForRecipient, Working
  <2>. QED  BY <2>1, <2>2 DEF Honest, NothingPending, Keyed
<1>3. CASE InsertAuto(p) /\ ~End(p)
  <2>1. /\ nextId <= MaxIds /\ job' = [job EXCEPT ![p] = nextId] /\ UNCHANGED <<kind, pend>>
        /\ kind[p] = "auto"
        /\ \/ pc' = [pc EXCEPT ![p] = "call"]
           \/ /\ InsertRow(nextId, "demo", {target[p]})
              /\ pc' = [pc EXCEPT ![p] = "record"] /\ result' = [result EXCEPT ![p] = "demo"]
    BY <1>3 DEF InsertAuto
  <2>2. job'[p] = nextId /\ nextId \in Ids /\ nextId \in Letters
    BY <1>0, <2>1 DEF RecipientTypes, Ids, Letters, Keyed, ThreadTypes
  <2>3. CASE pc'[p] = "call"
    BY <1>s, <2>1, <2>2, <2>3 DEF Honest, Keyed
  <2>4. CASE pc'[p] # "call"
    <3>1. pc'[p] = "record" /\ result'[p] = "demo" /\ letter'[nextId] = "demo"
      BY <1>0, <2>1, <2>2, <2>4 DEF InsertRow, RowTypes, ThreadTypes
    <3>. QED  BY <1>s, <2>1, <2>2, <3>1 DEF Honest, Keyed
  <2>. QED  BY <2>3, <2>4
<1>4. CASE TakeDraft(p)
  <2>1. /\ pc'[p] = "call" /\ UNCHANGED <<kind, job, scope, queue, pend>>
        /\ job[p] \in Drafts /\ kind[p] = "draft"
    BY <1>0, <1>4 DEF TakeDraft, Working, Honest, ThreadTypes
  <2>. QED  BY <1>4, <1>s, <1>q, <2>1 DEF Honest, Truthful, TruthInv
<1>5. CASE CallProvider(p)
  <2>1. PICK answer \in {"ok", "error", "raised"} :
          /\ result' = [result EXCEPT ![p] = answer]
          /\ answer = "ok" => accepted' = accepted \cup {job[p]}
    BY <1>5 DEF CallProvider
  <2>2. /\ pc[p] = "call" /\ pc'[p] = "record" /\ result'[p] = answer
        /\ UNCHANGED <<kind, job, scope, queue, pend, about>>
    BY <1>0, <1>5, <2>1 DEF CallProvider, ThreadTypes
  <2>. QED  BY <1>0, <1>s, <1>q, <2>1, <2>2 DEF Honest
<1>6. CASE RecordLetter(p) \/ RecordDispatch(p) \/ RecordCombined(p)
  BY <1>6, <1>e, <1>n DEF RecordLetter, RecordDispatch, RecordCombined
<1>. QED  BY <1>1, <1>2, <1>3, <1>4, <1>5, <1>6, <1>e DEF Sends

LEMMA PeopleHonest ==
  ASSUME Truthful, Grows, People \/ UNCHANGED vars, NEW p \in Procs PROVE Honest(p)'
<1>1. UNCHANGED thread
  BY DEF People, Select, Remove, SetExclusion, DispatchDemo, ReplyArrives, Decide, vars
<1>. QED  BY <1>1, RestStaysHonest DEF Rests, thread

LEMMA TruthStep == Truthful /\ [Next]_vars => TruthInv'
<1>. SUFFICES ASSUME Truthful, [Next]_vars PROVE TruthInv'
  OBVIOUS
<1>g. Grows
  BY StepGrows
<1>1. ASSUME NEW q \in Procs PROVE Honest(q)'
  <2>1. ASSUME NEW p \in Procs, Begins(p) \/ Loops(p) \/ Sends(p) \/ Die(p) PROVE Honest(q)'
    <3>1. CASE q = p
      <4>1. CASE Die(p)
        BY <3>1, <4>1, EndedHonest DEF Die, Truthful, DeliveryInv, TypeOK
      <4>. QED  BY <1>g, <2>1, <3>1, <4>1, BegunHonest, LoopingHonest, SendingHonest
    <3>2. CASE q # p
      BY <1>g, <2>1, <3>2, OneAtATime, RestStaysHonest DEF Truthful
    <3>. QED  BY <3>1, <3>2
  <2>2. CASE People \/ UNCHANGED vars
    BY <1>g, <2>2, PeopleHonest
  <2>. QED  BY <2>1, <2>2 DEF Next, Move
<1>. QED  BY <1>1, LettersStep, RecipientsStep DEF TruthInv

LEMMA TruthInit == Init => TruthInv
<1>. SUFFICES ASSUME Init PROVE TruthInv
  OBVIOUS
<1>1. LettersTrue /\ RecipientsTrue
  BY DEF Init, LettersTrue, RecipientsTrue
<1>2. \A i \in Ids : letter[i] = "none"
  BY DeliveryAssumption DEF Init, Letters, Keyed
<1>3. Linked
  BY <1>2 DEF Linked
<1>4. Stored
  BY DEF Init, Stored, Letters
<1>5. \A p \in Procs : Honest(p)
  BY DEF Init, Honest, NothingPending
<1>. QED  BY <1>1, <1>3, <1>4, <1>5 DEF TruthInv

\* A letter, or a recipient, that says "sent" tells the truth, whatever
\* requests and deaths there were: the status is written after the answer of
\* the provider, and a status that is assigned early is flushed late.
THEOREM SentTellsTheTruth == Spec => []SentIsTrue
<1>1. TruthInv => SentIsTrue
  BY DEF TruthInv, LettersTrue, RecipientsTrue, Reached, SentIsTrue
<1>2. Spec => []TruthInv
  BY TruthInit, TruthStep, DeliveryInvariant, PTL DEF Spec, Truthful
<1>. QED  BY <1>1, <1>2, PTL

-----------------------------------------------------------------------------
(* The list of the automatic dispatch. *)

\* The recipients of the automatic dispatch exist, and what was taken off the
\* list stays off it.
ListInv ==
  /\ \A i \in Ids : i < nextId => rcpt[i] # "none"
  /\ \A i \in auto : i < nextId
  /\ AutoWritesOnce

\* A step that makes no recipient of the automatic dispatch.
ListRests ==
  /\ nextId <= nextId' /\ auto' = auto
  /\ \A i \in Ids : i < nextId =>
       /\ place'[i] = place[i] /\ (rcpt'[i] = "none" => rcpt[i] = "none")
       /\ rcpt[i] = "removed" => rcpt'[i] = "removed"
  /\ \A i \in Ids : i >= nextId /\ i < nextId' => rcpt'[i] # "none"

LEMMA RestingList == ASSUME DeliveryInv, ListInv, ListRests, TypeOK' PROVE ListInv'
<1>0. /\ Ids \subseteq Nat /\ auto \subseteq Ids /\ nextId \in Nat /\ nextId' \in Nat
  BY DEF DeliveryInv, TypeOK, RecipientTypes, Ids
<1>1. ASSUME NEW i \in Ids, i < nextId' PROVE rcpt'[i] # "none"
  <2>1. i < nextId => rcpt[i] # "none" /\ (rcpt'[i] = "none" => rcpt[i] = "none")
    BY DEF ListInv, ListRests
  <2>2. i >= nextId => rcpt'[i] # "none"
    BY <1>1 DEF ListRests
  <2>. QED  BY <1>0, <2>1, <2>2
<1>2. \A i \in auto' : i < nextId'
  BY <1>0 DEF ListInv, ListRests
<1>3. \A i \in auto : i \in Ids /\ place'[i] = place[i] /\ (rcpt[i] = "removed" => rcpt'[i] = "removed")
  BY <1>0 DEF ListInv, ListRests
<1>4. AutoWritesOnce'
  BY <1>3 DEF ListInv, ListRests, AutoWritesOnce
<1>. QED  BY <1>1, <1>2, <1>4 DEF ListInv

\* A status is given to recipients that have one and were not removed.
LEMMA StatusRests ==
  ASSUME DeliveryInv, UNCHANGED <<nextId, place, auto>>,
         \A i \in Ids : rcpt'[i] = rcpt[i] \/ (Live(i) /\ rcpt'[i] # "none")
  PROVE  ListRests
<1>1. nextId \in Nat /\ Ids \subseteq Nat
  BY DEF DeliveryInv, TypeOK, RecipientTypes, Ids
<1>. QED  BY <1>1 DEF ListRests, Live

\* A recipient with the next number, of a place that has none, made by a
\* person or by the automatic dispatch.
LEMMA AddedRests ==
  ASSUME DeliveryInv, NEW pl, AddRecipient(pl), nextId <= MaxIds
  PROVE  /\ nextId \in Ids /\ nextId' = nextId + 1
         /\ \A i \in Ids : IF i = nextId THEN place'[i] = pl /\ rcpt'[i] = "queued"
                           ELSE place'[i] = place[i] /\ rcpt'[i] = rcpt[i]
         /\ UNCHANGED auto => ListRests
<1>1. RecipientTypes /\ nextId \in Ids /\ nextId \in Nat /\ Ids \subseteq Nat
  BY DEF DeliveryInv, TypeOK, RecipientTypes, Ids
<1>2. /\ nextId' = nextId + 1
      /\ \A i \in Ids : IF i = nextId THEN place'[i] = pl /\ rcpt'[i] = "queued"
                        ELSE place'[i] = place[i] /\ rcpt'[i] = rcpt[i]
  BY <1>1 DEF AddRecipient, RecipientTypes
<1>3. /\ nextId <= nextId'
      /\ \A i \in Ids : i < nextId => i # nextId
      /\ \A i \in Ids : i >= nextId /\ i < nextId' => i = nextId
  BY <1>1, <1>2
<1>4. UNCHANGED auto => ListRests
  BY <1>2, <1>3 DEF ListRests
<1>. QED  BY <1>1, <1>2, <1>4

LEMMA InsertAutoList ==
  ASSUME DeliveryInv, ListInv, TypeOK', NEW p \in Procs, InsertAuto(p) PROVE ListInv'
<1>1. CASE UNCHANGED <<nextId, place, rcpt, auto>>
  BY <1>1, StatusRests, RestingList
<1>2. CASE ~UNCHANGED <<nextId, place, rcpt, auto>>
  <2>0. /\ nextId \in Nat /\ Ids \subseteq Nat /\ auto \subseteq Ids
    BY DEF DeliveryInv, TypeOK, RecipientTypes, Ids
  <2>1. /\ nextId <= MaxIds /\ AddRecipient(target[p]) /\ auto' = auto \cup {nextId}
        /\ RecipientOf(target[p]) = {}
    BY <1>2 DEF InsertAuto, recipients
  <2>2. /\ nextId \in Ids /\ nextId' = nextId + 1
        /\ \A i \in Ids : IF i = nextId THEN place'[i] = target[p] /\ rcpt'[i] = "queued"
                          ELSE place'[i] = place[i] /\ rcpt'[i] = rcpt[i]
    BY <2>1, AddedRests
  <2>3. \A i \in Ids : i < nextId' => i = nextId \/ i < nextId
    BY <2>0, <2>2
  <2>4. \A i \in Ids : i < nextId' => rcpt'[i] # "none"
    BY <2>2, <2>3 DEF ListInv
  <2>5. \A i \in auto : i < nextId /\ i \in Ids
    BY <2>0 DEF ListInv
  <2>6. \A i \in auto' : i < nextId'
    BY <2>0, <2>1, <2>2, <2>5
  <2>7. ASSUME NEW i \in auto', NEW j \in auto', i < j, place'[i] = place'[j]
        PROVE  rcpt'[i] = "removed"
    <3>1. i # nextId
      BY <2>0, <2>1, <2>2, <2>5, <2>7
    <3>2. i \in auto /\ i < nextId /\ place'[i] = place[i] /\ rcpt'[i] = rcpt[i]
      BY <2>1, <2>2, <2>5, <3>1
    <3>3. CASE j = nextId
      <4>1. place[i] = target[p] /\ ~Live(i)
        BY <2>0, <2>1, <2>2, <2>7, <3>2, <3>3 DEF RecipientOf
      <4>2. rcpt[i] \in {"none", "queued", "sent", "error", "removed"} /\ rcpt[i] # "none"
        BY <2>0, <3>2 DEF ListInv, DeliveryInv, TypeOK, RecipientTypes
      <4>. QED  BY <3>2, <4>1, <4>2 DEF Live
    <3>4. CASE j # nextId
      BY <2>1, <2>2, <2>5, <2>7, <3>2, <3>4 DEF ListInv, AutoWritesOnce
    <3>. QED  BY <3>3, <3>4
  <2>. QED  BY <2>4, <2>6, <2>7 DEF ListInv, AutoWritesOnce
<1>. QED  BY <1>1, <1>2

LEMMA ListStep == DeliveryInv /\ ListInv /\ [Next]_vars => ListInv'
<1>. SUFFICES ASSUME DeliveryInv, ListInv, [Next]_vars PROVE ListInv'
  OBVIOUS
<1>0. TypeOK' /\ pend \in [Procs -> [Ids -> {"none", "sent", "error"}]]
  BY NextTypes DEF DeliveryInv, TypeOK, ThreadTypes
<1>1. ASSUME UNCHANGED <<nextId, place, auto>>,
             \A i \in Ids : rcpt'[i] = rcpt[i] \/ (Live(i) /\ rcpt'[i] # "none")
      PROVE  ListInv'
  BY <1>0, <1>1, StatusRests, RestingList
<1>2. ASSUME NEW p \in Procs, Begins(p) \/ (Loops(p) /\ ~DispatchEnds(p)) \/ Die(p)
      PROVE  ListInv'
  BY <1>1, <1>2 DEF Begins, ConversationBegins, MailBegins, CombinedBegins, DraftBegins,
    DispatchBegins, AutoBegins, Start, Loops, DispatchSkips, DispatchPicks, AutoSkips, AutoPicks,
    AutoEnds, Die, recipients, history
<1>3. ASSUME NEW p \in Procs, DispatchEnds(p) \/ InsertForRecipient(p) PROVE ListInv'
  <2>1. \A i \in Ids : rcpt'[i] = rcpt[i] \/ (Live(i) /\ rcpt'[i] # "none")
    BY <1>3 DEF DispatchEnds, InsertForRecipient, Flush, CanFlush, Pending
  <2>. QED  BY <1>1, <1>3, <2>1 DEF DispatchEnds, InsertForRecipient, history
<1>4. ASSUME NEW p \in Procs, InsertAuto(p) PROVE ListInv'
  BY <1>0, <1>4, InsertAutoList
<1>5. ASSUME NEW p \in Procs, InsertKeyed(p) \/ TakeDraft(p) \/ CallProvider(p) \/ RecordLetter(p)
      PROVE  ListInv'
  BY <1>1, <1>5 DEF InsertKeyed, TakeDraft, CallProvider, RecordLetter, recipients, history
<1>6. ASSUME NEW p \in Procs, RecordDispatch(p) PROVE ListInv'
  BY <1>1, <1>6 DEF RecordDispatch, SetRecipients, history
<1>7. ASSUME NEW p \in Procs, RecordCombined(p) PROVE ListInv'
  <2>. DEFINE R == IF kind[p] = "auto" THEN {job[p]} ELSE queue[p]
  <2>1. \/ UNCHANGED rcpt
        \/ /\ \A i \in R : Live(i)
           /\ SetRecipients(R, "error") \/ SetRecipients(R, "sent")
    BY <1>7 DEF RecordCombined
  <2>2. UNCHANGED <<nextId, place, auto>>
    BY <1>7 DEF RecordCombined, history
  <2>. HIDE DEF R
  <2>. QED  BY <1>1, <2>1, <2>2 DEF SetRecipients
<1>8. ASSUME People PROVE ListInv'
  <2>1. ASSUME NEW pl \in Places, Select(pl) PROVE ListInv'
    BY <1>0, <2>1, AddedRests, RestingList DEF Select, history
  <2>2. ASSUME NEW pl \in Places, SetExclusion(pl) PROVE ListInv'
    BY <1>1, <2>2 DEF SetExclusion, SetRecipients, QueuedIn, Live, history
  <2>3. ASSUME NEW i \in Ids, Remove(i) PROVE ListInv'
    BY <1>1, <2>3 DEF Remove, SetRecipients, Live, history
  <2>4. ASSUME NEW r \in Rfqs, DispatchDemo(r) PROVE ListInv'
    BY <1>1, <2>4 DEF DispatchDemo, QueuedIn, Live, history
  <2>5. ASSUME NEW r \in Rfqs, ReplyArrives(r) \/ \E s : Decide(r, s) PROVE ListInv'
    BY <1>1, <2>5 DEF ReplyArrives, Decide, recipients, history
  <2>. QED  BY <1>8, <2>1, <2>2, <2>3, <2>4, <2>5 DEF People
<1>9. CASE UNCHANGED vars
  BY <1>1, <1>9 DEF vars, recipients, history
<1>. QED  BY <1>2, <1>3, <1>4, <1>5, <1>6, <1>7, <1>8, <1>9 DEF Next, Move, Sends

\* A company gets a second automatic letter for an RFQ only if a person took
\* the recipient of the first one off the list, however many searches end for
\* it and whichever of their threads are dead or late (the recipient and the
\* attempt are one transaction of dispatch_combined_message).
THEOREM AutomaticLetterIsOne == Spec => []AutoWritesOnce
<1>1. Init => ListInv
  <2>1. ASSUME Init PROVE nextId = 1 /\ auto = {} /\ \A i \in Ids : i >= 1
    BY <2>1 DEF Init, Ids
  <2>2. ASSUME Init PROVE \A i \in Ids : ~(i < nextId)
    BY <2>2, <2>1 DEF Ids
  <2>. QED  BY <2>1, <2>2 DEF ListInv, AutoWritesOnce
<1>2. Spec => []ListInv
  BY <1>1, ListStep, DeliveryInvariant, PTL DEF Spec
<1>3. ListInv => AutoWritesOnce
  BY DEF ListInv
<1>. QED  BY <1>2, <1>3, PTL

=============================================================================
