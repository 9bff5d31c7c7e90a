----------------------------- MODULE EmailInbox -----------------------------
(***************************************************************************)
(* The mailbox: import of suppliers' letters, the facts taken from them,   *)
(* the automatic answer and the resumption of a dialogue that a person or  *)
(* a later letter has unblocked.                                           *)
(*                                                                         *)
(* Source: backend/app/services/email_workflow.py, email_identity.py,      *)
(* communication_profiles.py, communication_email_worker.py,               *)
(* connectors/email.py and api/escalations.py.                             *)
(*                                                                         *)
(* The mail worker and the requests of people run the same sync_inbox at   *)
(* the same time, with no lock between them.  A sync commits in the middle *)
(* of a letter, so what it has not committed is kept apart, in "held": a   *)
(* death or an exception loses that part and nothing else.  The letters    *)
(* modelled come from one address, whose owner the system may or may not   *)
(* know yet.                                                               *)
(***************************************************************************)
EXTENDS Naturals, FiniteSets, Sequences, SequencesExt, FiniteSetsExt

CONSTANTS
  Letters,     \* numbers, in the order of their arrival
  Rfqs,        \* numbers, in the order of their ids
  Mail,        \* what may come: some letters and the requests they name
  OffersOf,    \* price offers in a letter
  Odd,         \* letters whose offers ask for a person
  Syncs, Poller,
  Limit,       \* letters fetched at once
  Mode,        \* auto_followup_mode: "off", "draft" or "send"
  MaxPeople,   \* bound: requests by people
  MaxFaults,   \* bound: deaths and failures
  Earlier,     \* those of them that have come before
  Nothing

ASSUME InboxAssumption ==
  /\ Letters \subseteq Nat /\ IsFiniteSet(Letters)
  /\ Rfqs \subseteq Nat /\ IsFiniteSet(Rfqs)
  /\ \A m \in Mail : DOMAIN m \subseteq Letters /\ \A l \in DOMAIN m : m[l] \subseteq Rfqs
  /\ OffersOf \in [Letters -> Nat] /\ Odd \subseteq Letters
  /\ Poller \in Syncs /\ Limit \in Nat \ {0}
  /\ Mode \in {"off", "draft", "send"}
  /\ Earlier \subseteq Letters
  /\ MaxPeople \in Nat /\ MaxFaults \in Nat
  /\ Nothing \notin Letters /\ Nothing \notin Rfqs

VARIABLES
  about,     \* the requests a letter names
  box,       \* the mailbox
  mails,     \* communications, in the order of their creation
  known,     \* the address belongs to a contact of the supplier
  linked,    \* stored letters with a contact
  audits,    \* communication_policy_audits of a letter and a request
  quotes,    \* quotations taken from a letter for a request
  open,      \* unresolved escalations
  settled,   \* letters whose identity escalation is resolved
  status,    \* status of the requests
  sync,      \* what each sync does
  held,      \* what each sync has written and not committed
  backfill,  \* the worker has not had a sync without errors yet
  replies,   \* history: answers the mail server has taken
  marked,    \* history: letters a sync has marked as read
  handled,   \* history: letters whose handling came to its end
  people, faults

store == <<mails, known, linked, audits, quotes, open, settled, status>>
history == <<replies, marked, handled>>
bounds == <<people, faults>>
vars == <<about, box, store, sync, held, backfill, history, bounds>>

Pairs == Letters \X Rfqs
Cases == Rfqs \X (Letters \cup {Nothing}) \X {"identity", "other"}

Statuses == {"sent", "collecting", "parsed", "escalated"}
Resumes == {"none", "pending", "blocked", "done"}

Audit(of, identity) == [of |-> of, identity |-> identity, resume |-> "none", why |-> "none"]
Incoming(l) == [way |-> "in", letter |-> l, rfq |-> Nothing, status |-> "received"]
Answer(l, r, s) == [way |-> "out", letter |-> l, rfq |-> r, status |-> s]

Resting == [pc |-> "idle", via |-> "none", letter |-> Nothing, rfq |-> Nothing,
            audit |-> 0, last |-> Nothing, left |-> {}, offers |-> 0,
            todo |-> {}, batch |-> {}, done |-> {}, errors |-> FALSE]

\* Letters of the unknown sender may have come before: a person has their case.
Init ==
  /\ about \in Mail
  /\ LET old == Earlier \cap DOMAIN about
         escalated == {x \in old \X Rfqs : x[2] \in about[x[1]]}
     IN /\ box = [l \in Letters |-> IF l \in old THEN "seen" ELSE "coming"]
        /\ mails = SetToSeq({Incoming(l) : l \in old})
        /\ audits = [x \in Pairs |-> IF x \in escalated THEN <<Audit(0, TRUE)>> ELSE <<>>]
        /\ open = [c \in Cases |->
                     IF <<c[2], c[1]>> \in escalated /\ c[3] = "identity" THEN 1 ELSE 0]
        /\ status = [r \in Rfqs |->
                       IF \E x \in escalated : x[2] = r THEN "escalated" ELSE "sent"]
        /\ marked = old /\ handled = old
  /\ known = FALSE
  /\ linked = {}
  /\ quotes = [x \in Pairs |-> 0]
  /\ settled = {}
  /\ sync = [p \in Syncs |-> Resting]
  /\ held = [p \in Syncs |-> {}]
  /\ backfill = TRUE
  /\ replies = [x \in Pairs |-> 0]
  /\ people = 0 /\ faults = 0

-----------------------------------------------------------------------------
(* Reading the tables. *)

StoredIn(ms) == {ms[i].letter : i \in {j \in DOMAIN ms : ms[j].way = "in"}}
\* Mutant: only letters handled to their end count.
HandledLetters == handled

Stored == StoredIn(mails)

\* The supplier has been written to since the letter was stored.
AlreadyContinued(l, r) ==
  \E i, j \in DOMAIN mails :
    /\ i < j
    /\ mails[i].way = "in" /\ mails[i].letter = l
    /\ mails[j].way = "out" /\ mails[j].rfq = r
    /\ mails[j].status \in {"draft", "sent"}

Unresolved(o, r) == \E c \in Cases : c[1] = r /\ o[c] > 0
UnresolvedLetter(l, r) == \E k \in {"identity", "other"} : open[<<r, l, k>>] > 0

\* request_email_dialogue_resume for the audit i of a letter.
RequestResume(as, l, r, i, why) ==
  LET current == as[i].resume IN
  IF \/ current \in {"pending", "done"}
     \/ current = "blocked" /\ why # "human_resolved"
  THEN as
  ELSE IF AlreadyContinued(l, r)
  THEN [as EXCEPT ![i].resume = "done", ![i].why = why]
  ELSE [j \in DOMAIN as |->
          IF j = i THEN [as[j] EXCEPT !.resume = "pending", !.why = why]
          ELSE IF as[j].resume = "pending" THEN [as[j] EXCEPT !.resume = "done"]
          ELSE as[j]]

IdentityAudits(as) == {i \in DOMAIN as : as[i].identity}

\* An address is linked: identity escalations of the letters ls are closed
\* and their dialogues put up for resumption.
ResumeLinked(ls, as) ==
  [x \in Pairs |->
     IF /\ x[1] \in ls /\ as[x] # <<>>
        /\ open[<<x[2], x[1], "identity">>] > 0
     THEN RequestResume(as[x], x[1], x[2], Len(as[x]), "sender_identity_linked")
     ELSE as[x]]

\* backfill_resolved_sender_resume_requests: escalations closed earlier.
Backfilled(ls, as) ==
  [x \in Pairs |->
     IF x \in settled /\ x[1] \in ls /\ IdentityAudits(as[x]) # {}
     THEN RequestResume(as[x], x[1], x[2], Max(IdentityAudits(as[x])),
                        "sender_identity_linked")
     ELSE as[x]]

WithoutIdentity(ls, rs) ==
  [c \in Cases |-> IF c[1] \in rs /\ c[2] \in ls /\ c[3] = "identity" THEN 0 ELSE open[c]]

IdentityOf(ls, rs) == {x \in ls \X rs : open[<<x[2], x[1], "identity">>] > 0}

Restored(o, s, rs) ==
  [r \in Rfqs |-> IF r \in rs /\ s[r] = "escalated" /\ ~Unresolved(o, r)
                  THEN "collecting" ELSE s[r]]

-----------------------------------------------------------------------------
(* A session: what is written and not committed. *)

Change(what, l, r, n, s) == [what |-> what, letter |-> l, rfq |-> r, n |-> n, s |-> s]
Of(h, what) == {c \in h : c.what = what}

Put(h, r, s) ==
  {c \in h : ~(c.what = "status" /\ c.rfq = r)}
    \cup (IF s = status[r] THEN {} ELSE {Change("status", Nothing, r, 0, s)})

Escalate(h, l, r, kind) ==
  Put(h, r, "escalated") \cup {Change("open", l, r, 0, kind)}

Held(p, what, l, r, n) ==
  \E c \in Of(held[p], what) : c.letter = l /\ c.rfq = r /\ c.n = n
HeldElsewhere(p, what, l, r, n) == \E q \in Syncs \ {p} : Held(q, what, l, r, n)

Appended(x, h) ==
  LET new == {c \in Of(h, "audit") : <<c.letter, c.rfq>> = x} IN
  audits[x] \o SetToSeq({Audit(c.n, c.s = "identity") : c \in new})

Answered(x, as, h) ==
  [i \in DOMAIN as |->
     LET results == {c \in Of(h, "resume") : <<c.letter, c.rfq>> = x /\ c.n = i} IN
     IF results = {} THEN as[i] ELSE [as[i] EXCEPT !.resume = (CHOOSE c \in results : TRUE).s]]

\* Commit of h together with the row ms and o more escalations.
Commits(h, ms, auto) ==
  LET rows == Of(h, "row")
      links == {c.rfq : c \in Of(h, "link")}
      here == {l \in StoredIn(mails) \cup {c.letter : c \in rows} :
                 about[l] \cap links # {}}
      newly == here \ linked
      as == [x \in Pairs |-> Answered(x, Appended(x, h), h)]
      left == WithoutIdentity(newly, links)
  IN /\ mails' = mails \o [i \in 1 .. Cardinality(rows) |->
                             Incoming((CHOOSE c \in rows : TRUE).letter)] \o ms
     /\ known' = (known \/ links # {})
     /\ linked' = linked \cup here
                    \cup {l \in Letters : \E c \in rows : c.letter = l /\ c.n = 1}
     /\ audits' = [x \in Pairs |-> IF x[2] \in links
                                   THEN ResumeLinked(newly, as)[x] ELSE as[x]]
     /\ open' = [c \in Cases |->
                   left[c]
                     + Cardinality({d \in Of(h, "open") : <<d.rfq, d.letter, d.s>> = c})
                     + (IF c \in auto THEN 1 ELSE 0)]
     /\ settled' = settled \cup IdentityOf(newly, links)
     /\ status' = [r \in Rfqs |->
                     LET puts == {c \in Of(h, "status") : c.rfq = r} IN
                     IF puts = {} THEN status[r] ELSE (CHOOSE c \in puts : TRUE).s]

Commit(p) == Commits(held[p], <<>>, {}) /\ held' = [held EXCEPT ![p] = {}]

Hold(p, h) == held' = [held EXCEPT ![p] = h] /\ UNCHANGED store

At(p, pc) == sync[p].pc = pc
Here(p) == <<sync[p].letter, sync[p].rfq>>
Becomes(p, s) == sync' = [sync EXCEPT ![p] = s]
Goes(p, pc) == Becomes(p, [sync[p] EXCEPT !.pc = pc])

-----------------------------------------------------------------------------
(* A sync begins: senders found since are linked, dialogues are resumed. *)

\* The worker always, a person now and then.
Begins(p) ==
  /\ At(p, "idle")
  /\ p = Poller \/ people < MaxPeople
  /\ people' = IF p = Poller THEN people ELSE people + 1

\* rs: requests whose unknown sender the second check has recognised.
Reconcile(p) ==
  /\ Begins(p)
  /\ \E rs \in SUBSET {r \in Rfqs : \E l \in Stored \ linked : r \in about[l]} :
       LET found == {l \in Stored : about[l] \cap rs # {}}
           now == linked \cup found
           as == ResumeLinked(now, audits)
           o == WithoutIdentity(now, Rfqs)
       IN /\ known' = (known \/ rs # {})
          /\ linked' = now
          /\ audits' = Backfilled(now, as)
          /\ open' = o
          /\ settled' = settled \cup IdentityOf(now, Rfqs)
          /\ status' = Restored(o, status, {x[2] : x \in IdentityOf(now, Rfqs)})
  /\ Goes(p, "pending")
  /\ UNCHANGED <<about, box, mails, quotes, held, backfill, history, faults>>

\* The reconciliation raises; the sync goes on without it.
NotReconciled(p) ==
  /\ Begins(p) /\ faults < MaxFaults /\ faults' = faults + 1
  /\ Becomes(p, [sync[p] EXCEPT !.pc = "pending", !.errors = TRUE])
  /\ UNCHANGED <<about, box, store, held, backfill, history>>

\* _pending_dialogue_resume_audits: the list is read once.
ListPending(p) ==
  /\ At(p, "pending")
  /\ Becomes(p, [sync[p] EXCEPT
       !.pc = "groups",
       !.todo = {<<x[1], x[2], Max({i \in DOMAIN audits[x] : audits[x][i].resume = "pending"})>> :
                   x \in {y \in Pairs : \E i \in DOMAIN audits[y] :
                                          audits[y][i].resume = "pending"}}])
  /\ UNCHANGED <<about, box, store, held, backfill, history, bounds>>

\* Dialogues one after another, the letters of each in the order of their
\* dates; an open case blocks the letter it is about.
InGroup(p) == {t \in sync[p].todo : t[2] = sync[p].rfq}
NextGroup(p, r) ==
  [sync[p] EXCEPT !.pc = "resume", !.via = "resume", !.rfq = r,
     !.last = Max({t[1] : t \in {u \in sync[p].todo : u[2] = r}})]

TakeItem(p) ==
  /\ \E s \in IF At(p, "resume") THEN {sync[p]}
             ELSE IF At(p, "groups") THEN {NextGroup(p, r) : r \in {t[2] : t \in sync[p].todo}}
             ELSE {} :
       \E t \in s.todo :
         /\ t[2] = s.rfq /\ \A u \in s.todo : u[2] = s.rfq => t[1] <= u[1]
         /\ IF UnresolvedLetter(t[1], t[2])
            THEN /\ Becomes(p, [s EXCEPT !.todo = @ \ {t}])
                 /\ Hold(p, held[p] \cup {Change("resume", t[1], t[2], t[3], "blocked")})
            ELSE /\ Becomes(p, [s EXCEPT !.todo = @ \ {t}, !.pc = "audit",
                                        !.letter = t[1], !.audit = t[3]])
                 /\ UNCHANGED <<store, held>>
  /\ UNCHANGED <<about, box, backfill, history, bounds>>

ResumeAuditStored(x, i) == \E j \in DOMAIN audits[x] : audits[x][j].of = i

\* start_audit: an audit with this event_key is used again; the insertion
\* waits for another session that has inserted the key.
StartAudit(p) ==
  LET x == Here(p)  i == sync[p].audit IN
  /\ At(p, "audit")
  /\ \/ /\ ResumeAuditStored(x, i)
        /\ Goes(p, "judge") /\ UNCHANGED <<store, held>>
     \/ /\ ~ResumeAuditStored(x, i) /\ ~HeldElsewhere(p, "audit", x[1], x[2], i)
        /\ Goes(p, "judge")
        /\ Hold(p, held[p] \cup {Change("audit", x[1], x[2], i, "other")})
     \/ /\ ~ResumeAuditStored(x, i) /\ HeldElsewhere(p, "audit", x[1], x[2], i)
        /\ Goes(p, "audit wait") /\ UNCHANGED <<store, held>>
  /\ UNCHANGED <<about, box, backfill, history, bounds>>

\* An exception in the resumption ends it; the letters are still imported.
Abandon(p) ==
  Becomes(p, [sync[p] EXCEPT !.pc = "fetch", !.via = "none", !.letter = Nothing,
                !.rfq = Nothing, !.audit = 0, !.last = Nothing, !.offers = 0,
                !.todo = {}, !.errors = TRUE])
    /\ Hold(p, {})

AuditFreed(p) ==
  LET x == Here(p)  i == sync[p].audit IN
  /\ At(p, "audit wait") /\ ~HeldElsewhere(p, "audit", x[1], x[2], i)
  /\ IF ResumeAuditStored(x, i)
     THEN Abandon(p)   \* IntegrityError
     ELSE /\ Goes(p, "judge")
          /\ Hold(p, held[p] \cup {Change("audit", x[1], x[2], i, "other")})
  /\ UNCHANGED <<about, box, backfill, history, bounds>>

NextItem(p) == [sync[p] EXCEPT !.pc = "resume", !.letter = Nothing, !.audit = 0, !.offers = 0]
Result(p, s) == Change("resume", sync[p].letter, sync[p].rfq, sync[p].audit, s)

\* No budget, or the policy wants a person.
ResumeStopped(p) ==
  /\ At(p, "judge") /\ sync[p].via = "resume"
  /\ LET x == Here(p) IN
     Hold(p, (IF UnresolvedLetter(x[1], x[2]) THEN held[p] ELSE Escalate(held[p], x[1], x[2], "other"))
               \cup {Result(p, "blocked")})
  /\ Becomes(p, NextItem(p))
  /\ UNCHANGED <<about, box, backfill, history, bounds>>

\* Mutant: the letter keeps its place in the queue.
SilentAndPending(p) ==
  /\ At(p, "judge") /\ sync[p].via = "resume"
  /\ Becomes(p, NextItem(p))
  /\ UNCHANGED <<about, box, store, held, backfill, history, bounds>>

\* Nothing to answer: a bounce, "wait" or "stop".  A person's decision
\* replaces the policy, not the check of bounces.
ResumeSilent(p) ==
  /\ At(p, "judge") /\ sync[p].via = "resume"
  /\ Hold(p, held[p] \cup {Result(p, "done")})
  /\ Becomes(p, NextItem(p))
  /\ UNCHANGED <<about, box, backfill, history, bounds>>

\* One general offer may turn out to say nothing; explicit ones are all kept.
OfferCounts(l) == IF OffersOf[l] > 1 THEN {OffersOf[l]} ELSE {0, OffersOf[l]}

\* Mutant: the letter is read again whatever it has given.
ReadAgain(p) ==
  /\ At(p, "judge") /\ sync[p].via = "resume"
  /\ \E n \in OfferCounts(sync[p].letter) :
       Becomes(p, [sync[p] EXCEPT !.pc = "offers", !.offers = n])
  /\ UNCHANGED <<about, box, store, held, backfill, history, bounds>>

ResumeReads(p) ==
  /\ At(p, "judge") /\ sync[p].via = "resume"
  /\ IF quotes[Here(p)] > 0
     THEN Becomes(p, [sync[p] EXCEPT !.pc = "offers", !.offers = 0])
     ELSE \E n \in OfferCounts(sync[p].letter) :
            Becomes(p, [sync[p] EXCEPT !.pc = "offers", !.offers = n])
  /\ UNCHANGED <<about, box, store, held, backfill, history, bounds>>

\* An earlier letter of the dialogue gives its facts and gets no answer.
ResumeFactsOnly(p) ==
  /\ At(p, "offers") /\ sync[p].via = "resume" /\ sync[p].offers = 0
  /\ sync[p].letter # sync[p].last
  /\ Hold(p, held[p] \cup {Result(p, "done")})
  /\ Becomes(p, NextItem(p))
  /\ UNCHANGED <<about, box, backfill, history, bounds>>

GroupCommit(p) ==
  /\ At(p, "resume") /\ InGroup(p) = {}
  /\ Commit(p)
  /\ Becomes(p, [sync[p] EXCEPT !.pc = "groups", !.via = "none", !.rfq = Nothing, !.last = Nothing])
  /\ UNCHANGED <<about, box, quotes, backfill, history, bounds>>

Fetchable(p) ==
  {l \in Letters : box[l] = "unseen" \/ (box[l] = "seen" /\ (p # Poller \/ backfill))}

\* The newest letters, in the order of their arrival.
Fetch(p) ==
  /\ \/ At(p, "groups") /\ sync[p].todo = {}
     \/ At(p, "fetch")
  /\ Becomes(p, [sync[p] EXCEPT !.pc = "letters",
       !.batch = {l \in Fetchable(p) : Cardinality({m \in Fetchable(p) : m > l}) < Limit}])
  /\ UNCHANGED <<about, box, store, held, backfill, history, bounds>>

-----------------------------------------------------------------------------
(* The letters of a batch, one after another. *)

NextOf(p) == CHOOSE l \in sync[p].batch : \A m \in sync[p].batch : l <= m
Processed(p, l) ==
  [sync[p] EXCEPT !.pc = "letters", !.via = "none", !.letter = Nothing, !.rfq = Nothing,
     !.left = {}, !.offers = 0, !.batch = @ \ {l}, !.done = @ \cup {l}]

Duplicate(p) ==
  /\ At(p, "letters") /\ sync[p].batch # {}
  /\ NextOf(p) \in Stored
  /\ Becomes(p, Processed(p, NextOf(p)))
  /\ UNCHANGED <<about, box, store, held, backfill, history, bounds>>

StoreUnmatched(p) ==
  /\ At(p, "letters") /\ sync[p].batch # {}
  /\ LET l == NextOf(p) IN
     /\ l \notin Stored /\ about[l] = {}
     /\ mails' = Append(mails, Incoming(l))
     /\ handled' = handled \cup {l}
     /\ Becomes(p, Processed(p, l))
  /\ UNCHANGED <<about, box, known, linked, audits, quotes, open, settled, status,
                 held, backfill, replies, marked, bounds>>

\* The letter's row, "collecting" for its requests and, for a letter about
\* one request, the audit.
Inserted(h, l) ==
  (h \cup {Change("row", l, Nothing, IF known THEN 1 ELSE 0, "received")})
    \cup {Change("status", Nothing, r, 0, "collecting") :
            r \in {q \in about[l] : status[q] # "collecting"}}

Judging(p, l) ==
  [sync[p] EXCEPT !.pc = "judge", !.via = "inbox", !.letter = l, !.left = about[l],
     !.rfq = Min(about[l])]

\* external_id is unique: the insertion waits for another session that has
\* inserted this letter.
InsertLetter(p) ==
  /\ At(p, "letters") /\ sync[p].batch # {}
  /\ LET l == NextOf(p) IN
     /\ l \notin Stored /\ about[l] # {}
     /\ IF HeldElsewhere(p, "row", l, Nothing, 0) \/ HeldElsewhere(p, "row", l, Nothing, 1)
        THEN /\ Becomes(p, [sync[p] EXCEPT !.pc = "row wait", !.letter = l])
             /\ UNCHANGED <<store, held>>
        ELSE Becomes(p, Judging(p, l)) /\ Hold(p, Inserted(held[p], l))
  /\ UNCHANGED <<about, box, backfill, history, bounds>>

\* Mutant: a letter that failed is marked with the others.
SkipMarked(p, l) ==
  /\ Becomes(p, [Processed(p, l) EXCEPT !.errors = TRUE])
  /\ Hold(p, {})

\* An exception leaves the letter unread and goes on with the next one.
Skip(p, l) ==
  /\ Becomes(p, [Processed(p, l) EXCEPT !.done = sync[p].done, !.errors = TRUE])
  /\ Hold(p, {})

RowFreed(p) ==
  LET l == sync[p].letter IN
  /\ At(p, "row wait")
  /\ ~HeldElsewhere(p, "row", l, Nothing, 0) /\ ~HeldElsewhere(p, "row", l, Nothing, 1)
  /\ IF l \in Stored
     THEN Skip(p, l)   \* IntegrityError
     ELSE Becomes(p, Judging(p, l)) /\ Hold(p, Inserted(held[p], l))
  /\ UNCHANGED <<about, box, backfill, history, bounds>>

\* The contact of the letter is known or found in this transaction.
Recognised(p) == \/ \E c \in Of(held[p], "row") : c.letter = sync[p].letter /\ c.n = 1
                 \/ Of(held[p], "link") # {}
                 \/ sync[p].letter \in linked

\* Mutant: the sender is linked in a transaction of its own.
RecogniseAtOnce(p) ==
  /\ At(p, "judge") /\ sync[p].via = "inbox" /\ ~Recognised(p)
  /\ sync[p].left = about[sync[p].letter]
  /\ known' = TRUE /\ linked' = linked \cup {sync[p].letter}
  /\ UNCHANGED <<about, box, mails, audits, quotes, open, settled, status, sync,
                 held, backfill, history, bounds>>

\* Thread, domain and text of the letter agree about its sender.
Recognise(p) ==
  /\ At(p, "judge") /\ sync[p].via = "inbox" /\ ~Recognised(p)
  /\ sync[p].left = about[sync[p].letter]
  /\ Hold(p, held[p] \cup {Change("link", Nothing, sync[p].rfq, 0, "link")})
  /\ UNCHANGED <<about, box, sync, backfill, history, bounds>>

NextPosition(p) ==
  LET left == sync[p].left \ {sync[p].rfq} IN
  [sync[p] EXCEPT !.left = left, !.offers = 0,
     !.pc = IF left = {} THEN "settle" ELSE "judge",
     !.rfq = IF left = {} THEN @ ELSE Min(left)]

WithAudit(h, p, kind) == h \cup {Change("audit", sync[p].letter, sync[p].rfq, 0, kind)}

\* The budget is spent, the letter is a bounce, the policy wants a person,
\* or the sender is unknown.
Hands(p) ==
  /\ At(p, "judge") /\ sync[p].via = "inbox"
  /\ \E kind \in {"other"} \cup (IF Recognised(p) THEN {} ELSE {"identity"}) :
       Hold(p, WithAudit(Escalate(held[p], sync[p].letter, sync[p].rfq, kind), p, kind))
  /\ Becomes(p, NextPosition(p))
  /\ UNCHANGED <<about, box, backfill, history, bounds>>

\* An automatic notice, "wait" or "stop": the request goes on collecting.
Waits(p) ==
  /\ At(p, "judge") /\ sync[p].via = "inbox"
  /\ Recognised(p) \/ Cardinality(about[sync[p].letter]) = 1
  /\ Hold(p, WithAudit(Put(held[p], sync[p].rfq, "collecting"), p, "other"))
  /\ Becomes(p, NextPosition(p))
  /\ UNCHANGED <<about, box, backfill, history, bounds>>

\* Mutant: the letters of a stranger are read as well.
ReadsStrangers(p) ==
  /\ At(p, "judge") /\ sync[p].via = "inbox"
  /\ \E n \in OfferCounts(sync[p].letter) :
       Becomes(p, [sync[p] EXCEPT !.pc = "offers", !.offers = n])
  /\ Hold(p, WithAudit(held[p], p, "other"))
  /\ UNCHANGED <<about, box, backfill, history, bounds>>

Reads(p) ==
  /\ At(p, "judge") /\ sync[p].via = "inbox" /\ Recognised(p)
  /\ \E n \in OfferCounts(sync[p].letter) :
       Becomes(p, [sync[p] EXCEPT !.pc = "offers", !.offers = n])
  /\ Hold(p, WithAudit(held[p], p, "other"))
  /\ UNCHANGED <<about, box, backfill, history, bounds>>

\* create_quotation commits whatever the session holds.
StoreOffer(p) ==
  /\ At(p, "offers") /\ sync[p].offers > 0
  /\ Commits(held[p], <<>>,
             IF sync[p].letter \in Odd THEN {<<sync[p].rfq, Nothing, "other">>} ELSE {})
  /\ held' = [held EXCEPT ![p] = {}]
  /\ quotes' = [quotes EXCEPT ![Here(p)] = @ + 1]
  /\ Becomes(p, [sync[p] EXCEPT !.offers = @ - 1])
  /\ UNCHANGED <<about, box, backfill, history, bounds>>

\* The request is parsed; a letter about one request may get an answer.
Parsed(p) ==
  /\ At(p, "offers") /\ sync[p].via = "inbox" /\ sync[p].offers = 0
  /\ IF Cardinality(about[sync[p].letter]) > 1
     THEN /\ Hold(p, Put(held[p], sync[p].rfq, "parsed"))
          /\ Becomes(p, NextPosition(p))
          /\ UNCHANGED quotes
     ELSE /\ Commits(Put(held[p], sync[p].rfq, "parsed"), <<>>, {})
          /\ held' = [held EXCEPT ![p] = {}]
          /\ Goes(p, "reply")
          /\ UNCHANGED quotes
  /\ UNCHANGED <<about, box, backfill, history, bounds>>

Drafts(r) == {i \in DOMAIN mails : mails[i].way = "out" /\ mails[i].rfq = r
                                     /\ mails[i].status = "draft"}

\* Everything has been collected: older drafts of questions are cancelled.
Complete(p) ==
  /\ At(p, "reply") /\ Drafts(sync[p].rfq) # {}
  /\ mails' = [i \in DOMAIN mails |->
                IF i \in Drafts(sync[p].rfq)
                THEN [mails[i] EXCEPT !.status = "cancelled"] ELSE mails[i]]
  /\ UNCHANGED <<about, box, known, linked, audits, quotes, open, settled, status,
                 sync, held, backfill, history, bounds>>

-----------------------------------------------------------------------------
(* The answer: questions that are still open, or the handover. *)

\* In a resumed dialogue the latest letter is answered.
Answering(p) ==
  \/ At(p, "reply")
  \/ /\ At(p, "offers") /\ sync[p].via = "resume" /\ sync[p].offers = 0
     /\ sync[p].letter = sync[p].last

\* After the answer a letter of the batch is settled; a resumed one has its
\* result, which the end of the dialogue commits.
Answers(p, h) ==
  IF sync[p].via = "resume"
  THEN /\ held' = [held EXCEPT ![p] = h \cup {Result(p, "done")}]
       /\ Becomes(p, NextItem(p))
  ELSE /\ held' = [held EXCEPT ![p] = h]
       /\ Goes(p, "settle")

\* Nothing is missing, a decision is made, or the same text was written before.
NoReply(p) ==
  /\ Answering(p) /\ Answers(p, held[p])
  /\ UNCHANGED <<about, box, store, backfill, history, bounds>>

Row(p, s) == <<Answer(sync[p].letter, sync[p].rfq, s)>>

Draft(p) ==
  /\ Answering(p) /\ Mode # "off"
  /\ Mode = "draft" \/ faults < MaxFaults
  /\ faults' = IF Mode = "draft" THEN faults ELSE faults + 1   \* the server refused it
  /\ Commits(held[p], Row(p, "draft"), {})
  /\ Answers(p, {})
  /\ UNCHANGED <<about, box, quotes, backfill, history, people>>

Send(p) ==
  /\ Answering(p) /\ Mode = "send"
  /\ replies' = [replies EXCEPT ![Here(p)] = @ + 1]
  /\ Goes(p, "record")
  /\ UNCHANGED <<about, box, store, held, backfill, marked, handled, bounds>>

\* The server has taken the letter; when its answer is lost, a draft is kept.
Record(p) ==
  /\ At(p, "record")
  /\ \/ Commits(held[p], Row(p, "sent"), {}) /\ UNCHANGED faults
     \/ /\ faults < MaxFaults /\ faults' = faults + 1
        /\ Commits(held[p], Row(p, "draft"), {})
  /\ Answers(p, {})
  /\ UNCHANGED <<about, box, quotes, backfill, history, people>>

Settle(p) ==
  /\ At(p, "settle")
  /\ Commit(p)
  /\ handled' = handled \cup {sync[p].letter}
  /\ Becomes(p, Processed(p, sync[p].letter))
  /\ UNCHANGED <<about, box, quotes, backfill, replies, marked, bounds>>

\* The worker reads only new letters after a sync without errors.
MarkSeen(p) ==
  /\ At(p, "letters") /\ sync[p].batch = {}
  /\ \/ /\ box' = [l \in Letters |-> IF l \in sync[p].done THEN "seen" ELSE box[l]]
        /\ marked' = marked \cup sync[p].done
        /\ backfill' = IF p = Poller THEN backfill /\ sync[p].errors ELSE backfill
        /\ UNCHANGED faults
     \/ /\ sync[p].done # {} /\ faults < MaxFaults /\ faults' = faults + 1
        /\ UNCHANGED <<box, marked, backfill>>
  /\ Becomes(p, Resting)
  /\ UNCHANGED <<about, store, held, replies, handled, people>>

-----------------------------------------------------------------------------
(* Failures. *)

\* The mail server, the model or the database raises.
Raises(p) ==
  /\ faults < MaxFaults /\ faults' = faults + 1
  /\ \/ (At(p, "pending") \/ sync[p].via = "resume") /\ Abandon(p)
     \/ sync[p].via = "inbox" /\ Skip(p, sync[p].letter)
     \/ /\ At(p, "letters") /\ sync[p].batch # {} /\ Skip(p, NextOf(p))
     \/ /\ At(p, "fetch") \/ (At(p, "groups") /\ sync[p].todo = {})
        /\ Becomes(p, Resting) /\ UNCHANGED <<store, held>>
  /\ UNCHANGED <<about, box, backfill, history, people>>

\* A restarted worker begins with the recent letters again.
Dies(p) ==
  /\ faults < MaxFaults /\ faults' = faults + 1
  /\ ~At(p, "idle")
  /\ Becomes(p, Resting) /\ Hold(p, {})
  /\ backfill' = IF p = Poller THEN TRUE ELSE backfill
  /\ UNCHANGED <<about, box, history, people>>

-----------------------------------------------------------------------------
(* People. *)

Arrives(l) ==
  /\ box[l] = "coming" /\ \A m \in DOMAIN about : m < l => box[m] # "coming"
  /\ box' = [box EXCEPT ![l] = "unseen"]
  /\ UNCHANGED <<about, store, sync, held, backfill, history, bounds>>

PersonReads(l) ==
  /\ people < MaxPeople /\ people' = people + 1
  /\ box[l] = "unseen"
  /\ box' = [box EXCEPT ![l] = "seen"]
  /\ UNCHANGED <<about, store, sync, held, backfill, history, faults>>

\* update_escalation: a linked letter goes on, a request without cases
\* leaves the manual work.
Resolve(c) ==
  LET r == c[1]  l == c[2]  o == [open EXCEPT ![c] = @ - 1] IN
  /\ people < MaxPeople /\ people' = people + 1
  /\ open[c] > 0
  /\ open' = o
  /\ settled' = IF c[3] = "identity" THEN settled \cup {<<l, r>>} ELSE settled
  /\ audits' = IF l \in linked /\ audits[<<l, r>>] # <<>>
               THEN [audits EXCEPT ![<<l, r>>] =
                       RequestResume(@, l, r, Len(@), "human_resolved")]
               ELSE audits
  /\ status' = Restored(o, status, {r})
  /\ UNCHANGED <<about, box, mails, known, linked, quotes, sync, held, backfill, history, faults>>

\* reply_to_unmatched_email: the person names the supplier and answers.  The
\* dialogue is theirs: the identity escalation is closed without resumption.
ReplyByHand(c) ==
  LET r == c[1]  l == c[2]  o == [open EXCEPT ![c] = @ - 1]
      rows == {m \in Stored : r \in about[m]}
  IN
  /\ people < MaxPeople /\ people' = people + 1
  /\ open[c] > 0 /\ c[3] = "identity"
  /\ mails' = Append(mails, Answer(l, r, "sent"))
  /\ known' = TRUE /\ linked' = linked \cup rows
  /\ settled' = {x \in settled : x[1] \notin rows}   \* marked as a manual decision
  /\ open' = o
  /\ status' = Restored(o, status, {r})
  /\ UNCHANGED <<about, box, audits, quotes, sync, held, backfill, history, faults>>

EscalateManually(r) ==
  /\ people < MaxPeople /\ people' = people + 1
  /\ open' = [open EXCEPT ![<<r, Nothing, "other">>] = @ + 1]
  /\ status' = [status EXCEPT ![r] = "escalated"]
  /\ UNCHANGED <<about, box, mails, known, linked, audits, quotes, settled, sync,
                 held, backfill, history, faults>>

Resumption(p) ==
  \/ ListPending(p) \/ TakeItem(p) \/ StartAudit(p) \/ AuditFreed(p)
  \/ ResumeStopped(p) \/ ResumeSilent(p) \/ ResumeReads(p) \/ ResumeFactsOnly(p)
  \/ GroupCommit(p)

Import(p) ==
  \/ Fetch(p) \/ Duplicate(p) \/ StoreUnmatched(p) \/ InsertLetter(p) \/ RowFreed(p)
  \/ Recognise(p) \/ Hands(p) \/ Waits(p) \/ Reads(p) \/ Parsed(p) \/ Complete(p)
  \/ MarkSeen(p)

Step(p) ==
  Resumption(p) \/ Import(p) \/ StoreOffer(p)
    \/ NoReply(p) \/ Draft(p) \/ Send(p) \/ Record(p) \/ Settle(p)

Outside ==
  \/ \E l \in DOMAIN about : Arrives(l) \/ PersonReads(l)
  \/ \E c \in Cases : Resolve(c) \/ ReplyByHand(c)
  \/ \E r \in Rfqs : EscalateManually(r)

Next == Outside \/ \E p \in Syncs : Reconcile(p) \/ NotReconciled(p) \/ Step(p) \/ Raises(p) \/ Dies(p)

Spec == Init /\ [][Next]_vars
FairSpec ==
  Spec /\ WF_vars(Reconcile(Poller) \/ Step(Poller)) /\ \A p \in Syncs \ {Poller} : WF_vars(Step(p))

-----------------------------------------------------------------------------
(* Properties. *)

\* Every variable keeps its type.
TypeOK ==
  /\ about \in Mail
  /\ box \in [Letters -> {"coming", "unseen", "seen"}]
  /\ \A i \in DOMAIN mails :
       /\ mails[i].letter \in Letters
       /\ mails[i].status \in {"received", "draft", "sent", "cancelled"}
  /\ known \in BOOLEAN /\ linked \subseteq Stored
  /\ \A x \in Pairs : \A i \in DOMAIN audits[x] :
       audits[x][i].resume \in Resumes /\ audits[x][i].of < i
  /\ quotes \in [Pairs -> Nat] /\ replies \in [Pairs -> Nat]
  /\ open \in [Cases -> Nat] /\ settled \subseteq Pairs
  /\ status \in [Rfqs -> Statuses]
  /\ backfill \in BOOLEAN
  /\ marked \subseteq Letters /\ handled \subseteq Letters

\* "Creates quotations once per Message-ID": no letter gives more quotations
\* than it has offers, whatever syncs run together, die or resume it.
QuotesOnce == \A x \in Pairs : quotes[x] <= OffersOf[x[1]]

\* A letter whose dialogue was never put up for resumption gives its offers
\* once and is answered by the program at most once, although every sync may
\* meet it again and may die in the middle of it.
FreshOnce ==
  \A x \in Pairs :
    (\A i \in DOMAIN audits[x] : audits[x][i].why = "none")
      => quotes[x] <= OffersOf[x[1]] /\ replies[x] <= 1

\* The program answers only a sender it has tied to a supplier; otherwise it
\* would join the correspondence of strangers.
OnlyLinkedAnswered == \A x \in Pairs : replies[x] > 0 => x[1] \in linked

\* A letter marked as read by a sync is in the database, so that a letter
\* that failed comes back with the next poll.
MarkedAreStored == marked \subseteq Stored

\* Once people and failures rest, every letter nobody has read is imported
\* and every dialogue put up for resumption is resumed or blocked for a reason.
EverythingSettles ==
  <>[](/\ \A l \in Letters : box[l] = "unseen" => l \in Stored
       /\ \A x \in Pairs : \A i \in DOMAIN audits[x] : audits[x][i].resume # "pending")

=============================================================================
