-------------------------- MODULE EmailWorkerProofs --------------------------
(***************************************************************************)
(* Theorems about the mail worker, for any letters, requests and syncs.    *)
(*                                                                         *)
(* The suppliers' letters: what a sync marks as read is stored, only       *)
(* senders tied to a supplier are answered, and a letter that was never    *)
(* put up for resumption gives its offers once and gets one answer.        *)
(* Under them lies what a sync relies on in the tables it does not lock    *)
(* (Working): the row of the letter it imports is there, the audit it      *)
(* resumes has a reason.  The tables keep that for every other sync,       *)
(* because they only grow (Grown), and no two syncs import one letter      *)
(* (Apart), because the second to insert its row waits.                    *)
(*                                                                         *)
(* The letters of the sandbox: each is answered once at the most and never *)
(* against a rule, the answers stay in the budget, a dialogue is complete  *)
(* only when the supplier has said everything.  Under them lies what the   *)
(* worker knows when it answers: the messages its session has read hold    *)
(* every answer there is to the letter (Unanswered), for it alone writes   *)
(* answers, and it has counted them before it judges (Counted).            *)
(***************************************************************************)
EXTENDS EmailWorker, FiniteSetTheorems, SequenceTheorems, WellFoundedInduction, TLAPS

-----------------------------------------------------------------------------
(* The shape of the tables and of the syncs. *)

Reasons == {"none", "sender_identity_linked", "human_resolved"}
AuditRow == [of : Nat, identity : BOOLEAN, resume : Resumes, why : Reasons]
MailRow ==
  {m \in [way : {"in", "out"}, letter : Letters \cup {Nothing}, rfq : Rfqs \cup {Nothing},
          status : {"received", "draft", "sent", "cancelled"}] :
     m.way = "in" => m.letter \in Letters}
Whats == {"row", "link", "audit", "open", "resume", "status"}
Words == {"received", "link", "other", "identity", "collecting", "parsed", "escalated",
          "blocked", "done"}
Changes == [what : Whats, letter : Letters \cup {Nothing}, rfq : Rfqs \cup {Nothing},
            n : Nat, s : Words]
LocalFields == {"pc", "via", "letter", "rfq", "audit", "last", "left", "offers",
                "todo", "batch", "done", "errors"}
IsLocal(s) ==
  DOMAIN s = LocalFields /\ s.via \in {"none", "resume", "inbox"} /\ s.offers \in Nat

Shaped ==
  /\ about \in Mail
  /\ \A l \in Letters : box[l] # "coming" => l \in DOMAIN about
  /\ mails \in Seq(MailRow)
  /\ audits \in [Pairs -> Seq(AuditRow)]
  /\ quotes \in [Pairs -> Nat] /\ replies \in [Pairs -> Nat]
  /\ DOMAIN sync = Syncs /\ \A p \in Syncs : IsLocal(sync[p])
  /\ DOMAIN held = Syncs /\ \A p \in Syncs : held[p] \subseteq Changes /\ IsFiniteSet(held[p])

\* A letter of a supplier is stored, and so is one that was marked as read.
Filed ==
  /\ Stored \subseteq DOMAIN about
  /\ linked \subseteq Stored /\ marked \subseteq Stored /\ OnlyLinkedAnswered

-----------------------------------------------------------------------------
(* What a sync relies on. *)

\* An audit that was put up for resumption has a reason, and a linked sender.
Explained(as) == \A i \in DOMAIN as : as[i].resume # "none" => as[i].why # "none"
Asked(as) == \E i \in DOMAIN as : as[i].resume # "none"
Sound(x, entries) == Explained(entries) /\ (Asked(entries) => x[1] \in linked)
Reasoned == \A x \in Pairs : Sound(x, audits[x])

PutUp(l, r, i) ==
  /\ l \in linked /\ r \in Rfqs /\ i \in DOMAIN audits[<<l, r>>]
  /\ audits[<<l, r>>][i].why # "none"

\* What a sync relies on that is at s and holds the changes h.
RowIsThere(s, h) == s.letter \in Stored \/ \E c \in Of(h, "row") : c.letter = s.letter
Linked(s, h) == \/ \E c \in Of(h, "row") : c.letter = s.letter /\ c.n = 1
                \/ Of(h, "link") # {}
                \/ s.letter \in linked

Between(s) ==
  /\ s.pc \in {"idle", "pending", "groups", "fetch", "letters", "row wait"}
  /\ s.pc = "row wait" => s.letter \in DOMAIN about /\ about[s.letter] # {}

Resuming(s) ==
  /\ s.pc \in {"resume", "audit", "audit wait", "judge", "offers", "record"}
  /\ s.pc # "resume" => PutUp(s.letter, s.rfq, s.audit)

Importing(s, h) ==
  /\ s.pc \in {"judge", "offers", "reply", "record", "settle"}
  /\ s.letter \in DOMAIN about /\ s.rfq \in about[s.letter] /\ s.left \subseteq about[s.letter]
  /\ s.pc \in {"judge", "offers", "reply"} => s.rfq \in s.left
  /\ RowIsThere(s, h)
  /\ s.pc = "offers" => Linked(s, h)
  /\ s.pc \in {"reply", "record"} => s.letter \in linked

\* What a sync holds of entries and links is of the letter it imports.
Holds(s, c) ==
  /\ c.what = "row" => /\ s.via = "inbox" /\ c.letter = s.letter
                       /\ c.rfq = Nothing /\ c.n \in {0, 1}
  /\ c.what = "link" => s.via = "inbox" /\ c.rfq \in about[s.letter]
  /\ c.what = "resume" => PutUp(c.letter, c.rfq, c.n) /\ c.s \in Resumes

WorksAt(s, h) ==
  /\ s.via = "none" => Between(s)
  /\ s.via = "resume" => Resuming(s)
  /\ s.via = "inbox" => Importing(s, h)
  /\ s.done \subseteq Stored /\ s.batch \subseteq DOMAIN about
  /\ \A t \in s.todo : PutUp(t[1], t[2], t[3])
  /\ \A c \in h : Holds(s, c)

Working == \A p \in Syncs : WorksAt(sync[p], held[p])

\* No two syncs import one letter.
Alone(p, s) ==
  \A q \in Syncs \ {p} : s.via = "inbox" /\ sync[q].via = "inbox" => s.letter # sync[q].letter
Apart == \A p \in Syncs : Alone(p, sync[p])

-----------------------------------------------------------------------------
(* What a letter has given. *)

Fresh(x) == \A i \in DOMAIN audits[x] : audits[x][i].why = "none"

\* A sync that imports a letter has taken nothing from what is left of it.
Untaken(s, x) ==
  s.via = "inbox" /\ s.letter = x[1] /\ x[2] \in s.left =>
    /\ s.pc \in {"judge", "offers", "reply"} => replies[x] = 0
    /\ s.pc = "judge" \/ x[2] # s.rfq => quotes[x] = 0
    /\ s.pc = "offers" /\ x[2] = s.rfq => quotes[x] + s.offers <= OffersOf[x[1]]

Once(x) ==
  /\ x[1] \notin Stored => quotes[x] = 0 /\ replies[x] = 0
  /\ Fresh(x) => /\ quotes[x] <= OffersOf[x[1]] /\ replies[x] <= 1
                 /\ \A p \in Syncs : Untaken(sync[p], x)
Given == \A x \in Pairs : Once(x)

EmailInv == Shaped /\ Filed /\ Reasoned /\ Working /\ Apart /\ Given

-----------------------------------------------------------------------------
(* Sets of numbers, and sets read as sequences. *)

LEMMA LeastIs ==
  ASSUME NEW S, S \subseteq Nat, S # {}
  PROVE  \E x \in S : \A y \in S : x <= y
<1>. DEFINE Below == {ss \in Nat \X Nat : ss[1] < ss[2]}
<1>1. IsWellFoundedOn(Below, Nat)
  BY NatLessThanWellFounded DEF OpToRel
<1>. HIDE DEF Below
<1>2. PICK x \in S : \A y \in S : ~ <<y, x>> \in Below
  BY <1>1, WFMin
<1>3. \A y \in S : ~ y < x
  BY <1>2 DEF Below
<1>. QED  BY <1>3

LEMMA MinIs ==
  ASSUME NEW S, S \subseteq Nat, S # {}
  PROVE  Min(S) \in S
BY LeastIs DEF Min

\* A set of numbers below a bound has a greatest one.
LEMMA MaxIs ==
  ASSUME NEW n \in Nat, NEW S, S \subseteq 0 .. n, S # {}
  PROVE  Max(S) \in S
<1>. DEFINE Bounds == {m \in Nat : \A y \in S : y <= m}
<1>1. n \in Bounds /\ Bounds \subseteq Nat
  OBVIOUS
<1>2. PICK m \in Bounds : \A b \in Bounds : m <= b
  BY <1>1, LeastIs
<1>3. m \in S
  <2>. SUFFICES ASSUME m \notin S PROVE FALSE
    OBVIOUS
  <2>1. \A y \in S : y \in Nat /\ y <= m /\ y # m
    OBVIOUS
  <2>2. m \in Nat /\ m > 0
    <3>1. PICK y \in S : y <= m /\ y # m
      BY <2>1
    <3>. QED  BY <3>1
  <2>3. m - 1 \in Bounds
    BY <2>1, <2>2
  <2>. QED  BY <1>2, <2>3
<1>. QED  BY <1>3 DEF Max

\* SetToSeq lists the members of a finite set.
LEMMA SetToSeqIs ==
  ASSUME NEW T, NEW S, S \subseteq T, IsFiniteSet(S)
  PROVE  /\ SetToSeq(S) \in Seq(T)
         /\ \A e \in S : \E i \in DOMAIN SetToSeq(S) : SetToSeq(S)[i] = e
<1>. DEFINE n == Cardinality(S)  f == SetToSeq(S)
<1>1. n \in Nat /\ ExistsBijection(1 .. n, S)
  BY FS_CardinalityType
<1>2. \E g \in [1 .. n -> S] : IsInjective(g)
  BY <1>1 DEF ExistsBijection, Bijection, Injection
<1>3. f \in [1 .. n -> S] /\ IsInjective(f)
  BY <1>2 DEF SetToSeq
<1>4. f \in Injection(1 .. n, S)
  BY <1>3 DEF Injection
<1>5. IsFiniteSet(1 .. n) /\ Cardinality(1 .. n) = n
  BY <1>1, FS_Interval
<1>. HIDE DEF f
<1>6. f \in Surjection(1 .. n, S)
  BY <1>4, <1>5, FS_Injection
<1>. QED  BY <1>1, <1>3, <1>6 DEF Surjection, f

-----------------------------------------------------------------------------
(* The tables. *)

LEMMA AboutIs ==
  ASSUME about \in Mail
  PROVE  /\ DOMAIN about \subseteq Letters
         /\ \A l \in DOMAIN about : about[l] \subseteq Rfqs
BY InboxAssumption

LEMMA StoredIs ==
  ASSUME mails \in Seq(MailRow)
  PROVE  Stored \subseteq Letters
<1>1. \A i \in DOMAIN mails : mails[i] \in MailRow
  BY LenProperties, ElementOfSeq
<1>2. \A i \in DOMAIN mails : mails[i].way = "in" => mails[i].letter \in Letters
  BY <1>1 DEF MailRow
<1>. QED  BY <1>2 DEF Stored, StoredIn

LEMMA StoredOfRows ==
  ASSUME NEW ms \in Seq(MailRow), NEW ns \in Seq(MailRow)
  PROVE  /\ ms \o ns \in Seq(MailRow)
         /\ StoredIn(ms \o ns) = StoredIn(ms) \cup StoredIn(ns)
<1>. DEFINE all == ms \o ns
<1>1. /\ all \in Seq(MailRow) /\ Len(all) = Len(ms) + Len(ns)
      /\ \A i \in 1 .. Len(ms) + Len(ns) : all[i] = IF i <= Len(ms) THEN ms[i] ELSE ns[i - Len(ms)]
  BY ConcatProperties
<1>2. /\ Len(ms) \in Nat /\ Len(ns) \in Nat
      /\ DOMAIN ms = 1 .. Len(ms) /\ DOMAIN ns = 1 .. Len(ns) /\ DOMAIN all = 1 .. Len(ms) + Len(ns)
  BY <1>1
<1>. HIDE DEF all
<1>3. ASSUME NEW l \in StoredIn(all) PROVE l \in StoredIn(ms) \cup StoredIn(ns)
  <2>1. PICK i \in DOMAIN all : all[i].way = "in" /\ all[i].letter = l
    BY DEF StoredIn
  <2>2. \/ i \in DOMAIN ms /\ all[i] = ms[i]
        \/ i - Len(ms) \in DOMAIN ns /\ all[i] = ns[i - Len(ms)]
    BY <1>1, <1>2
  <2>. QED  BY <2>1, <2>2 DEF StoredIn
<1>4. ASSUME NEW l \in StoredIn(ms) PROVE l \in StoredIn(all)
  <2>1. PICK i \in DOMAIN ms : ms[i].way = "in" /\ ms[i].letter = l
    BY DEF StoredIn
  <2>2. i \in DOMAIN all /\ all[i] = ms[i]
    BY <1>1, <1>2
  <2>. QED  BY <2>1, <2>2 DEF StoredIn
<1>5. ASSUME NEW l \in StoredIn(ns) PROVE l \in StoredIn(all)
  <2>1. PICK i \in DOMAIN ns : ns[i].way = "in" /\ ns[i].letter = l
    BY DEF StoredIn
  <2>2. Len(ms) + i \in DOMAIN all /\ all[Len(ms) + i] = ns[i]
    BY <1>1, <1>2
  <2>. QED  BY <2>1, <2>2 DEF StoredIn
<1>. QED  BY <1>1, <1>3, <1>4, <1>5 DEF all

\* The audits of a letter and a request only grow, and keep their reasons.
Extend(entries, more) ==
  /\ Len(entries) <= Len(more)
  /\ \A i \in 1 .. Len(entries) : entries[i].why # "none" => more[i].why # "none"

\* A request for resumption writes the reason with the request.
LEMMA RequestResumeIs ==
  ASSUME NEW entries \in Seq(AuditRow), Explained(entries), NEW l, NEW r, NEW i \in DOMAIN entries,
         NEW reason \in Reasons \ {"none"}
  PROVE  /\ RequestResume(entries, l, r, i, reason) \in Seq(AuditRow)
         /\ Explained(RequestResume(entries, l, r, i, reason))
         /\ Extend(entries, RequestResume(entries, l, r, i, reason))
<1>. DEFINE got == RequestResume(entries, l, r, i, reason)
            done == [entries EXCEPT ![i].resume = "done", ![i].why = reason]
            put == [j \in DOMAIN entries |->
                      IF j = i THEN [entries[j] EXCEPT !.resume = "pending", !.why = reason]
                      ELSE IF entries[j].resume = "pending" THEN [entries[j] EXCEPT !.resume = "done"]
                      ELSE entries[j]]
            Fine(q) == q \in Seq(AuditRow) /\ Explained(q) /\ Extend(entries, q)
<1>0. Len(entries) \in Nat
  BY LenProperties
<1>1. Len(entries) \in Nat /\ DOMAIN entries = 1 .. Len(entries) /\ \A j \in DOMAIN entries : entries[j] \in AuditRow
  BY LenProperties, ElementOfSeq
<1>2. got \in {entries, done, put}
  BY DEF RequestResume
<1>3. Fine(entries)
  <2>1. Extend(entries, entries)
    BY <1>0 DEF Extend
  <2>2. Explained(entries) /\ entries \in Seq(AuditRow)
    OBVIOUS
  <2>. QED  BY <2>1, <2>2
<1>4. ASSUME NEW q \in [1 .. Len(entries) -> AuditRow],
             \A j \in DOMAIN entries : q[j].why = entries[j].why \/ q[j].why = reason,
             \A j \in DOMAIN entries :
               q[j].resume # "none" => entries[j].resume # "none" \/ q[j].why = reason
      PROVE  Fine(q)
  <2>1. q \in Seq(AuditRow) /\ Len(q) = Len(entries) /\ DOMAIN q = DOMAIN entries
    <3>1. q \in Seq(AuditRow) /\ DOMAIN q = 1 .. Len(entries)
      BY <1>1, SeqDef
    <3>2. Len(q) \in Nat /\ DOMAIN q = 1 .. Len(q)
      BY <3>1, LenProperties
    <3>3. Len(q) = Len(entries)
      BY <1>0, <3>1, <3>2
    <3>. QED  BY <1>1, <3>1, <3>3
  <2>2. Explained(q)
    <3>1. \A j \in DOMAIN entries : entries[j].resume # "none" => entries[j].why # "none"
      BY DEF Explained
    <3>2. ASSUME NEW j \in DOMAIN entries, q[j].resume # "none" PROVE q[j].why # "none"
      <4>1. CASE q[j].why = reason
        BY <4>1
      <4>2. CASE q[j].why = entries[j].why
        BY <1>4, <3>1, <3>2, <4>2
      <4>. QED  BY <1>4, <4>1, <4>2
    <3>. QED  BY <2>1, <3>2 DEF Explained
  <2>3. Extend(entries, q)
    <3>1. ASSUME NEW j \in DOMAIN entries, entries[j].why # "none" PROVE q[j].why # "none"
      <4>1. q[j].why = entries[j].why \/ q[j].why = reason
        BY <1>4
      <4>. QED  BY <3>1, <4>1
    <3>2. \A j \in 1 .. Len(entries) : entries[j].why # "none" => q[j].why # "none"
      BY <1>1, <3>1
    <3>. QED  BY <1>0, <2>1, <3>2 DEF Extend
  <2>. QED  BY <2>1, <2>2, <2>3
<1>5. ASSUME NEW j \in DOMAIN entries
      PROVE  /\ [entries[j] EXCEPT !.resume = "done", !.why = reason] \in AuditRow
             /\ [entries[j] EXCEPT !.resume = "pending", !.why = reason] \in AuditRow
             /\ [entries[j] EXCEPT !.resume = "done"] \in AuditRow
  BY <1>1 DEF AuditRow, Resumes
<1>6. Fine(done)
  <2>1. [entries[i] EXCEPT !.resume = "done", !.why = reason] = done[i] /\ \A j \in DOMAIN entries : j # i => done[j] = entries[j]
    BY <1>1
  <2>2. done \in [1 .. Len(entries) -> AuditRow]
    BY <1>1, <1>5
  <2>. HIDE DEF done
  <2>3. \A j \in DOMAIN entries : j # i => done[j] = entries[j]
    BY <2>1
  <2>4. done[i].why = reason
    BY <1>1, <2>1 DEF AuditRow
  <2>. QED  BY <1>1, <1>4, <2>2, <2>3, <2>4
<1>7. Fine(put)
  <2>1. put \in [1 .. Len(entries) -> AuditRow]
    BY <1>1, <1>5
  <2>2. \A j \in DOMAIN entries : j # i => put[j].why = entries[j].why /\ (put[j].resume # "none" => entries[j].resume # "none")
    BY <1>1 DEF AuditRow
  <2>3. put[i].why = reason
    BY <1>1 DEF AuditRow
  <2>. HIDE DEF put
  <2>. QED  BY <1>1, <1>4, <2>1, <2>2, <2>3
<1>. HIDE DEF got, done, put
<1>8. Fine(got)
  BY <1>2, <1>3, <1>6, <1>7
<1>. QED  BY <1>8 DEF got

-----------------------------------------------------------------------------
(* What every step leaves to the other syncs. *)

Grown ==
  /\ about' = about
  /\ Stored \subseteq Stored' /\ linked \subseteq linked'
  /\ \A x \in Pairs : Extend(audits[x], audits'[x])

LEMMA LinkedIs ==
  ASSUME Shaped, Filed
  PROVE  linked \subseteq Letters
BY StoredIs DEF Shaped, Filed

LEMMA AuditsAre ==
  ASSUME Shaped, NEW x \in Pairs
  PROVE  /\ audits[x] \in Seq(AuditRow) /\ Len(audits[x]) \in Nat
         /\ DOMAIN audits[x] = 1 .. Len(audits[x])
         /\ \A i \in DOMAIN audits[x] : audits[x][i] \in AuditRow
<1>1. audits[x] \in Seq(AuditRow)
  BY DEF Shaped
<1>. QED  BY <1>1, LenProperties, ElementOfSeq

LEMMA PutUpKept ==
  ASSUME Shaped, Filed, Shaped', Grown, NEW l, NEW r, NEW i, PutUp(l, r, i)
  PROVE  PutUp(l, r, i)'
<1>1. l \in linked /\ r \in Rfqs /\ i \in DOMAIN audits[<<l, r>>] /\ audits[<<l, r>>][i].why # "none"
  BY DEF PutUp
<1>2. <<l, r>> \in Pairs
  BY <1>1, LinkedIs DEF Pairs
<1>3. /\ Len(audits[<<l, r>>]) \in Nat /\ DOMAIN audits[<<l, r>>] = 1 .. Len(audits[<<l, r>>])
      /\ Len(audits'[<<l, r>>]) \in Nat /\ DOMAIN audits'[<<l, r>>] = 1 .. Len(audits'[<<l, r>>])
  <2>1. audits'[<<l, r>>] \in Seq(AuditRow)
    BY <1>2 DEF Shaped
  <2>. QED  BY <1>2, <2>1, AuditsAre, LenProperties
<1>4. Extend(audits[<<l, r>>], audits'[<<l, r>>])
  BY <1>2 DEF Grown
<1>5. i \in DOMAIN audits'[<<l, r>>] /\ audits'[<<l, r>>][i].why # "none"
  BY <1>1, <1>3, <1>4 DEF Extend
<1>. QED  BY <1>1, <1>5 DEF PutUp, Grown

LEMMA FreshBefore ==
  ASSUME Shaped, Shaped', Grown, NEW x \in Pairs, Fresh(x)'
  PROVE  Fresh(x)
<1>1. /\ Len(audits[x]) \in Nat /\ DOMAIN audits[x] = 1 .. Len(audits[x])
      /\ Len(audits'[x]) \in Nat /\ DOMAIN audits'[x] = 1 .. Len(audits'[x])
  <2>1. audits'[x] \in Seq(AuditRow)
    BY DEF Shaped
  <2>. QED  BY <2>1, AuditsAre, LenProperties
<1>2. Extend(audits[x], audits'[x])
  BY DEF Grown
<1>. QED  BY <1>1, <1>2 DEF Fresh, Extend

\* What a sync relies on stays, whatever the others do.
LEMMA WorksOn ==
  ASSUME Shaped, Filed, Shaped', Grown, NEW s, NEW h, WorksAt(s, h)
  PROVE  WorksAt(s, h)'
<1>1. \A l, r, i : PutUp(l, r, i) => PutUp(l, r, i)'
  BY PutUpKept
<1>. HIDE DEF PutUp
<1>2. about' = about /\ Stored \subseteq Stored' /\ linked \subseteq linked'
  BY DEF Grown
<1>3. s.via = "none" => Between(s)'
  BY <1>2 DEF WorksAt, Between
<1>4. s.via = "resume" => Resuming(s)'
  BY <1>1 DEF WorksAt, Resuming
<1>5. RowIsThere(s, h) => RowIsThere(s, h)'
  BY <1>2 DEF RowIsThere
<1>6. Linked(s, h) => Linked(s, h)'
  BY <1>2 DEF Linked
<1>7. s.via = "inbox" => Importing(s, h)'
  <2>. HIDE DEF RowIsThere, Linked
  <2>. QED  BY <1>2, <1>5, <1>6 DEF WorksAt, Importing
<1>8. \A c \in h : Holds(s, c) => Holds(s, c)'
  BY <1>1, <1>2 DEF Holds
<1>9. s.done \subseteq Stored' /\ s.batch \subseteq DOMAIN about'
  BY <1>2 DEF WorksAt
<1>10. \A t \in s.todo : PutUp(t[1], t[2], t[3])'
  BY <1>1 DEF WorksAt
<1>. QED
  <2>. HIDE DEF Between, Resuming, Importing, Holds
  <2>1. \A c \in h : Holds(s, c)
    BY DEF WorksAt
  <2>. QED  BY <1>3, <1>4, <1>7, <1>8, <1>9, <1>10, <2>1 DEF WorksAt

\* The sync p goes to s and holds h; the others stay where they are.
Turns(p, s, h) ==
  /\ DOMAIN sync' = Syncs /\ DOMAIN held' = Syncs
  /\ sync'[p] = s /\ held'[p] = h
  /\ \A q \in Syncs \ {p} : sync'[q] = sync[q] /\ held'[q] = held[q]

LEMMA MovesIs ==
  ASSUME Shaped, NEW p \in Syncs, NEW s, NEW h, Becomes(p, s),
         held' = [held EXCEPT ![p] = h] \/ (held' = held /\ h = held[p])
  PROVE  Turns(p, s, h)
BY DEF Shaped, Becomes, Turns

\* After a step of p every sync has what it relies on, and they are apart.
LEMMA StepWorks ==
  ASSUME EmailInv, NEW p \in Syncs, NEW s, NEW h, Turns(p, s, h),
         Shaped', Grown, WorksAt(s, h)', Alone(p, s)
  PROVE  Working' /\ Apart'
<1>1. Working'
  <2>. SUFFICES ASSUME NEW q \in Syncs PROVE WorksAt(sync[q], held[q])'
    BY DEF Working
  <2>1. CASE q = p
    BY <2>1 DEF Turns
  <2>2. CASE q # p
    <3>1. PICK t, g : t = sync[q] /\ g = held[q]
      OBVIOUS
    <3>2. WorksAt(t, g)
      BY <3>1 DEF EmailInv, Working
    <3>3. WorksAt(t, g)'
      BY <3>2, WorksOn DEF EmailInv
    <3>4. t = sync'[q] /\ g = held'[q]
      BY <2>2, <3>1 DEF Turns
    <3>. QED  BY <3>3, <3>4
  <2>. QED  BY <2>1, <2>2
<1>2. Apart'
  <2>. SUFFICES ASSUME NEW q \in Syncs, NEW r \in Syncs \ {q},
                       sync'[q].via = "inbox", sync'[r].via = "inbox"
                PROVE  sync'[q].letter # sync'[r].letter
    BY DEF Apart, Alone
  <2>1. CASE q = p
    BY <2>1 DEF Turns, Alone
  <2>2. CASE r = p
    BY <2>2 DEF Turns, Alone
  <2>3. CASE q # p /\ r # p
    BY <2>3 DEF Turns, EmailInv, Apart, Alone
  <2>. QED  BY <2>1, <2>2, <2>3
<1>. QED  BY <1>1, <1>2

\* A step of the sync p that stores no offer and sends nothing.
LEMMA StepOf ==
  ASSUME EmailInv, NEW p \in Syncs, NEW s, NEW h, Turns(p, s, h),
         Shaped', Filed', Reasoned', Grown, UNCHANGED <<quotes, replies>>,
         WorksAt(s, h)', Alone(p, s), \A x \in Pairs : Fresh(x) => Untaken(s, x)
  PROVE  EmailInv'
<1>1. Working' /\ Apart'
  BY StepWorks
<1>2. Given'
  <2>. SUFFICES ASSUME NEW x \in Pairs PROVE Once(x)'
    BY DEF Given
  <2>1. Once(x)
    BY DEF EmailInv, Given
  <2>2. x[1] \notin Stored' => quotes'[x] = 0 /\ replies'[x] = 0
    BY <2>1 DEF Once, Grown
  <2>3. ASSUME Fresh(x)'
        PROVE  /\ quotes'[x] <= OffersOf[x[1]] /\ replies'[x] <= 1
               /\ \A q \in Syncs : Untaken(sync[q], x)'
    <3>1. Fresh(x)
      BY <2>3, FreshBefore DEF EmailInv
    <3>2. quotes'[x] <= OffersOf[x[1]] /\ replies'[x] <= 1
      BY <2>1, <3>1 DEF Once
    <3>3. ASSUME NEW q \in Syncs PROVE Untaken(sync[q], x)'
      <4>1. Untaken(sync'[q], x)
        BY <2>1, <3>1 DEF Once, Turns
      <4>. QED  BY <4>1 DEF Untaken
    <3>. QED  BY <3>2, <3>3
  <2>. QED  BY <2>2, <2>3 DEF Once
<1>. QED  BY <1>1, <1>2 DEF EmailInv

\* A step of the sync p that writes to no table.
LEMMA QuietStep ==
  ASSUME EmailInv, NEW p \in Syncs, NEW s, NEW h, Turns(p, s, h),
         UNCHANGED <<about, mails, linked, audits, quotes, replies>>, marked' \subseteq Stored,
         \A l \in Letters : box'[l] # "coming" => l \in DOMAIN about,
         IsLocal(s), h \subseteq Changes, IsFiniteSet(h),
         WorksAt(s, h), Alone(p, s), \A x \in Pairs : Fresh(x) => Untaken(s, x)
  PROVE  EmailInv'
<1>1. Stored' = Stored
  BY DEF Stored
<1>2. Shaped'
  BY DEF EmailInv, Shaped, Turns, IsLocal
<1>3. Filed'
  BY <1>1 DEF EmailInv, Filed, OnlyLinkedAnswered
<1>4. Reasoned'
  BY DEF EmailInv, Reasoned, Sound, Explained, Asked
<1>5. Grown
  <2>1. \A x \in Pairs : Len(audits[x]) \in Nat
    BY AuditsAre DEF EmailInv
  <2>. QED  BY <1>1, <2>1 DEF Grown, Extend
<1>6. WorksAt(s, h)'
  BY <1>2, <1>5, WorksOn DEF EmailInv
<1>. QED  BY <1>2, <1>3, <1>4, <1>5, <1>6, StepOf

-----------------------------------------------------------------------------
(* Steps that are one sync's own. *)

LEMMA AtSync ==
  ASSUME EmailInv, NEW p \in Syncs
  PROVE  /\ IsLocal(sync[p]) /\ WorksAt(sync[p], held[p]) /\ Alone(p, sync[p])
         /\ held[p] \subseteq Changes /\ IsFiniteSet(held[p])
         /\ \A x \in Pairs : Fresh(x) => Untaken(sync[p], x)
BY DEF EmailInv, Shaped, Working, Apart, Given, Once

LEMMA OwnStep ==
  ASSUME EmailInv, NEW p \in Syncs, NEW s, NEW h, Becomes(p, s),
         held' = [held EXCEPT ![p] = h] \/ (held' = held /\ h = held[p]),
         UNCHANGED <<about, box, mails, linked, audits, quotes, replies, marked>>,
         IsLocal(s), h \subseteq Changes, IsFiniteSet(h),
         WorksAt(s, h), Alone(p, s), \A x \in Pairs : Fresh(x) => Untaken(s, x)
  PROVE  EmailInv'
<1>1. Turns(p, s, h)
  BY MovesIs DEF EmailInv
<1>2. marked' \subseteq Stored /\ \A l \in Letters : box'[l] # "coming" => l \in DOMAIN about
  BY DEF EmailInv, Filed, Shaped
<1>. QED  BY <1>1, <1>2, QuietStep

\* The same when the sync imports no letter afterwards.
LEMMA OwnStepOut ==
  ASSUME EmailInv, NEW p \in Syncs, NEW s, NEW h, Becomes(p, s),
         held' = [held EXCEPT ![p] = h] \/ (held' = held /\ h = held[p]),
         UNCHANGED <<about, box, mails, linked, audits, quotes, replies, marked>>,
         IsLocal(s), h \subseteq Changes, IsFiniteSet(h),
         WorksAt(s, h), s.via # "inbox"
  PROVE  EmailInv'
<1>1. Alone(p, s) /\ \A x \in Pairs : Untaken(s, x)
  BY DEF Alone, Untaken
<1>. QED  BY <1>1, OwnStep

\* Changes that a sync relies on: entries, links and results of resumptions.
Alike(g, h) == \A c \in Changes : c.what \in {"row", "link", "resume"} => (c \in g <=> c \in h)

LEMMA WorksAlike ==
  ASSUME NEW s, NEW g, g \subseteq Changes, NEW h, h \subseteq Changes, Alike(g, h), WorksAt(s, g)
  PROVE  WorksAt(s, h)
<1>1. \A c \in h : c \in Changes /\ (c.what \in {"row", "link", "resume"} => c \in g)
  BY DEF Alike
<1>2. \A c \in g : c \in Changes /\ (c.what \in {"row", "link", "resume"} => c \in h)
  BY DEF Alike
<1>3. \A c \in h : Holds(s, c)
  BY <1>1 DEF WorksAt, Holds
<1>4. RowIsThere(s, g) => RowIsThere(s, h)
  BY <1>2 DEF RowIsThere, Of
<1>5. Linked(s, g) => Linked(s, h)
  BY <1>2 DEF Linked, Of
<1>6. Importing(s, g) => Importing(s, h)
  BY <1>4, <1>5 DEF Importing
<1>. QED  BY <1>3, <1>6 DEF WorksAt

\* One change more that no sync relies on.
LEMMA OneMore ==
  ASSUME NEW g, g \subseteq Changes, IsFiniteSet(g), NEW c \in Changes,
         c.what \notin {"row", "link", "resume"}
  PROVE  g \cup {c} \subseteq Changes /\ IsFiniteSet(g \cup {c}) /\ Alike(g, g \cup {c})
BY FS_AddElement DEF Alike

LEMMA PutIs ==
  ASSUME NEW g, g \subseteq Changes, IsFiniteSet(g), NEW r \in Rfqs, NEW k \in Words
  PROVE  Put(g, r, k) \subseteq Changes /\ IsFiniteSet(Put(g, r, k)) /\ Alike(g, Put(g, r, k))
<1>. DEFINE c == Change("status", Nothing, r, 0, k)
            rest == {d \in g : ~(d.what = "status" /\ d.rfq = r)}
<1>1. c \in Changes /\ c.what = "status"
  BY DEF Change, Changes, Whats
<1>2. rest \subseteq g /\ IsFiniteSet(rest)
  BY FS_Subset
<1>3. Put(g, r, k) = rest \/ Put(g, r, k) = rest \cup {c}
  BY DEF Put
<1>4. IsFiniteSet(rest \cup {c})
  BY <1>2, FS_AddElement
<1>5. \A d \in g : d.what \in {"row", "link", "resume"} => d \in rest
  OBVIOUS
<1>. HIDE DEF c, rest
<1>. QED  BY <1>1, <1>2, <1>3, <1>4, <1>5 DEF Alike

LEMMA EscalateIs ==
  ASSUME NEW g, g \subseteq Changes, IsFiniteSet(g), NEW r \in Rfqs, NEW l \in Letters,
         NEW k \in Words
  PROVE  /\ Escalate(g, l, r, k) \subseteq Changes /\ IsFiniteSet(Escalate(g, l, r, k))
         /\ Alike(g, Escalate(g, l, r, k))
<1>. DEFINE c == Change("open", l, r, 0, k)  put == Put(g, r, "escalated")
<1>1. c \in Changes /\ c.what = "open"
  BY DEF Change, Changes, Whats
<1>2. put \subseteq Changes /\ IsFiniteSet(put) /\ Alike(g, put)
  <2>1. "escalated" \in Words
    BY DEF Words
  <2>. QED  BY <2>1, PutIs
<1>. HIDE DEF c, put
<1>3. /\ put \cup {c} \subseteq Changes /\ IsFiniteSet(put \cup {c}) /\ Alike(put, put \cup {c})
  BY <1>1, <1>2, OneMore
<1>4. Alike(g, put \cup {c})
  BY <1>2, <1>3 DEF Alike
<1>. QED  BY <1>3, <1>4 DEF Escalate, c, put

-----------------------------------------------------------------------------
(* Dialogues are resumed. *)

Untouched == UNCHANGED <<about, box, mails, linked, audits, quotes, replies, marked>>

LEMMA PutUpIs ==
  ASSUME Shaped, Filed, NEW l, NEW r, NEW i, PutUp(l, r, i)
  PROVE  /\ l \in Letters /\ r \in Rfqs /\ i \in Nat /\ <<l, r>> \in Pairs
         /\ l \in linked /\ ~ Fresh(<<l, r>>)
<1>1. l \in Letters /\ r \in Rfqs /\ <<l, r>> \in Pairs
  BY LinkedIs DEF PutUp, Pairs
<1>2. i \in Nat
  BY <1>1, AuditsAre DEF PutUp
<1>. QED  BY <1>1, <1>2 DEF PutUp, Fresh

\* The result of a resumption is held with what is held.
LEMMA ResultHeld ==
  ASSUME Shaped, Filed, NEW s, NEW g, g \subseteq Changes, IsFiniteSet(g), \A c \in g : Holds(s, c),
         NEW l, NEW r, NEW i, PutUp(l, r, i), NEW k \in {"blocked", "done"}
  PROVE  /\ g \cup {Change("resume", l, r, i, k)} \subseteq Changes
         /\ IsFiniteSet(g \cup {Change("resume", l, r, i, k)})
         /\ \A c \in g \cup {Change("resume", l, r, i, k)} : Holds(s, c)
<1>. DEFINE d == Change("resume", l, r, i, k)
<1>1. /\ d \in Changes /\ d.what = "resume" /\ d.letter = l /\ d.rfq = r /\ d.n = i /\ d.s = k
  BY PutUpIs DEF Change, Changes, Whats, Words
<1>. HIDE DEF d
<1>2. Holds(s, d)
  BY <1>1 DEF Holds, Resumes
<1>3. IsFiniteSet(g \cup {d})
  BY FS_AddElement
<1>. QED  BY <1>1, <1>2, <1>3 DEF d

LEMMA ListPendingSafe ==
  ASSUME EmailInv, NEW p \in Syncs, ListPending(p)
  PROVE  EmailInv'
<1>. DEFINE Pending(x) == {i \in DOMAIN audits[x] : audits[x][i].resume = "pending"}
            todo == {<<x[1], x[2], Max(Pending(x))>> : x \in {y \in Pairs : Pending(y) # {}}}
<1>1. PICK s : s = [sync[p] EXCEPT !.pc = "groups", !.todo = todo]
  OBVIOUS
<1>2. Becomes(p, s)
  <2>1. {y \in Pairs : Pending(y) # {}} = {y \in Pairs : \E i \in DOMAIN audits[y] : audits[y][i].resume = "pending"}
    OBVIOUS
  <2>. QED  BY <1>1, <2>1 DEF ListPending
<1>3. Untouched /\ held' = held /\ sync[p].pc = "pending"
  BY DEF Untouched, ListPending, store, history, At
<1>4. ASSUME NEW t \in todo PROVE PutUp(t[1], t[2], t[3])
  <2>1. PICK x \in Pairs : Pending(x) # {} /\ t = <<x[1], x[2], Max(Pending(x))>>
    OBVIOUS
  <2>2. Len(audits[x]) \in Nat /\ DOMAIN audits[x] = 1 .. Len(audits[x])
    BY AuditsAre DEF EmailInv
  <2>3. Max(Pending(x)) \in Pending(x)
    <3>1. Pending(x) \subseteq 0 .. Len(audits[x])
      BY <2>2
    <3>. HIDE DEF Pending
    <3>. QED  BY <2>1, <2>2, <3>1, MaxIs
  <2>4. PICK i \in DOMAIN audits[x] : t[3] = i /\ audits[x][i].resume = "pending"
    BY <2>1, <2>3
  <2>5. x[1] \in linked /\ audits[x][i].why # "none"
    BY <2>4 DEF EmailInv, Reasoned, Sound, Explained, Asked
  <2>6. t[1] = x[1] /\ t[2] = x[2] /\ x = <<x[1], x[2]>> /\ x[2] \in Rfqs
    BY <2>1 DEF Pairs
  <2>. QED  BY <2>4, <2>5, <2>6 DEF PutUp
<1>. HIDE DEF todo
<1>5. /\ IsLocal(sync[p]) /\ WorksAt(sync[p], held[p])
      /\ held[p] \subseteq Changes /\ IsFiniteSet(held[p])
  BY AtSync
<1>6. sync[p].via = "none"
  BY <1>3, <1>5 DEF IsLocal, WorksAt, Resuming, Importing
<1>7. /\ IsLocal(s) /\ s.pc = "groups" /\ s.via = "none" /\ s.todo = todo
      /\ s.done = sync[p].done /\ s.batch = sync[p].batch /\ s.letter = sync[p].letter
  BY <1>1, <1>5, <1>6 DEF IsLocal, LocalFields
<1>8. WorksAt(s, held[p])
  <2>1. \A c \in held[p] : Holds(s, c)
    BY <1>5, <1>6, <1>7 DEF WorksAt, Holds
  <2>. QED  BY <1>4, <1>5, <1>7, <2>1 DEF WorksAt, Between
<1>. QED  BY <1>2, <1>3, <1>5, <1>7, <1>8, OwnStepOut DEF Untouched

\* A dialogue goes on with its next letter.
LEMMA ItemDone ==
  ASSUME EmailInv, NEW p \in Syncs, sync[p].via = "resume",
         NEW h, h \subseteq Changes, IsFiniteSet(h), \A c \in h : Holds(sync[p], c),
         Becomes(p, NextItem(p)), held' = [held EXCEPT ![p] = h], Untouched
  PROVE  EmailInv'
<1>1. PICK s : s = NextItem(p)
  OBVIOUS
<1>2. IsLocal(sync[p]) /\ WorksAt(sync[p], held[p])
  BY AtSync
<1>3. /\ IsLocal(s) /\ s.pc = "resume" /\ s.via = "resume" /\ s.todo = sync[p].todo
      /\ s.done = sync[p].done /\ s.batch = sync[p].batch
  BY <1>1, <1>2 DEF IsLocal, LocalFields, NextItem
<1>4. WorksAt(s, h)
  <2>1. \A c \in h : Holds(s, c)
    BY <1>3 DEF Holds
  <2>. QED  BY <1>2, <1>3, <2>1 DEF WorksAt, Resuming
<1>. QED  BY <1>1, <1>3, <1>4, OwnStepOut DEF Untouched

\* At a letter of a dialogue, the audit it is about was put up.
LEMMA AtItem ==
  ASSUME EmailInv, NEW p \in Syncs, sync[p].via = "resume", sync[p].pc # "resume"
  PROVE  /\ PutUp(sync[p].letter, sync[p].rfq, sync[p].audit)
         /\ sync[p].letter \in Letters /\ sync[p].rfq \in Rfqs /\ sync[p].audit \in Nat
<1>1. PutUp(sync[p].letter, sync[p].rfq, sync[p].audit)
  BY AtSync DEF WorksAt, Resuming
<1>. QED  BY <1>1, PutUpIs DEF EmailInv

\* An item ends with a result that is held.
LEMMA ItemEnds ==
  ASSUME EmailInv, NEW p \in Syncs, sync[p].via = "resume", sync[p].pc # "resume",
         NEW g, g \subseteq Changes, IsFiniteSet(g), \A c \in g : Holds(sync[p], c),
         NEW k \in {"blocked", "done"}, Becomes(p, NextItem(p)),
         held' = [held EXCEPT ![p] = g \cup {Result(p, k)}], Untouched
  PROVE  EmailInv'
<1>1. PutUp(sync[p].letter, sync[p].rfq, sync[p].audit)
  BY AtItem
<1>2. PICK h : h = g \cup {Result(p, k)}
  OBVIOUS
<1>3. h \subseteq Changes /\ IsFiniteSet(h) /\ \A c \in h : Holds(sync[p], c)
  <2>1. Shaped /\ Filed
    BY DEF EmailInv
  <2>2. Result(p, k) = Change("resume", sync[p].letter, sync[p].rfq, sync[p].audit, k)
    BY DEF Result
  <2>3. \A l, r, i : PutUp(l, r, i) => LET d == Change("resume", l, r, i, k) IN
            g \cup {d} \subseteq Changes /\ IsFiniteSet(g \cup {d}) /\ \A c \in g \cup {d} : Holds(sync[p], c)
    <3>1. PICK s : s = sync[p]
      OBVIOUS
    <3>2. \A c \in g : Holds(s, c)
      BY <3>1
    <3>. QED  BY <2>1, <3>1, <3>2, ResultHeld
  <2>. QED  BY <1>1, <1>2, <2>2, <2>3
<1>. QED  BY <1>2, <1>3, ItemDone

LEMMA HeldIs ==
  ASSUME EmailInv, NEW p \in Syncs
  PROVE  held[p] \subseteq Changes /\ IsFiniteSet(held[p]) /\ \A c \in held[p] : Holds(sync[p], c)
BY AtSync DEF WorksAt

LEMMA ResumeStoppedSafe ==
  ASSUME EmailInv, NEW p \in Syncs, ResumeStopped(p)
  PROVE  EmailInv'
<1>1. PICK g : g = IF UnresolvedLetter(sync[p].letter, sync[p].rfq) THEN held[p]
                   ELSE Escalate(held[p], sync[p].letter, sync[p].rfq, "other")
  OBVIOUS
<1>2. /\ sync[p].via = "resume" /\ sync[p].pc = "judge" /\ Becomes(p, NextItem(p))
      /\ held' = [held EXCEPT ![p] = g \cup {Result(p, "blocked")}] /\ Untouched
  BY <1>1 DEF ResumeStopped, Here, Hold, Untouched, store, history, At
<1>3. g \subseteq Changes /\ IsFiniteSet(g) /\ Alike(held[p], g)
  <2>1. "other" \in Words /\ Alike(held[p], held[p])
    BY DEF Words, Alike
  <2>2. held[p] \subseteq Changes /\ IsFiniteSet(held[p])
    BY HeldIs
  <2>3. sync[p].letter \in Letters /\ sync[p].rfq \in Rfqs
    BY <1>2, AtItem
  <2>. QED  BY <1>1, <2>1, <2>2, <2>3, EscalateIs
<1>4. \A c \in g : Holds(sync[p], c)
  BY <1>3, HeldIs DEF Alike, Holds
<1>. QED  BY <1>2, <1>3, <1>4, ItemEnds

LEMMA ResumeSilentSafe ==
  ASSUME EmailInv, NEW p \in Syncs, ResumeSilent(p) \/ ResumeFactsOnly(p)
  PROVE  EmailInv'
<1>1. /\ sync[p].via = "resume" /\ sync[p].pc # "resume" /\ Becomes(p, NextItem(p))
      /\ held' = [held EXCEPT ![p] = held[p] \cup {Result(p, "done")}] /\ Untouched
  BY DEF ResumeSilent, ResumeFactsOnly, Hold, Untouched, store, history, At
<1>. QED  BY <1>1, HeldIs, ItemEnds

\* A sync at the items of a dialogue, or at a dialogue it takes up.
LEMMA TakeItemSafe ==
  ASSUME EmailInv, NEW p \in Syncs, TakeItem(p)
  PROVE  EmailInv'
<1>1. /\ IsLocal(sync[p]) /\ WorksAt(sync[p], held[p])
      /\ held[p] \subseteq Changes /\ IsFiniteSet(held[p])
  BY AtSync
<1>0. Shaped /\ Filed
  BY DEF EmailInv
<1>2. UNCHANGED <<about, box>> /\ marked' = marked /\ replies' = replies
  BY DEF TakeItem, history
<1>3. PICK s \in IF At(p, "resume") THEN {sync[p]}
                 ELSE IF At(p, "groups") THEN {NextGroup(p, r) : r \in {t[2] : t \in sync[p].todo}}
                 ELSE {} :
        \E t \in s.todo :
         /\ t[2] = s.rfq
         /\ IF UnresolvedLetter(t[1], t[2])
            THEN /\ Becomes(p, [s EXCEPT !.todo = @ \ {t}])
                 /\ Hold(p, held[p] \cup {Change("resume", t[1], t[2], t[3], "blocked")})
            ELSE /\ Becomes(p, [s EXCEPT !.todo = @ \ {t}, !.pc = "audit",
                                        !.letter = t[1], !.audit = t[3]])
                 /\ UNCHANGED <<store, held>>
  BY DEF TakeItem
<1>4. /\ IsLocal(s) /\ s.via = "resume" /\ s.pc = "resume" /\ s.todo = sync[p].todo
      /\ s.done = sync[p].done /\ s.batch = sync[p].batch
  <2>1. CASE At(p, "resume")
    <3>1. s = sync[p]
      BY <1>3, <2>1
    <3>2. sync[p].via = "resume"
      BY <1>1, <2>1 DEF At, WorksAt, Between, Importing, IsLocal
    <3>. QED  BY <1>1, <2>1, <3>1, <3>2 DEF At
  <2>2. CASE ~ At(p, "resume")
    <3>1. PICK r : s = NextGroup(p, r)
      BY <1>3, <2>2
    <3>. QED  BY <1>1, <3>1 DEF NextGroup, IsLocal, LocalFields
  <2>. QED  BY <2>1, <2>2
<1>5. PICK t \in s.todo :
         /\ t[2] = s.rfq
         /\ IF UnresolvedLetter(t[1], t[2])
            THEN /\ Becomes(p, [s EXCEPT !.todo = @ \ {t}])
                 /\ Hold(p, held[p] \cup {Change("resume", t[1], t[2], t[3], "blocked")})
            ELSE /\ Becomes(p, [s EXCEPT !.todo = @ \ {t}, !.pc = "audit",
                                        !.letter = t[1], !.audit = t[3]])
                 /\ UNCHANGED <<store, held>>
  BY <1>3
<1>6. PutUp(t[1], t[2], t[3]) /\ \A u \in sync[p].todo : PutUp(u[1], u[2], u[3])
  BY <1>1, <1>4 DEF WorksAt
<1>7. \A c \in held[p] : Holds(sync[p], c)
  BY <1>1 DEF WorksAt
<1>8. sync[p].via # "inbox"
  BY <1>1, <1>3 DEF At, WorksAt, Importing
<1>9. \A c \in held[p] : Holds(s, c)
  BY <1>4, <1>7, <1>8 DEF Holds
<1>10. CASE UnresolvedLetter(t[1], t[2])
  <2>1. PICK u, h : /\ u = [s EXCEPT !.todo = @ \ {t}]
                    /\ h = held[p] \cup {Change("resume", t[1], t[2], t[3], "blocked")}
    OBVIOUS
  <2>2. Becomes(p, u) /\ held' = [held EXCEPT ![p] = h] /\ Untouched
    BY <1>2, <1>5, <1>10, <2>1 DEF Hold, Untouched, store
  <2>3. /\ IsLocal(u) /\ u.via = "resume" /\ u.pc = "resume" /\ u.todo \subseteq sync[p].todo
        /\ u.done = sync[p].done /\ u.batch = sync[p].batch
    BY <1>4, <2>1 DEF IsLocal, LocalFields
  <2>4. h \subseteq Changes /\ IsFiniteSet(h) /\ \A c \in h : Holds(s, c)
    <3>1. PICK k \in {"blocked", "done"} : k = "blocked"
      OBVIOUS
    <3>2. PICK l, r, i : l = t[1] /\ r = t[2] /\ i = t[3]
      OBVIOUS
    <3>3. PICK g : g = held[p]
      OBVIOUS
    <3>4. h = g \cup {Change("resume", l, r, i, k)} /\ PutUp(l, r, i)
      BY <1>6, <2>1, <3>1, <3>2, <3>3
    <3>5. g \subseteq Changes /\ IsFiniteSet(g) /\ \A c \in g : Holds(s, c)
      BY <1>1, <1>9, <3>3
    <3>. QED  BY <1>0, <3>4, <3>5, ResultHeld
  <2>5. WorksAt(u, h)
    <3>1. \A c \in h : Holds(u, c)
      BY <1>4, <2>3, <2>4 DEF Holds
    <3>. QED  BY <1>1, <1>6, <2>3, <3>1 DEF WorksAt, Resuming
  <2>. QED  BY <2>2, <2>3, <2>4, <2>5, OwnStepOut DEF Untouched
<1>11. CASE ~ UnresolvedLetter(t[1], t[2])
  <2>1. PICK u : u = [s EXCEPT !.todo = @ \ {t}, !.pc = "audit", !.letter = t[1], !.audit = t[3]]
    OBVIOUS
  <2>2. Becomes(p, u) /\ held' = held /\ Untouched
    BY <1>2, <1>5, <1>11, <2>1 DEF Untouched, store
  <2>3. /\ IsLocal(u) /\ u.via = "resume" /\ u.pc = "audit" /\ u.todo \subseteq sync[p].todo
        /\ u.done = sync[p].done /\ u.batch = sync[p].batch
        /\ u.letter = t[1] /\ u.audit = t[3] /\ u.rfq = t[2]
    BY <1>4, <1>5, <2>1 DEF IsLocal, LocalFields
  <2>4. WorksAt(u, held[p])
    <3>1. \A c \in held[p] : Holds(u, c)
      BY <1>4, <1>9, <2>3 DEF Holds
    <3>. QED  BY <1>1, <1>6, <2>3, <3>1 DEF WorksAt, Resuming
  <2>. QED  BY <1>1, <2>2, <2>3, <2>4, OwnStepOut DEF Untouched
<1>. QED  BY <1>10, <1>11

\* A sync stays at its item.
LEMMA ItemGoesOn ==
  ASSUME EmailInv, NEW p \in Syncs, sync[p].via = "resume", sync[p].pc # "resume",
         NEW pc \in {"audit wait", "judge", "offers"}, NEW n \in Nat,
         Becomes(p, [sync[p] EXCEPT !.pc = pc, !.offers = n]),
         NEW h, h \subseteq Changes, IsFiniteSet(h), Alike(held[p], h),
         held' = [held EXCEPT ![p] = h] \/ (held' = held /\ h = held[p]), Untouched
  PROVE  EmailInv'
<1>1. IsLocal(sync[p]) /\ WorksAt(sync[p], held[p]) /\ held[p] \subseteq Changes
  BY AtSync
<1>2. PICK s : s = [sync[p] EXCEPT !.pc = pc, !.offers = n]
  OBVIOUS
<1>3. /\ IsLocal(s) /\ s.pc = pc /\ s.via = "resume" /\ s.todo = sync[p].todo
      /\ s.done = sync[p].done /\ s.batch = sync[p].batch /\ s.letter = sync[p].letter
      /\ s.rfq = sync[p].rfq /\ s.audit = sync[p].audit
  BY <1>1, <1>2 DEF IsLocal, LocalFields
<1>4. WorksAt(s, held[p])
  <2>1. \A c \in held[p] : Holds(s, c)
    BY <1>1, <1>3 DEF WorksAt, Holds
  <2>. QED  BY <1>1, <1>3, <2>1 DEF WorksAt, Resuming
<1>5. WorksAt(s, h)
  BY <1>1, <1>4, WorksAlike
<1>. QED  BY <1>2, <1>3, <1>5, OwnStepOut DEF Untouched

LEMMA ResumeReadsSafe ==
  ASSUME EmailInv, NEW p \in Syncs, ResumeReads(p)
  PROVE  EmailInv'
<1>1. /\ sync[p].via = "resume" /\ sync[p].pc = "judge" /\ held' = held /\ Untouched
  BY DEF ResumeReads, Untouched, store, history, At
<1>2. sync[p].letter \in Letters
  BY <1>1, AtItem
<1>3. OfferCounts(sync[p].letter) \subseteq Nat
  <2>1. OffersOf[sync[p].letter] \in Nat
    BY <1>2, InboxAssumption
  <2>. QED  BY <2>1 DEF OfferCounts
<1>4. PICK n \in Nat : Becomes(p, [sync[p] EXCEPT !.pc = "offers", !.offers = n])
  BY <1>3 DEF ResumeReads
<1>5. Alike(held[p], held[p])
  BY DEF Alike
<1>. QED  BY <1>1, <1>4, <1>5, HeldIs, ItemGoesOn

\* An exception ends the resumption: the sync holds nothing and goes on to the mailbox.
LEMMA OutWithNothing ==
  ASSUME EmailInv, NEW p \in Syncs, NEW s, Becomes(p, s), held' = [held EXCEPT ![p] = {}], Untouched,
         IsLocal(s), s.via = "none", s.pc \in {"idle", "fetch", "letters"}, s.todo \subseteq sync[p].todo,
         s.done \subseteq sync[p].done, s.batch \subseteq sync[p].batch
  PROVE  EmailInv'
<1>1. WorksAt(sync[p], held[p])
  BY AtSync
<1>2. WorksAt(s, {})
  BY <1>1 DEF WorksAt, Between
<1>. QED  BY <1>2, FS_EmptySet, OwnStepOut DEF Untouched

LEMMA AbandonSafe ==
  ASSUME EmailInv, NEW p \in Syncs, Abandon(p), UNCHANGED <<about, box, replies, marked>>
  PROVE  EmailInv'
<1>1. PICK s : s = [sync[p] EXCEPT !.pc = "fetch", !.via = "none", !.letter = Nothing,
                !.rfq = Nothing, !.audit = 0, !.last = Nothing, !.offers = 0,
                !.todo = {}, !.errors = TRUE]
  OBVIOUS
<1>2. /\ IsLocal(s) /\ s.pc = "fetch" /\ s.via = "none" /\ s.todo = {}
      /\ s.done = sync[p].done /\ s.batch = sync[p].batch
  BY <1>1, AtSync DEF IsLocal, LocalFields
<1>3. Becomes(p, s) /\ held' = [held EXCEPT ![p] = {}] /\ Untouched
  BY <1>1 DEF Abandon, Hold, Untouched, store
<1>. QED  BY <1>2, <1>3, OutWithNothing

\* The audit of an item is inserted.
LEMMA AuditInserted ==
  ASSUME EmailInv, NEW p \in Syncs, sync[p].via = "resume", sync[p].pc # "resume",
         Goes(p, "judge"), UNCHANGED <<about, box, replies, marked>>,
         Hold(p, held[p] \cup {Change("audit", sync[p].letter, sync[p].rfq, sync[p].audit, "other")})
  PROVE  EmailInv'
<1>1. /\ IsLocal(sync[p]) /\ held[p] \subseteq Changes /\ IsFiniteSet(held[p])
  BY AtSync
<1>2. sync[p].letter \in Letters /\ sync[p].rfq \in Rfqs /\ sync[p].audit \in Nat
  BY AtItem
<1>3. PICK c : c = Change("audit", sync[p].letter, sync[p].rfq, sync[p].audit, "other")
  OBVIOUS
<1>4. c \in Changes /\ c.what = "audit"
  BY <1>2, <1>3 DEF Change, Changes, Whats, Words
<1>5. PICK h : h = held[p] \cup {c}
  OBVIOUS
<1>6. h \subseteq Changes /\ IsFiniteSet(h) /\ Alike(held[p], h)
  BY <1>1, <1>4, <1>5, OneMore
<1>7. held' = [held EXCEPT ![p] = h] /\ Untouched
  BY <1>3, <1>5 DEF Hold, Untouched, store
<1>8. PICK n \in Nat : n = sync[p].offers
  BY <1>1 DEF IsLocal
<1>9. [sync[p] EXCEPT !.pc = "judge"] = [sync[p] EXCEPT !.pc = "judge", !.offers = n]
  BY <1>1, <1>8 DEF IsLocal, LocalFields
<1>10. Becomes(p, [sync[p] EXCEPT !.pc = "judge", !.offers = n])
  BY <1>9 DEF Goes
<1>. QED  BY <1>6, <1>7, <1>10, ItemGoesOn

LEMMA AuditSafe ==
  ASSUME EmailInv, NEW p \in Syncs, StartAudit(p) \/ AuditFreed(p)
  PROVE  EmailInv'
<1>1. UNCHANGED <<about, box, replies, marked>>
  BY DEF StartAudit, AuditFreed, history
<1>2. IsLocal(sync[p]) /\ WorksAt(sync[p], held[p])
  BY AtSync
<1>3. sync[p].via = "resume" /\ sync[p].pc # "resume"
  <2>1. sync[p].pc \in {"audit", "audit wait"}
    BY DEF StartAudit, AuditFreed, At
  <2>. QED  BY <1>2, <2>1 DEF IsLocal, WorksAt, Between, Importing
<1>4. \/ Goes(p, "judge") /\ UNCHANGED <<store, held>>
      \/ Goes(p, "audit wait") /\ UNCHANGED <<store, held>>
      \/ Abandon(p)
      \/ /\ Goes(p, "judge")
         /\ Hold(p, held[p] \cup {Change("audit", sync[p].letter, sync[p].rfq, sync[p].audit, "other")})
  BY DEF StartAudit, AuditFreed, Here
<1>5. ASSUME NEW pc \in {"judge", "audit wait"}, Goes(p, pc), UNCHANGED <<store, held>>
      PROVE  EmailInv'
  <2>1. PICK n \in Nat : n = sync[p].offers
    BY <1>2 DEF IsLocal
  <2>2. [sync[p] EXCEPT !.pc = pc] = [sync[p] EXCEPT !.pc = pc, !.offers = n]
    BY <1>2, <2>1 DEF IsLocal, LocalFields
  <2>3. Becomes(p, [sync[p] EXCEPT !.pc = pc, !.offers = n])
    BY <1>5, <2>2 DEF Goes
  <2>4. Untouched /\ held' = held /\ Alike(held[p], held[p])
    BY <1>1, <1>5 DEF Untouched, store, Alike
  <2>. QED  BY <1>3, <2>3, <2>4, HeldIs, ItemGoesOn
<1>. QED  BY <1>1, <1>3, <1>4, <1>5, AbandonSafe, AuditInserted

-----------------------------------------------------------------------------
(* The mailbox is read. *)

\* A step of a sync that imports nothing, before and after it.
LEMMA OutsideStep ==
  ASSUME EmailInv, NEW p \in Syncs, sync[p].via = "none", NEW s, Becomes(p, s), held' = held, Untouched,
         IsLocal(s), s.via = "none", s.todo \subseteq sync[p].todo, Between(s),
         s.done \subseteq Stored, s.batch \subseteq DOMAIN about
  PROVE  EmailInv'
<1>1. /\ IsLocal(sync[p]) /\ WorksAt(sync[p], held[p])
      /\ held[p] \subseteq Changes /\ IsFiniteSet(held[p])
  BY AtSync
<1>2. WorksAt(s, held[p])
  <2>1. \A c \in held[p] : Holds(s, c)
    BY <1>1 DEF WorksAt, Holds
  <2>. QED  BY <1>1, <2>1 DEF WorksAt
<1>. QED  BY <1>1, <1>2, OwnStepOut DEF Untouched

LEMMA NextOfIs ==
  ASSUME EmailInv, NEW p \in Syncs, sync[p].batch # {}
  PROVE  /\ NextOf(p) \in sync[p].batch /\ NextOf(p) \in DOMAIN about
         /\ NextOf(p) \in Letters /\ about[NextOf(p)] \subseteq Rfqs
<1>1. sync[p].batch \subseteq DOMAIN about
  BY AtSync DEF WorksAt
<1>2. DOMAIN about \subseteq Letters /\ Letters \subseteq Nat /\ \A l \in DOMAIN about : about[l] \subseteq Rfqs
  BY AboutIs, InboxAssumption DEF EmailInv, Shaped
<1>3. NextOf(p) \in sync[p].batch
  BY <1>1, <1>2, LeastIs DEF NextOf
<1>. QED  BY <1>1, <1>2, <1>3

\* At a letter of the batch or waiting for its row, a sync imports nothing yet.
LEMMA AtLetters ==
  ASSUME EmailInv, NEW p \in Syncs, sync[p].pc \in {"idle", "pending", "groups", "fetch", "letters", "row wait"}
  PROVE  sync[p].via = "none"
BY AtSync DEF IsLocal, WorksAt, Resuming, Importing

LEMMA FetchSafe ==
  ASSUME EmailInv, NEW p \in Syncs, Fetch(p)
  PROVE  EmailInv'
<1>1. PICK batch : batch = {l \in Fetchable(p) : Cardinality({m \in Fetchable(p) : m > l}) < Limit}
  OBVIOUS
<1>2. PICK s : s = [sync[p] EXCEPT !.pc = "letters", !.batch = batch]
  OBVIOUS
<1>3. Becomes(p, s) /\ held' = held /\ Untouched /\ sync[p].pc \in {"groups", "fetch"}
  BY <1>1, <1>2 DEF Fetch, Untouched, store, history, At
<1>4. batch \subseteq DOMAIN about
  BY <1>1 DEF Fetchable, EmailInv, Shaped
<1>5. IsLocal(sync[p]) /\ WorksAt(sync[p], held[p])
  BY AtSync
<1>6. sync[p].via = "none"
  BY <1>3, AtLetters
<1>7. /\ IsLocal(s) /\ s.via = "none" /\ s.pc = "letters" /\ s.todo = sync[p].todo
      /\ s.done = sync[p].done /\ s.batch = batch
  BY <1>2, <1>5, <1>6 DEF IsLocal, LocalFields
<1>. QED  BY <1>3, <1>4, <1>5, <1>6, <1>7, OutsideStep DEF Between, WorksAt

LEMMA ProcessedIs ==
  ASSUME EmailInv, NEW p \in Syncs, NEW l
  PROVE  LET s == Processed(p, l) IN
         /\ IsLocal(s) /\ s.via = "none" /\ s.pc = "letters" /\ s.todo = sync[p].todo
         /\ s.done = sync[p].done \cup {l} /\ s.batch \subseteq sync[p].batch
BY AtSync DEF Processed, IsLocal, LocalFields

LEMMA DuplicateSafe ==
  ASSUME EmailInv, NEW p \in Syncs, Duplicate(p)
  PROVE  EmailInv'
<1>1. PICK s : s = Processed(p, NextOf(p))
  OBVIOUS
<1>2. Becomes(p, s) /\ held' = held /\ Untouched /\ sync[p].pc = "letters" /\ NextOf(p) \in Stored
  BY <1>1 DEF Duplicate, Untouched, store, history, At
<1>3. /\ IsLocal(s) /\ s.via = "none" /\ s.pc = "letters" /\ s.todo = sync[p].todo
      /\ s.done = sync[p].done \cup {NextOf(p)} /\ s.batch \subseteq sync[p].batch
  BY <1>1, ProcessedIs
<1>4. sync[p].via = "none" /\ WorksAt(sync[p], held[p])
  BY <1>2, AtLetters, AtSync
<1>. QED  BY <1>2, <1>3, <1>4, OutsideStep DEF Between, WorksAt

LEMMA SkipSafe ==
  ASSUME EmailInv, NEW p \in Syncs, NEW l, Skip(p, l), UNCHANGED <<about, box, replies, marked>>
  PROVE  EmailInv'
<1>1. PICK s : s = [Processed(p, l) EXCEPT !.done = sync[p].done, !.errors = TRUE]
  OBVIOUS
<1>2. Becomes(p, s) /\ held' = [held EXCEPT ![p] = {}] /\ Untouched
  BY <1>1 DEF Skip, Hold, Untouched, store
<1>3. PICK t : t = Processed(p, l)
  OBVIOUS
<1>4. /\ IsLocal(t) /\ t.via = "none" /\ t.pc = "letters" /\ t.todo = sync[p].todo
      /\ t.batch \subseteq sync[p].batch
  BY <1>3, ProcessedIs
<1>5. /\ IsLocal(s) /\ s.via = "none" /\ s.pc = "letters" /\ s.todo = sync[p].todo
      /\ s.done = sync[p].done /\ s.batch \subseteq sync[p].batch
  BY <1>1, <1>3, <1>4 DEF IsLocal, LocalFields
<1>. QED  BY <1>2, <1>5, OutWithNothing

LEMMA RestingIs ==
  /\ IsLocal(Resting) /\ Resting.via = "none" /\ Resting.pc = "idle" /\ Resting.todo = {}
  /\ Resting.done = {} /\ Resting.batch = {}
BY DEF Resting, IsLocal, LocalFields

LEMMA DiesSafe ==
  ASSUME EmailInv, NEW p \in Syncs, Dies(p)
  PROVE  EmailInv'
<1>1. Becomes(p, Resting) /\ held' = [held EXCEPT ![p] = {}] /\ Untouched
  BY DEF Dies, Hold, Untouched, store, history
<1>. QED  BY <1>1, RestingIs, OutWithNothing

LEMMA NotReconciledSafe ==
  ASSUME EmailInv, NEW p \in Syncs, NotReconciled(p)
  PROVE  EmailInv'
<1>1. PICK s : s = [sync[p] EXCEPT !.pc = "pending", !.errors = TRUE]
  OBVIOUS
<1>2. Becomes(p, s) /\ held' = held /\ Untouched /\ sync[p].pc = "idle"
  BY <1>1 DEF NotReconciled, Begins, Untouched, store, history, At
<1>3. sync[p].via = "none" /\ IsLocal(sync[p]) /\ WorksAt(sync[p], held[p])
  BY <1>2, AtLetters, AtSync
<1>4. /\ IsLocal(s) /\ s.via = "none" /\ s.pc = "pending" /\ s.todo = sync[p].todo
      /\ s.done = sync[p].done /\ s.batch = sync[p].batch
  BY <1>1, <1>3 DEF IsLocal, LocalFields
<1>. QED  BY <1>2, <1>3, <1>4, OutsideStep DEF Between, WorksAt

LEMMA RaisesSafe ==
  ASSUME EmailInv, NEW p \in Syncs, Raises(p)
  PROVE  EmailInv'
<1>1. UNCHANGED <<about, box, replies, marked>>
  BY DEF Raises, history
<1>2. \/ Abandon(p)
      \/ \E l : Skip(p, l)
      \/ /\ sync[p].pc \in {"fetch", "groups"}
         /\ Becomes(p, Resting) /\ UNCHANGED <<store, held>>
  BY DEF Raises, At
<1>3. ASSUME sync[p].pc \in {"fetch", "groups"}, Becomes(p, Resting), UNCHANGED <<store, held>>
      PROVE  EmailInv'
  <2>1. sync[p].via = "none"
    BY <1>3, AtLetters
  <2>2. Untouched /\ held' = held
    BY <1>1, <1>3 DEF Untouched, store
  <2>. QED  BY <1>3, <2>1, <2>2, RestingIs, OutsideStep DEF Between
<1>. QED  BY <1>1, <1>2, <1>3, AbandonSafe, SkipSafe

LEMMA MarkSeenSafe ==
  ASSUME EmailInv, NEW p \in Syncs, MarkSeen(p)
  PROVE  EmailInv'
<1>1. /\ Becomes(p, Resting) /\ held' = held /\ sync[p].pc = "letters"
      /\ UNCHANGED <<about, mails, linked, audits, quotes, replies>>
  BY DEF MarkSeen, store, At
<1>2. sync[p].via = "none" /\ WorksAt(sync[p], held[p]) /\ held[p] \subseteq Changes /\ IsFiniteSet(held[p])
  BY <1>1, AtLetters, AtSync
<1>3. sync[p].done \subseteq Stored
  BY <1>2 DEF WorksAt
<1>4. marked' \subseteq Stored
  BY <1>3 DEF MarkSeen, EmailInv, Filed
<1>5. \A l \in Letters : box'[l] # "coming" => l \in DOMAIN about
  <2>1. sync[p].done \subseteq DOMAIN about
    BY <1>3 DEF EmailInv, Filed
  <2>. QED  BY <2>1 DEF MarkSeen, EmailInv, Shaped
<1>6. WorksAt(Resting, held[p])
  <2>1. \A c \in held[p] : Holds(Resting, c)
    BY <1>2, RestingIs DEF WorksAt, Holds
  <2>. QED  BY <2>1, RestingIs DEF WorksAt, Between
<1>7. Alone(p, Resting) /\ \A x \in Pairs : Untaken(Resting, x)
  BY RestingIs DEF Alone, Untaken
<1>8. Turns(p, Resting, held[p])
  BY <1>1, MovesIs DEF EmailInv
<1>. QED  BY <1>1, <1>2, <1>4, <1>5, <1>6, <1>7, <1>8, RestingIs, QuietStep

-----------------------------------------------------------------------------
(* A letter is imported. *)

LEMMA InsertedIs ==
  ASSUME NEW g, g \subseteq Changes, IsFiniteSet(g), NEW l \in Letters, about[l] \subseteq Rfqs
  PROVE  /\ Inserted(g, l) \subseteq Changes /\ IsFiniteSet(Inserted(g, l))
         /\ \E c \in Inserted(g, l) : c.what = "row" /\ c.letter = l
         /\ \A c \in Inserted(g, l) :
              c \in g \/ c.what = "status" \/ (c.what = "row" /\ c.letter = l /\ c.rfq = Nothing /\ c.n \in {0, 1})
<1>. DEFINE row == Change("row", l, Nothing, IF known THEN 1 ELSE 0, "received")
            rs == {q \in about[l] : status[q] # "collecting"}
            put(r) == Change("status", Nothing, r, 0, "collecting")
            puts == {put(r) : r \in rs}
            f == [r \in rs |-> put(r)]
<1>1. row \in Changes /\ row.what = "row" /\ row.letter = l /\ row.rfq = Nothing /\ row.n \in {0, 1}
  BY DEF Change, Changes, Whats, Words
<1>2. \A r \in rs : put(r) \in Changes /\ put(r).what = "status"
  BY DEF Change, Changes, Whats, Words
<1>3. IsFiniteSet(puts)
  <2>1. IsFiniteSet(rs)
    <3>1. IsFiniteSet(Rfqs) /\ rs \in SUBSET Rfqs
      BY InboxAssumption
    <3>. QED  BY <3>1, FS_Subset
  <2>2. f \in Surjection(rs, puts)
    BY DEF Surjection
  <2>. QED  BY <2>1, <2>2, FS_Surjection
<1>4. Inserted(g, l) = (g \cup {row}) \cup puts
  BY DEF Inserted
<1>5. puts \subseteq Changes /\ \A c \in puts : c.what = "status"
  BY <1>2
<1>. HIDE DEF row, puts
<1>6. IsFiniteSet(g \cup {row}) /\ IsFiniteSet((g \cup {row}) \cup puts)
  BY <1>3, FS_AddElement, FS_Union
<1>. QED  BY <1>1, <1>4, <1>5, <1>6

\* The second sync that meets a letter waits for the row of the first, so that the one
\* that inserts the row is alone with the letter.
LEMMA LetterTaken ==
  ASSUME EmailInv, NEW p \in Syncs, sync[p].via = "none",
         NEW l \in DOMAIN about, l \notin Stored, about[l] # {},
         ~ HeldElsewhere(p, "row", l, Nothing, 0), ~ HeldElsewhere(p, "row", l, Nothing, 1),
         Becomes(p, Judging(p, l)), Hold(p, Inserted(held[p], l)),
         UNCHANGED <<about, box, replies, marked>>
  PROVE  EmailInv'
<1>1. /\ IsLocal(sync[p]) /\ WorksAt(sync[p], held[p])
      /\ held[p] \subseteq Changes /\ IsFiniteSet(held[p])
  BY AtSync
<1>2. l \in Letters /\ about[l] \subseteq Rfqs /\ Rfqs \subseteq Nat
  BY AboutIs, InboxAssumption DEF EmailInv, Shaped
<1>3. PICK h : h = Inserted(held[p], l)
  OBVIOUS
<1>4. /\ h \subseteq Changes /\ IsFiniteSet(h) /\ \E c \in h : c.what = "row" /\ c.letter = l
      /\ \A c \in h : \/ c \in held[p] \/ c.what = "status"
                      \/ c.what = "row" /\ c.letter = l /\ c.rfq = Nothing /\ c.n \in {0, 1}
  BY <1>1, <1>2, <1>3, InsertedIs
<1>5. PICK s : s = Judging(p, l)
  OBVIOUS
<1>6. /\ IsLocal(s) /\ s.via = "inbox" /\ s.pc = "judge" /\ s.letter = l /\ s.left = about[l]
      /\ s.rfq = Min(about[l]) /\ s.todo = sync[p].todo
      /\ s.done = sync[p].done /\ s.batch = sync[p].batch
  BY <1>1, <1>5 DEF IsLocal, LocalFields, Judging
<1>7. Min(about[l]) \in about[l]
  BY <1>2, MinIs
<1>8. WorksAt(s, h)
  <2>1. \A c \in held[p] : Holds(sync[p], c)
    BY <1>1 DEF WorksAt
  <2>2. \A c \in h : Holds(s, c)
    BY <1>4, <1>6, <2>1 DEF Holds
  <2>3. RowIsThere(s, h)
    BY <1>4, <1>6 DEF RowIsThere, Of
  <2>4. Importing(s, h)
    BY <1>6, <1>7, <2>3 DEF Importing
  <2>. QED  BY <1>1, <1>6, <2>2, <2>4 DEF WorksAt
<1>9. Alone(p, s)
  <2>. SUFFICES ASSUME NEW q \in Syncs \ {p}, sync[q].via = "inbox", sync[q].letter = l PROVE FALSE
    BY <1>6 DEF Alone
  <2>1. WorksAt(sync[q], held[q])
    BY AtSync
  <2>2. RowIsThere(sync[q], held[q])
    BY <2>1 DEF WorksAt, Importing
  <2>3. PICK c \in Of(held[q], "row") : c.letter = l
    BY <2>2 DEF RowIsThere
  <2>4. c \in held[q] /\ c.what = "row"
    BY <2>3 DEF Of
  <2>5. c.rfq = Nothing /\ c.n \in {0, 1}
    BY <2>1, <2>4 DEF WorksAt, Holds
  <2>. QED  BY <2>3, <2>5 DEF HeldElsewhere, Held
<1>10. ASSUME NEW x \in Pairs PROVE Untaken(s, x)
  <2>1. x[1] = l => quotes[x] = 0 /\ replies[x] = 0
    BY DEF EmailInv, Given, Once
  <2>. QED  BY <1>6, <2>1 DEF Untaken
<1>11. Becomes(p, s) /\ held' = [held EXCEPT ![p] = h] /\ Untouched
  BY <1>3, <1>5 DEF Hold, Untouched, store
<1>. QED  BY <1>4, <1>6, <1>8, <1>9, <1>10, <1>11, OwnStep DEF Untouched

LEMMA InsertLetterSafe ==
  ASSUME EmailInv, NEW p \in Syncs, InsertLetter(p) \/ RowFreed(p)
  PROVE  EmailInv'
<1>1. UNCHANGED <<about, box, replies, marked>> /\ sync[p].pc \in {"letters", "row wait"}
  BY DEF InsertLetter, RowFreed, history, At
<1>2. sync[p].via = "none" /\ IsLocal(sync[p]) /\ WorksAt(sync[p], held[p])
  BY <1>1, AtLetters, AtSync
<1>3. CASE InsertLetter(p)
  <2>1. PICK l : l = NextOf(p)
    OBVIOUS
  <2>2. l \notin Stored /\ about[l] # {} /\ l \in DOMAIN about
    BY <1>3, <2>1, NextOfIs DEF InsertLetter
  <2>3. CASE HeldElsewhere(p, "row", l, Nothing, 0) \/ HeldElsewhere(p, "row", l, Nothing, 1)
    <3>1. PICK s : s = [sync[p] EXCEPT !.pc = "row wait", !.letter = l]
      OBVIOUS
    <3>2. Becomes(p, s) /\ held' = held /\ Untouched
      BY <1>1, <1>3, <2>1, <2>3, <3>1 DEF InsertLetter, Untouched, store
    <3>3. /\ IsLocal(s) /\ s.via = "none" /\ s.pc = "row wait" /\ s.letter = l /\ s.todo = sync[p].todo
          /\ s.done = sync[p].done /\ s.batch = sync[p].batch
      BY <1>2, <3>1 DEF IsLocal, LocalFields
    <3>. QED  BY <1>2, <2>2, <3>2, <3>3, OutsideStep DEF Between, WorksAt
  <2>4. CASE ~ (HeldElsewhere(p, "row", l, Nothing, 0) \/ HeldElsewhere(p, "row", l, Nothing, 1))
    <3>1. Becomes(p, Judging(p, l)) /\ Hold(p, Inserted(held[p], l))
      BY <1>3, <2>1, <2>4 DEF InsertLetter
    <3>. QED  BY <1>1, <1>2, <2>2, <2>4, <3>1, LetterTaken
  <2>. QED  BY <2>3, <2>4
<1>4. CASE RowFreed(p)
  <2>1. PICK l : l = sync[p].letter
    OBVIOUS
  <2>2. l \in DOMAIN about /\ about[l] # {}
    BY <1>2, <1>4, <2>1 DEF RowFreed, At, WorksAt, Between
  <2>3. CASE l \in Stored
    BY <1>1, <1>4, <2>1, <2>3, SkipSafe DEF RowFreed
  <2>4. CASE l \notin Stored
    BY <1>1, <1>2, <1>4, <2>1, <2>2, <2>4, LetterTaken DEF RowFreed
  <2>. QED  BY <2>3, <2>4
<1>. QED  BY <1>3, <1>4

\* At a request of a letter.
LEMMA AtLetter ==
  ASSUME EmailInv, NEW p \in Syncs, sync[p].via = "inbox"
  PROVE  /\ Importing(sync[p], held[p])
         /\ sync[p].letter \in Letters /\ sync[p].rfq \in Rfqs /\ Here(p) \in Pairs
         /\ about[sync[p].letter] \subseteq Rfqs /\ sync[p].left \subseteq Rfqs
<1>1. Importing(sync[p], held[p])
  BY AtSync DEF WorksAt
<1>2. DOMAIN about \subseteq Letters /\ \A l \in DOMAIN about : about[l] \subseteq Rfqs
  BY AboutIs DEF EmailInv, Shaped
<1>. QED  BY <1>1, <1>2 DEF Importing, Here, Pairs

LEMMA RecogniseSafe ==
  ASSUME EmailInv, NEW p \in Syncs, Recognise(p)
  PROVE  EmailInv'
<1>1. /\ sync[p].via = "inbox" /\ sync[p].pc = "judge" /\ sync' = sync /\ Untouched
      /\ held' = [held EXCEPT ![p] = held[p] \cup {Change("link", Nothing, sync[p].rfq, 0, "link")}]
  BY DEF Recognise, Hold, Untouched, store, history, At
<1>2. /\ IsLocal(sync[p]) /\ WorksAt(sync[p], held[p]) /\ Alone(p, sync[p])
      /\ held[p] \subseteq Changes /\ IsFiniteSet(held[p])
      /\ \A x \in Pairs : Fresh(x) => Untaken(sync[p], x)
  BY AtSync
<1>3. sync[p].rfq \in Rfqs /\ sync[p].rfq \in about[sync[p].letter] /\ Importing(sync[p], held[p])
  BY <1>1, AtLetter DEF Importing
<1>4. PICK c : c = Change("link", Nothing, sync[p].rfq, 0, "link")
  OBVIOUS
<1>5. c \in Changes /\ c.what = "link" /\ c.rfq = sync[p].rfq
  BY <1>3, <1>4 DEF Change, Changes, Whats, Words
<1>6. PICK h : h = held[p] \cup {c}
  OBVIOUS
<1>7. h \subseteq Changes /\ IsFiniteSet(h)
  BY <1>2, <1>5, <1>6, FS_AddElement
<1>8. WorksAt(sync[p], h)
  <2>1. Holds(sync[p], c)
    BY <1>1, <1>3, <1>5 DEF Holds
  <2>2. \A d \in h : Holds(sync[p], d)
    BY <1>2, <1>6, <2>1 DEF WorksAt
  <2>3. RowIsThere(sync[p], h)
    BY <1>3, <1>6 DEF Importing, RowIsThere, Of
  <2>4. Importing(sync[p], h)
    BY <1>1, <1>3, <2>3 DEF Importing
  <2>. QED  BY <1>1, <1>2, <2>2, <2>4 DEF WorksAt
<1>9. DOMAIN sync' = Syncs /\ DOMAIN held' = Syncs /\ sync'[p] = sync[p] /\ held'[p] = h
  BY <1>1, <1>4, <1>6 DEF EmailInv, Shaped
<1>10. Turns(p, sync[p], h)
  BY <1>1, <1>9 DEF Turns
<1>11. marked' \subseteq Stored /\ \A l \in Letters : box'[l] # "coming" => l \in DOMAIN about
  BY <1>1 DEF EmailInv, Filed, Shaped, Untouched
<1>. QED  BY <1>1, <1>2, <1>7, <1>8, <1>10, <1>11, QuietStep DEF Untouched

\* A sync stays at its letter.
LEMMA LetterGoesOn ==
  ASSUME EmailInv, NEW p \in Syncs, sync[p].via = "inbox",
         NEW s, IsLocal(s), Becomes(p, s), s.via = "inbox", s.letter = sync[p].letter,
         s.left \subseteq sync[p].left, s.todo = sync[p].todo,
         s.done = sync[p].done, s.batch = sync[p].batch, s.rfq \in about[s.letter],
         s.pc \in {"judge", "offers", "reply", "record", "settle"},
         s.pc \in {"judge", "offers", "reply"} => s.rfq \in s.left,
         s.pc = "offers" => Linked(s, held[p]),
         s.pc \in {"reply", "record"} => s.letter \in linked,
         \A x \in Pairs : Fresh(x) => Untaken(s, x),
         NEW h, h \subseteq Changes, IsFiniteSet(h), Alike(held[p], h),
         held' = [held EXCEPT ![p] = h], Untouched
  PROVE  EmailInv'
<1>1. /\ WorksAt(sync[p], held[p]) /\ Alone(p, sync[p]) /\ held[p] \subseteq Changes
  BY AtSync
<1>2. WorksAt(s, held[p])
  <2>1. \A c \in held[p] : Holds(s, c)
    BY <1>1 DEF WorksAt, Holds
  <2>2. Importing(sync[p], held[p])
    BY <1>1 DEF WorksAt
  <2>3. RowIsThere(s, held[p])
    BY <2>2 DEF Importing, RowIsThere
  <2>4. Importing(s, held[p])
    BY <2>2, <2>3 DEF Importing
  <2>. QED  BY <1>1, <2>1, <2>4 DEF WorksAt
<1>3. WorksAt(s, h)
  BY <1>1, <1>2, WorksAlike
<1>4. Alone(p, s)
  BY <1>1 DEF Alone
<1>. QED  BY <1>3, <1>4, OwnStep DEF Untouched

\* A request of the letter is done with; the next one is judged.
LEMMA PositionDone ==
  ASSUME EmailInv, NEW p \in Syncs, sync[p].via = "inbox", sync[p].pc \in {"judge", "offers"},
         Becomes(p, NextPosition(p)),
         NEW h, h \subseteq Changes, IsFiniteSet(h), Alike(held[p], h),
         held' = [held EXCEPT ![p] = h], Untouched
  PROVE  EmailInv'
<1>1. /\ IsLocal(sync[p]) /\ Importing(sync[p], held[p]) /\ sync[p].left \subseteq Nat
      /\ \A x \in Pairs : Fresh(x) => Untaken(sync[p], x)
  BY AtSync, AtLetter, InboxAssumption
<1>2. PICK left : left = sync[p].left \ {sync[p].rfq}
  OBVIOUS
<1>3. PICK s : s = NextPosition(p)
  OBVIOUS
<1>4. /\ IsLocal(s) /\ s.via = "inbox" /\ s.letter = sync[p].letter /\ s.left = left
      /\ s.todo = sync[p].todo /\ s.done = sync[p].done /\ s.batch = sync[p].batch
      /\ s.pc = IF left = {} THEN "settle" ELSE "judge"
      /\ s.rfq = IF left = {} THEN sync[p].rfq ELSE Min(left)
  BY <1>1, <1>2, <1>3 DEF NextPosition, IsLocal, LocalFields
<1>5. left # {} => Min(left) \in left
  BY <1>1, <1>2, MinIs
<1>6. s.rfq \in about[s.letter] /\ (s.pc # "settle" => s.rfq \in s.left)
  BY <1>1, <1>2, <1>4, <1>5 DEF Importing
<1>7. ASSUME NEW x \in Pairs, Fresh(x) PROVE Untaken(s, x)
  <2>1. Untaken(sync[p], x)
    BY <1>1, <1>7
  <2>. QED  BY <1>2, <1>4, <2>1 DEF Untaken
<1>. QED  BY <1>2, <1>3, <1>4, <1>6, <1>7, LetterGoesOn

LEMMA WithAuditIs ==
  ASSUME EmailInv, NEW p \in Syncs, sync[p].via = "inbox",
         NEW g, g \subseteq Changes, IsFiniteSet(g), NEW k \in {"other", "identity"}
  PROVE  /\ WithAudit(g, p, k) \subseteq Changes /\ IsFiniteSet(WithAudit(g, p, k))
         /\ Alike(g, WithAudit(g, p, k))
<1>1. PICK c : c = Change("audit", sync[p].letter, sync[p].rfq, 0, k)
  OBVIOUS
<1>2. c \in Changes /\ c.what = "audit"
  BY <1>1, AtLetter DEF Change, Changes, Whats, Words
<1>. QED  BY <1>1, <1>2, OneMore DEF WithAudit

LEMMA HandsSafe ==
  ASSUME EmailInv, NEW p \in Syncs, Hands(p)
  PROVE  EmailInv'
<1>1. PICK k \in {"other", "identity"} :
        Hold(p, WithAudit(Escalate(held[p], sync[p].letter, sync[p].rfq, k), p, k))
  BY DEF Hands
<1>2. /\ sync[p].via = "inbox" /\ sync[p].pc = "judge" /\ Becomes(p, NextPosition(p)) /\ Untouched
  BY <1>1 DEF Hands, Hold, Untouched, store, history, At
<1>3. PICK g : g = Escalate(held[p], sync[p].letter, sync[p].rfq, k)
  OBVIOUS
<1>4. g \subseteq Changes /\ IsFiniteSet(g) /\ Alike(held[p], g)
  <2>1. k \in Words
    BY DEF Words
  <2>. QED  BY <1>2, <1>3, <2>1, HeldIs, AtLetter, EscalateIs
<1>5. PICK h : h = WithAudit(g, p, k)
  OBVIOUS
<1>6. h \subseteq Changes /\ IsFiniteSet(h) /\ Alike(g, h)
  BY <1>2, <1>4, <1>5, WithAuditIs
<1>7. Alike(held[p], h)
  BY <1>4, <1>6 DEF Alike
<1>8. held' = [held EXCEPT ![p] = h]
  BY <1>1, <1>3, <1>5 DEF Hold
<1>. QED  BY <1>2, <1>6, <1>7, <1>8, PositionDone

LEMMA WaitsSafe ==
  ASSUME EmailInv, NEW p \in Syncs, Waits(p)
  PROVE  EmailInv'
<1>1. /\ sync[p].via = "inbox" /\ sync[p].pc = "judge" /\ Becomes(p, NextPosition(p)) /\ Untouched
  BY DEF Waits, Hold, Untouched, store, history, At
<1>2. PICK g : g = Put(held[p], sync[p].rfq, "collecting")
  OBVIOUS
<1>3. g \subseteq Changes /\ IsFiniteSet(g) /\ Alike(held[p], g)
  <2>1. "collecting" \in Words
    BY DEF Words
  <2>. QED  BY <1>1, <1>2, <2>1, HeldIs, AtLetter, PutIs
<1>4. PICK h : h = WithAudit(g, p, "other")
  OBVIOUS
<1>5. h \subseteq Changes /\ IsFiniteSet(h) /\ Alike(g, h)
  <2>1. PICK k \in {"other", "identity"} : k = "other"
    OBVIOUS
  <2>. QED  BY <1>1, <1>3, <1>4, <2>1, WithAuditIs
<1>6. Alike(held[p], h)
  BY <1>3, <1>5 DEF Alike
<1>7. held' = [held EXCEPT ![p] = h]
  BY <1>2, <1>4 DEF Waits, Hold
<1>. QED  BY <1>1, <1>5, <1>6, <1>7, PositionDone

\* Offers counted in a letter are offers of the letter.
LEMMA OfferCountsAre ==
  ASSUME NEW l \in Letters, NEW n \in OfferCounts(l)
  PROVE  n \in Nat /\ n <= OffersOf[l] /\ OffersOf[l] \in Nat
<1>1. OffersOf[l] \in Nat
  BY InboxAssumption
<1>. QED  BY <1>1 DEF OfferCounts

LEMMA ReadsSafe ==
  ASSUME EmailInv, NEW p \in Syncs, Reads(p)
  PROVE  EmailInv'
<1>1. /\ sync[p].via = "inbox" /\ sync[p].pc = "judge" /\ Untouched /\ Recognised(p)
      /\ held' = [held EXCEPT ![p] = WithAudit(held[p], p, "other")]
  BY DEF Reads, Hold, Untouched, store, history, At
<1>2. PICK n \in OfferCounts(sync[p].letter) : Becomes(p, [sync[p] EXCEPT !.pc = "offers", !.offers = n])
  BY DEF Reads
<1>3. n \in Nat /\ n <= OffersOf[sync[p].letter] /\ OffersOf[sync[p].letter] \in Nat
  BY <1>1, AtLetter, OfferCountsAre
<1>4. /\ IsLocal(sync[p]) /\ Importing(sync[p], held[p])
      /\ \A x \in Pairs : Fresh(x) => Untaken(sync[p], x)
  BY <1>1, AtSync, AtLetter
<1>5. PICK s : s = [sync[p] EXCEPT !.pc = "offers", !.offers = n]
  OBVIOUS
<1>6. /\ IsLocal(s) /\ s.via = "inbox" /\ s.letter = sync[p].letter /\ s.left = sync[p].left
      /\ s.todo = sync[p].todo /\ s.done = sync[p].done /\ s.batch = sync[p].batch
      /\ s.pc = "offers" /\ s.rfq = sync[p].rfq /\ s.offers = n
  BY <1>1, <1>3, <1>4, <1>5 DEF IsLocal, LocalFields
<1>7. Linked(s, held[p])
  BY <1>1, <1>6 DEF Linked, Recognised
<1>8. ASSUME NEW x \in Pairs, Fresh(x) PROVE Untaken(s, x)
  <2>1. Untaken(sync[p], x) /\ quotes[x] \in Nat
    BY <1>4, <1>8 DEF EmailInv, Shaped
  <2>. QED  BY <1>1, <1>3, <1>6, <2>1 DEF Untaken
<1>9. PICK h : h = WithAudit(held[p], p, "other")
  OBVIOUS
<1>10. h \subseteq Changes /\ IsFiniteSet(h) /\ Alike(held[p], h)
  <2>1. PICK k \in {"other", "identity"} : k = "other"
    OBVIOUS
  <2>. QED  BY <1>1, <1>9, <2>1, HeldIs, WithAuditIs
<1>11. s.rfq \in about[s.letter] /\ s.rfq \in s.left
  BY <1>1, <1>4, <1>6 DEF Importing
<1>12. Becomes(p, s) /\ held' = [held EXCEPT ![p] = h]
  BY <1>1, <1>2, <1>5, <1>9
<1>. QED  BY <1>1, <1>6, <1>7, <1>8, <1>10, <1>11, <1>12, LetterGoesOn

LEMMA NoReplySafe ==
  ASSUME EmailInv, NEW p \in Syncs, NoReply(p)
  PROVE  EmailInv'
<1>1. Untouched /\ Answering(p) /\ Answers(p, held[p])
  BY DEF NoReply, Untouched, store, history
<1>2. CASE sync[p].via = "resume"
  <2>1. /\ sync[p].pc # "resume" /\ Becomes(p, NextItem(p))
        /\ held' = [held EXCEPT ![p] = held[p] \cup {Result(p, "done")}]
    BY <1>1, <1>2 DEF Answering, Answers, At
  <2>. QED  BY <1>1, <1>2, <2>1, HeldIs, ItemEnds
<1>3. CASE sync[p].via # "resume"
  <2>1. sync[p].pc = "reply" /\ Goes(p, "settle") /\ held' = [held EXCEPT ![p] = held[p]]
    BY <1>1, <1>3 DEF Answering, Answers, At
  <2>2. IsLocal(sync[p]) /\ WorksAt(sync[p], held[p])
    BY AtSync
  <2>3. sync[p].via = "inbox"
    BY <1>3, <2>1, <2>2 DEF IsLocal, WorksAt, Between
  <2>4. PICK s : s = [sync[p] EXCEPT !.pc = "settle"]
    OBVIOUS
  <2>5. /\ IsLocal(s) /\ s.via = "inbox" /\ s.letter = sync[p].letter /\ s.left = sync[p].left
        /\ s.todo = sync[p].todo /\ s.done = sync[p].done /\ s.batch = sync[p].batch
        /\ s.pc = "settle" /\ s.rfq = sync[p].rfq
    BY <2>2, <2>3, <2>4 DEF IsLocal, LocalFields
  <2>6. s.rfq \in about[s.letter]
    BY <2>2, <2>3, <2>5 DEF WorksAt, Importing
  <2>7. ASSUME NEW x \in Pairs, Fresh(x) PROVE Untaken(s, x)
    <3>1. Untaken(sync[p], x)
      BY <2>7, AtSync
    <3>2. s.pc \notin {"judge", "offers", "reply"}
      BY <2>5
    <3>3. s.letter = x[1] /\ x[2] \in s.left /\ x[2] # s.rfq => quotes[x] = 0
      BY <2>3, <2>5, <3>1 DEF Untaken
    <3>. QED  BY <3>2, <3>3 DEF Untaken
  <2>8. Becomes(p, s) /\ Alike(held[p], held[p])
    BY <2>1, <2>4 DEF Goes, Alike
  <2>. QED  BY <1>1, <2>1, <2>3, <2>5, <2>6, <2>7, <2>8, HeldIs, LetterGoesOn
<1>. QED  BY <1>2, <1>3

-----------------------------------------------------------------------------
(* A session commits. *)

LEMMA AppendedIs ==
  ASSUME EmailInv, NEW h, h \subseteq Changes, IsFiniteSet(h), NEW x \in Pairs
  PROVE  /\ Appended(x, h) \in Seq(AuditRow) /\ Len(audits[x]) <= Len(Appended(x, h))
         /\ \A i \in 1 .. Len(audits[x]) : Appended(x, h)[i] = audits[x][i]
         /\ \A i \in DOMAIN Appended(x, h) :
              i \in 1 .. Len(audits[x]) \/ Appended(x, h)[i].resume = "none"
<1>. DEFINE new == {c \in Of(h, "audit") : <<c.letter, c.rfq>> = x}
            row(c) == Audit(c.n, c.s = "identity")
            S == {row(c) : c \in new}
            T == {a \in AuditRow : a.resume = "none"}
            f == [c \in new |-> row(c)]
            old == audits[x]
            all == old \o SetToSeq(S)
<1>1. IsFiniteSet(new)
  <2>1. new \in SUBSET h
    BY DEF Of
  <2>. QED  BY <2>1, FS_Subset
<1>2. IsFiniteSet(S)
  <2>1. f \in Surjection(new, S)
    BY DEF Surjection
  <2>. QED  BY <1>1, <2>1, FS_Surjection
<1>3. S \subseteq T
  <2>1. ASSUME NEW c \in new PROVE row(c) \in T
    <3>1. c \in Changes
      BY DEF Of
    <3>2. c.n \in Nat
      BY <3>1 DEF Changes
    <3>. QED  BY <3>2 DEF Audit, AuditRow, Resumes, Reasons
  <2>. QED  BY <2>1
<1>4. Appended(x, h) = all
  BY DEF Appended
<1>. HIDE DEF S, T
<1>5. SetToSeq(S) \in Seq(T)
  BY <1>2, <1>3, SetToSeqIs
<1>6. SetToSeq(S) \in Seq(AuditRow) /\ \A i \in 1 .. Len(SetToSeq(S)) : SetToSeq(S)[i].resume = "none"
  <2>1. T \subseteq AuditRow
    BY DEF T
  <2>2. \A i \in 1 .. Len(SetToSeq(S)) : SetToSeq(S)[i] \in T
    BY <1>5, ElementOfSeq
  <2>. QED  BY <1>5, <2>1, <2>2, SeqMonotonic DEF T
<1>7. PICK q : q = SetToSeq(S)
  OBVIOUS
<1>8. old \in Seq(AuditRow) /\ Len(old) \in Nat /\ Len(q) \in Nat /\ q \in Seq(AuditRow)
      /\ \A i \in 1 .. Len(q) : q[i].resume = "none"
  BY <1>6, <1>7, AuditsAre DEF EmailInv
<1>. HIDE DEF old, all
<1>9. /\ old \o q \in Seq(AuditRow) /\ Len(old \o q) = Len(old) + Len(q)
      /\ \A i \in 1 .. Len(old) + Len(q) : (old \o q)[i] = IF i <= Len(old) THEN old[i] ELSE q[i - Len(old)]
  BY <1>8, ConcatProperties
<1>10. all = old \o q
  BY <1>7 DEF all
<1>11. DOMAIN all = 1 .. Len(old) + Len(q)
  BY <1>9, <1>10, LenProperties
<1>12. \A i \in 1 .. Len(old) : all[i] = old[i]
  BY <1>8, <1>9, <1>10
<1>13. ASSUME NEW i \in DOMAIN all, i \notin 1 .. Len(old) PROVE all[i].resume = "none"
  <2>1. i - Len(old) \in 1 .. Len(q) /\ all[i] = q[i - Len(old)]
    BY <1>8, <1>9, <1>10, <1>11, <1>13
  <2>. QED  BY <1>8, <2>1
<1>. QED  BY <1>4, <1>8, <1>9, <1>10, <1>12, <1>13 DEF old

LEMMA AnsweredIs ==
  ASSUME EmailInv, NEW p \in Syncs, NEW h, h \subseteq Changes, IsFiniteSet(h), Alike(held[p], h),
         NEW x \in Pairs
  PROVE  LET entries == Answered(x, Appended(x, h), h) IN
         entries \in Seq(AuditRow) /\ Sound(x, entries) /\ Extend(audits[x], entries)
<1>1. PICK app : app = Appended(x, h)
  OBVIOUS
<1>2. /\ app \in Seq(AuditRow) /\ Len(audits[x]) <= Len(app)
      /\ \A i \in 1 .. Len(audits[x]) : app[i] = audits[x][i]
      /\ \A i \in DOMAIN app : i \in 1 .. Len(audits[x]) \/ app[i].resume = "none"
  BY <1>1, AppendedIs
<1>3. /\ Len(app) \in Nat /\ DOMAIN app = 1 .. Len(app) /\ \A i \in DOMAIN app : app[i] \in AuditRow
      /\ Len(audits[x]) \in Nat /\ DOMAIN audits[x] = 1 .. Len(audits[x])
  BY <1>2, AuditsAre, LenProperties, ElementOfSeq DEF EmailInv
<1>. DEFINE results(i) == {c \in Of(h, "resume") : <<c.letter, c.rfq>> = x /\ c.n = i}
<1>4. PICK entries : entries = [i \in DOMAIN app |->
         IF results(i) = {} THEN app[i] ELSE [app[i] EXCEPT !.resume = (CHOOSE c \in results(i) : TRUE).s]]
  OBVIOUS
<1>5. entries = Answered(x, Appended(x, h), h)
  BY <1>1, <1>4 DEF Answered
<1>6. ASSUME NEW i \in DOMAIN app, NEW c \in results(i)
      PROVE  c.s \in Resumes /\ x[1] \in linked /\ i \in 1 .. Len(audits[x]) /\ audits[x][i].why # "none"
  <2>1. c \in h /\ c.what = "resume" /\ <<c.letter, c.rfq>> = x /\ c.n = i
    BY DEF Of
  <2>2. c \in held[p]
    BY <2>1 DEF Alike
  <2>3. Holds(sync[p], c)
    BY <2>2, HeldIs
  <2>4. PutUp(c.letter, c.rfq, c.n) /\ c.s \in Resumes
    BY <2>1, <2>3 DEF Holds
  <2>. QED  BY <1>3, <2>1, <2>4 DEF PutUp
<1>7. ASSUME NEW i \in DOMAIN app
      PROVE  /\ entries[i] \in AuditRow /\ entries[i].why = app[i].why
             /\ entries[i].resume # "none" => \/ app[i].resume # "none"
                                           \/ /\ i \in 1 .. Len(audits[x]) /\ audits[x][i].why # "none"
                                              /\ x[1] \in linked
  <2>1. CASE results(i) = {}
    BY <1>3, <1>4, <2>1
  <2>2. CASE results(i) # {}
    <3>1. PICK c \in results(i) : entries[i] = [app[i] EXCEPT !.resume = c.s]
      BY <1>4, <2>2
    <3>2. /\ c.s \in Resumes /\ x[1] \in linked /\ i \in 1 .. Len(audits[x]) /\ audits[x][i].why # "none"
      BY <1>6
    <3>3. app[i] \in AuditRow
      BY <1>3
    <3>. HIDE DEF results
    <3>4. entries[i] \in AuditRow /\ entries[i].why = app[i].why
      BY <3>1, <3>2, <3>3 DEF AuditRow
    <3>. QED  BY <3>2, <3>4
  <2>. QED  BY <2>1, <2>2
<1>8. DOMAIN entries = DOMAIN app
  BY <1>4
<1>9. entries \in Seq(AuditRow) /\ Len(entries) = Len(app)
  <2>1. entries \in [1 .. Len(app) -> AuditRow]
    BY <1>3, <1>4, <1>7
  <2>2. entries \in Seq(AuditRow)
    BY <1>3, <2>1, SeqDef
  <2>3. Len(entries) \in Nat /\ DOMAIN entries = 1 .. Len(entries)
    BY <2>2, LenProperties
  <2>. QED  BY <1>3, <1>8, <2>2, <2>3
<1>10. Explained(audits[x]) /\ (Asked(audits[x]) => x[1] \in linked)
  BY DEF EmailInv, Reasoned, Sound
<1>11. ASSUME NEW i \in DOMAIN entries, entries[i].resume # "none"
       PROVE  entries[i].why # "none" /\ x[1] \in linked
  <2>1. i \in DOMAIN app /\ entries[i].why = app[i].why
    BY <1>7, <1>8
  <2>2. CASE app[i].resume # "none"
    <3>1. i \in DOMAIN audits[x] /\ app[i] = audits[x][i]
      BY <1>2, <1>3, <2>1, <2>2
    <3>. QED  BY <1>10, <2>1, <2>2, <3>1 DEF Explained, Asked
  <2>3. CASE app[i].resume = "none"
    <3>1. i \in 1 .. Len(audits[x]) /\ audits[x][i].why # "none" /\ x[1] \in linked
      BY <1>7, <1>11, <2>1, <2>3
    <3>. QED  BY <1>2, <2>1, <3>1
  <2>. QED  BY <2>2, <2>3
<1>12. Sound(x, entries)
  BY <1>11 DEF Sound, Explained, Asked
<1>13. Extend(audits[x], entries)
  <2>1. \A i \in 1 .. Len(audits[x]) : i \in DOMAIN app
    BY <1>2, <1>3
  <2>2. \A i \in 1 .. Len(audits[x]) : audits[x][i].why # "none" => entries[i].why # "none"
    BY <1>2, <1>7, <2>1
  <2>. QED  BY <1>2, <1>9, <2>2 DEF Extend
<1>. QED  BY <1>5, <1>9, <1>12, <1>13

LEMMA ExtendOn ==
  ASSUME NEW a \in Seq(AuditRow), NEW b \in Seq(AuditRow), NEW c \in Seq(AuditRow), Extend(a, b), Extend(b, c)
  PROVE  Extend(a, c)
<1>1. Len(a) \in Nat /\ Len(b) \in Nat /\ Len(c) \in Nat
  BY LenProperties
<1>. QED  BY <1>1 DEF Extend

\* A request for resumption of a linked letter leaves the trail sound.
LEMMA AskedSound ==
  ASSUME NEW x \in Pairs, NEW entries \in Seq(AuditRow), Explained(entries), NEW i \in DOMAIN entries,
         NEW reason \in Reasons \ {"none"}, NEW old \in Seq(AuditRow), Extend(old, entries)
  PROVE  LET got == RequestResume(entries, x[1], x[2], i, reason) IN
         got \in Seq(AuditRow) /\ Explained(got) /\ Extend(old, got)
<1>1. PICK got : got = RequestResume(entries, x[1], x[2], i, reason)
  OBVIOUS
<1>2. got \in Seq(AuditRow) /\ Explained(got) /\ Extend(entries, got)
  BY <1>1, RequestResumeIs
<1>. QED  BY <1>1, <1>2, ExtendOn

LEMMA CommitsIs ==
  ASSUME EmailInv, NEW p \in Syncs, NEW h, h \subseteq Changes, IsFiniteSet(h), Alike(held[p], h),
         NEW ms \in Seq(MailRow), \A i \in DOMAIN ms : ms[i].way = "out", NEW auto,
         Commits(h, ms, auto), about' = about
  PROVE  /\ mails' \in Seq(MailRow) /\ Stored \subseteq Stored' /\ Stored' \subseteq DOMAIN about
         /\ linked \subseteq linked' /\ linked' \subseteq Stored'
         /\ audits' \in [Pairs -> Seq(AuditRow)] /\ Reasoned'
         /\ \A x \in Pairs : Extend(audits[x], audits'[x])
         /\ sync[p].via = "inbox" =>
              /\ sync[p].letter \in Stored'
              /\ Linked(sync[p], held[p]) => sync[p].letter \in linked'
<1>. DEFINE entries == Of(h, "row")
            links == {c.rfq : c \in Of(h, "link")}
            letters == {c.letter : c \in entries}
            here == {l \in StoredIn(mails) \cup letters : about[l] \cap links # {}}
            newly == here \ linked
            row(i) == Incoming((CHOOSE c \in entries : TRUE).letter)
            added == [i \in 1 .. Cardinality(entries) |-> row(i)]
            ones == {l \in Letters : \E c \in entries : c.letter = l /\ c.n = 1}
<1>1. /\ mails \in Seq(MailRow) /\ Stored = StoredIn(mails) /\ Stored \subseteq DOMAIN about
      /\ DOMAIN about \subseteq Letters /\ linked \subseteq Stored
  BY AboutIs DEF EmailInv, Shaped, Filed, Stored
<1>2. \A c \in held[p] : Holds(sync[p], c)
  BY HeldIs
<1>3. \A c \in h : c \in Changes /\ (c.what \in {"row", "link", "resume"} => c \in held[p])
  BY DEF Alike
<1>4. \A c \in held[p] : c.what \in {"row", "link", "resume"} => c \in h
  BY HeldIs DEF Alike
<1>5. \A c \in entries : sync[p].via = "inbox" /\ c.letter = sync[p].letter
  BY <1>2, <1>3 DEF Of, Holds
<1>6. entries # {} => sync[p].via = "inbox" /\ sync[p].letter \in DOMAIN about
  BY <1>5, AtLetter DEF Importing
<1>7. Cardinality(entries) \in Nat /\ (Cardinality(entries) = 0 <=> entries = {})
  <2>1. entries \in SUBSET h
    BY DEF Of
  <2>2. IsFiniteSet(entries)
    BY <2>1, FS_Subset
  <2>. QED  BY <2>2, FS_CardinalityType, FS_EmptySet
<1>8. letters \subseteq {sync[p].letter} /\ (entries # {} <=> letters # {}) /\ letters \subseteq DOMAIN about
  BY <1>5, <1>6
<1>9. added \in Seq(MailRow) /\ StoredIn(added) = letters
  <2>1. ASSUME NEW i \in 1 .. Cardinality(entries)
        PROVE  /\ row(i) \in MailRow /\ row(i).way = "in" /\ row(i).letter = sync[p].letter
               /\ entries # {}
    <3>1. entries # {}
      BY <1>7
    <3>2. (CHOOSE c \in entries : TRUE) \in entries
      BY <3>1
    <3>3. (CHOOSE c \in entries : TRUE).letter = sync[p].letter /\ sync[p].letter \in Letters
      BY <1>1, <1>5, <1>6, <3>1, <3>2
    <3>. QED  BY <3>1, <3>3 DEF Incoming, MailRow
  <2>2. added \in [1 .. Cardinality(entries) -> MailRow]
    BY <2>1
  <2>3. added \in Seq(MailRow)
    BY <1>7, <2>2, SeqDef
  <2>4. DOMAIN added = 1 .. Cardinality(entries) /\ \A i \in DOMAIN added : added[i] = row(i)
    OBVIOUS
  <2>5. StoredIn(added) \subseteq letters
    <3>1. ASSUME NEW l \in StoredIn(added) PROVE l \in letters
      <4>1. PICK i \in DOMAIN added : added[i].letter = l
        BY DEF StoredIn
      <4>2. l = sync[p].letter /\ entries # {}
        BY <2>1, <2>4, <4>1
      <4>. QED  BY <1>8, <4>2
    <3>. QED  BY <3>1
  <2>6. letters \subseteq StoredIn(added)
    <3>1. ASSUME NEW l \in letters PROVE l \in StoredIn(added)
      <4>1. entries # {} /\ l = sync[p].letter
        BY <1>8
      <4>2. 1 \in 1 .. Cardinality(entries)
        BY <1>7, <4>1
      <4>3. added[1].way = "in" /\ added[1].letter = l
        BY <2>1, <2>4, <4>1, <4>2
      <4>. HIDE DEF added
      <4>. QED  BY <2>4, <4>2, <4>3 DEF StoredIn
    <3>. QED  BY <3>1
  <2>. QED  BY <2>3, <2>5, <2>6
<1>. HIDE DEF added, letters
<1>10. mails' = mails \o added \o ms
  BY DEF Commits, added
<1>11. StoredIn(ms) = {}
  BY DEF StoredIn
<1>12. mails' \in Seq(MailRow) /\ Stored' = Stored \cup letters
  <2>1. PICK m : m = mails \o added
    OBVIOUS
  <2>2. m \in Seq(MailRow) /\ StoredIn(m) = Stored \cup letters
    BY <1>1, <1>9, <2>1, StoredOfRows
  <2>3. m \o ms \in Seq(MailRow) /\ StoredIn(m \o ms) = StoredIn(m) \cup StoredIn(ms)
    BY <2>2, StoredOfRows
  <2>4. mails' = m \o ms
    BY <1>10, <2>1
  <2>. QED  BY <1>11, <2>2, <2>3, <2>4 DEF Stored
<1>13. linked' = linked \cup here \cup ones
  BY DEF Commits, letters
<1>14. ones \subseteq letters /\ here \subseteq Stored \cup letters
  BY <1>1 DEF letters
<1>15. linked \subseteq linked' /\ linked' \subseteq Stored'
  BY <1>1, <1>12, <1>13, <1>14
<1>16. Stored \subseteq Stored' /\ Stored' \subseteq DOMAIN about
  BY <1>1, <1>8, <1>12
<1>17. ASSUME sync[p].via = "inbox" PROVE sync[p].letter \in Stored'
  <2>1. RowIsThere(sync[p], held[p])
    BY <1>17, AtLetter DEF Importing
  <2>2. CASE sync[p].letter \in Stored
    BY <1>16, <2>2
  <2>3. CASE \E c \in Of(held[p], "row") : c.letter = sync[p].letter
    <3>1. PICK c \in held[p] : c.what = "row" /\ c.letter = sync[p].letter
      BY <2>3 DEF Of
    <3>2. c \in entries
      BY <1>4, <3>1 DEF Of
    <3>3. sync[p].letter \in letters
      BY <3>1, <3>2 DEF letters
    <3>. QED  BY <1>12, <3>3
  <2>. QED  BY <2>1, <2>2, <2>3 DEF RowIsThere
<1>18. ASSUME sync[p].via = "inbox", Linked(sync[p], held[p]) PROVE sync[p].letter \in linked'
  <2>1. CASE \E c \in Of(held[p], "row") : c.letter = sync[p].letter /\ c.n = 1
    <3>1. PICK c \in held[p] : c.what = "row" /\ c.letter = sync[p].letter /\ c.n = 1
      BY <2>1 DEF Of
    <3>2. c \in entries
      BY <1>4, <3>1 DEF Of
    <3>3. sync[p].letter \in Letters
      BY <1>18, AtLetter
    <3>. QED  BY <1>13, <3>1, <3>2, <3>3
  <2>2. CASE Of(held[p], "link") # {}
    <3>1. PICK c \in held[p] : c.what = "link"
      BY <2>2 DEF Of
    <3>2. c \in Of(h, "link") /\ c.rfq \in about[sync[p].letter]
      BY <1>2, <1>4, <3>1 DEF Of, Holds
    <3>3. about[sync[p].letter] \cap links # {}
      BY <3>2
    <3>4. sync[p].letter \in StoredIn(mails) \cup letters
      BY <1>1, <1>12, <1>17, <1>18
    <3>. QED  BY <1>13, <3>3, <3>4
  <2>3. CASE sync[p].letter \in linked
    BY <1>15, <2>3
  <2>. QED  BY <1>18, <2>1, <2>2, <2>3 DEF Linked
<1>19. newly \subseteq linked'
  BY <1>13
<1>. DEFINE ans(x) == Answered(x, Appended(x, h), h)
            as == [x \in Pairs |-> ans(x)]
<1>20. audits' = [x \in Pairs |-> IF x[2] \in links THEN ResumeLinked(newly, as)[x] ELSE as[x]]
  BY DEF Commits, letters
<1>21. ASSUME NEW x \in Pairs
       PROVE  /\ audits'[x] \in Seq(AuditRow) /\ Extend(audits[x], audits'[x])
              /\ Explained(audits'[x]) /\ (Asked(audits'[x]) => x[1] \in linked')
  <2>1. PICK a : a = ans(x)
    OBVIOUS
  <2>2. a \in Seq(AuditRow) /\ Sound(x, a) /\ Extend(audits[x], a)
    BY <2>1, AnsweredIs
  <2>3. as[x] = a
    BY <2>1
  <2>. HIDE DEF as, ans, newly, links
  <2>4. \/ audits'[x] = a
        \/ /\ x[1] \in newly /\ a # <<>>
           /\ audits'[x] = RequestResume(a, x[1], x[2], Len(a), "sender_identity_linked")
    BY <1>20, <2>3 DEF ResumeLinked
  <2>5. CASE audits'[x] = a
    BY <1>15, <2>2, <2>5 DEF Sound
  <2>6. CASE /\ x[1] \in newly /\ a # <<>>
             /\ audits'[x] = RequestResume(a, x[1], x[2], Len(a), "sender_identity_linked")
    <3>1. PICK n, reason : n = Len(a) /\ reason = "sender_identity_linked"
      OBVIOUS
    <3>2. n \in DOMAIN a /\ reason \in Reasons \ {"none"}
      BY <2>2, <2>6, <3>1, LenProperties, EmptySeq DEF Reasons
    <3>3. audits[x] \in Seq(AuditRow) /\ Explained(a)
      BY <2>2, AuditsAre DEF EmailInv, Sound
    <3>4. audits'[x] = RequestResume(a, x[1], x[2], n, reason)
      BY <2>6, <3>1
    <3>5. /\ audits'[x] \in Seq(AuditRow) /\ Explained(audits'[x]) /\ Extend(audits[x], audits'[x])
      BY <2>2, <3>2, <3>3, <3>4, AskedSound
    <3>. QED  BY <1>19, <2>6, <3>5
  <2>. QED  BY <2>4, <2>5, <2>6
<1>. HIDE DEF as, newly, links
<1>22. audits' \in [Pairs -> Seq(AuditRow)]
  BY <1>20, <1>21
<1>23. Reasoned'
  BY <1>21 DEF Reasoned, Sound
<1>. QED  BY <1>12, <1>15, <1>16, <1>17, <1>18, <1>21, <1>22, <1>23

\* A commit leaves the tables in order and grown.
LEMMA CommitGrows ==
  ASSUME EmailInv, NEW p \in Syncs, NEW g, g \subseteq Changes, IsFiniteSet(g), Alike(held[p], g),
         NEW ms \in Seq(MailRow), \A i \in DOMAIN ms : ms[i].way = "out", NEW auto,
         Commits(g, ms, auto), NEW s, IsLocal(s), NEW h, h \subseteq Changes, IsFiniteSet(h),
         Turns(p, s, h), UNCHANGED <<about, box, marked>>, quotes' \in [Pairs -> Nat], replies' = replies
  PROVE  /\ Shaped' /\ Filed' /\ Reasoned' /\ Grown
         /\ sync[p].via = "inbox" =>
              /\ sync[p].letter \in Stored'
              /\ Linked(sync[p], held[p]) => sync[p].letter \in linked'
<1>1. /\ mails' \in Seq(MailRow) /\ Stored \subseteq Stored' /\ Stored' \subseteq DOMAIN about
      /\ linked \subseteq linked' /\ linked' \subseteq Stored'
      /\ audits' \in [Pairs -> Seq(AuditRow)] /\ Reasoned'
      /\ \A x \in Pairs : Extend(audits[x], audits'[x])
      /\ sync[p].via = "inbox" =>
           /\ sync[p].letter \in Stored'
           /\ Linked(sync[p], held[p]) => sync[p].letter \in linked'
  BY CommitsIs
<1>2. Shaped'
  BY <1>1 DEF EmailInv, Shaped, Turns, IsLocal
<1>3. Filed'
  BY <1>1 DEF EmailInv, Filed, OnlyLinkedAnswered
<1>. QED  BY <1>1, <1>2, <1>3 DEF Grown

LEMMA CommitStep ==
  ASSUME EmailInv, NEW p \in Syncs, NEW g, g \subseteq Changes, IsFiniteSet(g), Alike(held[p], g),
         NEW ms \in Seq(MailRow), \A i \in DOMAIN ms : ms[i].way = "out", NEW auto,
         Commits(g, ms, auto), NEW s, IsLocal(s), NEW h, h \subseteq Changes, IsFiniteSet(h),
         Becomes(p, s), held' = [held EXCEPT ![p] = h],
         UNCHANGED <<about, box, quotes, replies, marked>>,
         WorksAt(s, h), s.via # "inbox"
  PROVE  EmailInv'
<1>1. Turns(p, s, h)
  BY MovesIs DEF EmailInv
<1>2. quotes' \in [Pairs -> Nat]
  BY DEF EmailInv, Shaped
<1>3. Shaped' /\ Filed' /\ Reasoned' /\ Grown
  BY <1>1, <1>2, CommitGrows
<1>4. WorksAt(s, h)'
  BY <1>3, WorksOn DEF EmailInv
<1>5. Alone(p, s) /\ \A x \in Pairs : Untaken(s, x)
  BY DEF Alone, Untaken
<1>. QED  BY <1>1, <1>3, <1>4, <1>5, StepOf

\* With the row of its letter committed, a sync relies on the tables alone.
LEMMA WorksCommitted ==
  ASSUME EmailInv, NEW p \in Syncs, sync[p].via = "inbox", Shaped', Grown, sync[p].letter \in Stored',
         NEW s, s.via = "inbox", s.letter = sync[p].letter, s.left \subseteq sync[p].left,
         s.todo = sync[p].todo, s.done = sync[p].done, s.batch = sync[p].batch,
         s.rfq \in about[s.letter], s.pc \in {"judge", "offers", "reply", "record", "settle"},
         s.pc \in {"judge", "offers", "reply"} => s.rfq \in s.left,
         s.pc \in {"offers", "reply", "record"} => s.letter \in linked'
  PROVE  WorksAt(s, {})'
<1>1. PICK t, g : t = sync[p] /\ g = held[p]
  OBVIOUS
<1>2. WorksAt(t, g) /\ Importing(t, g)
  BY <1>1, AtSync, AtLetter
<1>3. WorksAt(t, g)'
  BY <1>2, WorksOn DEF EmailInv
<1>4. about' = about
  BY DEF Grown
<1>5. s.left \subseteq about[s.letter] /\ s.letter \in DOMAIN about
  BY <1>1, <1>2 DEF Importing
<1>6. RowIsThere(s, {})' /\ (s.letter \in linked' => Linked(s, {})')
  BY DEF RowIsThere, Linked
<1>7. Importing(s, {})'
  BY <1>4, <1>5, <1>6 DEF Importing
<1>. QED  BY <1>1, <1>3, <1>7 DEF WorksAt

\* A step that commits in the middle of a letter.
LEMMA LetterCommitted ==
  ASSUME EmailInv, NEW p \in Syncs, sync[p].via = "inbox",
         NEW g, g \subseteq Changes, IsFiniteSet(g), Alike(held[p], g),
         NEW ms \in Seq(MailRow), \A i \in DOMAIN ms : ms[i].way = "out", NEW auto, Commits(g, ms, auto),
         NEW s, IsLocal(s), s.via = "inbox", s.letter = sync[p].letter, s.left = sync[p].left,
         s.todo = sync[p].todo, s.done = sync[p].done, s.batch = sync[p].batch,
         s.rfq \in about[s.letter], s.pc \in {"judge", "offers", "reply", "record", "settle"},
         s.pc \in {"judge", "offers", "reply"} => s.rfq \in s.left,
         s.pc \in {"offers", "reply", "record"} => Linked(sync[p], held[p]),
         \A x \in Pairs : Fresh(x) => Untaken(s, x),
         Becomes(p, s), held' = [held EXCEPT ![p] = {}],
         UNCHANGED <<about, box, quotes, replies, marked>>
  PROVE  EmailInv'
<1>1. PICK h : h = {}
  OBVIOUS
<1>2. h \subseteq Changes /\ IsFiniteSet(h)
  BY <1>1, FS_EmptySet
<1>3. Turns(p, s, h)
  BY <1>1, MovesIs DEF EmailInv
<1>4. quotes' \in [Pairs -> Nat]
  BY DEF EmailInv, Shaped
<1>5. /\ Shaped' /\ Filed' /\ Reasoned' /\ Grown /\ sync[p].letter \in Stored'
      /\ Linked(sync[p], held[p]) => sync[p].letter \in linked'
  BY <1>2, <1>3, <1>4, CommitGrows
<1>6. WorksAt(s, {})'
  BY <1>5, WorksCommitted
<1>7. WorksAt(s, h)'
  BY <1>1, <1>6
<1>8. Alone(p, s)
  BY AtSync DEF Alone
<1>. QED  BY <1>3, <1>5, <1>7, <1>8, StepOf

LEMMA NoRows ==
  <<>> \in Seq(MailRow) /\ \A i \in DOMAIN <<>> : <<>>[i].way = "out"
<1>1. <<>> \in Seq(MailRow) /\ Len(<<>>) = 0
  BY EmptySeq
<1>2. DOMAIN <<>> = {}
  BY <1>1, LenProperties
<1>. QED  BY <1>1, <1>2

LEMMA GroupCommitSafe ==
  ASSUME EmailInv, NEW p \in Syncs, GroupCommit(p)
  PROVE  EmailInv'
<1>1. PICK s : s = [sync[p] EXCEPT !.pc = "groups", !.via = "none", !.rfq = Nothing, !.last = Nothing]
  OBVIOUS
<1>2. /\ Commits(held[p], <<>>, {}) /\ held' = [held EXCEPT ![p] = {}] /\ Becomes(p, s)
      /\ UNCHANGED <<about, box, quotes, replies, marked>>
  BY <1>1 DEF GroupCommit, Commit, history
<1>3. IsLocal(sync[p]) /\ WorksAt(sync[p], held[p])
  BY AtSync
<1>4. /\ IsLocal(s) /\ s.pc = "groups" /\ s.via = "none" /\ s.todo = sync[p].todo
      /\ s.done = sync[p].done /\ s.batch = sync[p].batch
  BY <1>1, <1>3 DEF IsLocal, LocalFields
<1>5. PICK h, ms, auto : h = {} /\ ms = <<>> /\ auto = {}
  OBVIOUS
<1>6. WorksAt(s, h)
  BY <1>3, <1>4, <1>5 DEF WorksAt, Between
<1>7. h \subseteq Changes /\ IsFiniteSet(h) /\ ms \in Seq(MailRow) /\ \A i \in DOMAIN ms : ms[i].way = "out"
  BY <1>5, NoRows, FS_EmptySet
<1>8. PICK g : g = held[p]
  OBVIOUS
<1>9. g \subseteq Changes /\ IsFiniteSet(g) /\ Alike(held[p], g) /\ Commits(g, ms, auto)
  BY <1>2, <1>5, <1>8, HeldIs DEF Alike
<1>. QED  BY <1>2, <1>4, <1>5, <1>6, <1>7, <1>9, CommitStep

LEMMA SettleSafe ==
  ASSUME EmailInv, NEW p \in Syncs, Settle(p)
  PROVE  EmailInv'
<1>1. PICK s, l : s = Processed(p, sync[p].letter) /\ l = sync[p].letter
  OBVIOUS
<1>2. /\ Commits(held[p], <<>>, {}) /\ held' = [held EXCEPT ![p] = {}] /\ Becomes(p, s)
      /\ UNCHANGED <<about, box, quotes, replies, marked>> /\ sync[p].pc = "settle"
  BY <1>1 DEF Settle, Commit, history, At
<1>3. IsLocal(sync[p]) /\ WorksAt(sync[p], held[p])
  BY AtSync
<1>4. sync[p].via = "inbox"
  BY <1>2, <1>3 DEF IsLocal, WorksAt, Between, Resuming
<1>5. /\ IsLocal(s) /\ s.via = "none" /\ s.pc = "letters" /\ s.todo = sync[p].todo
      /\ s.done = sync[p].done \cup {l} /\ s.batch \subseteq sync[p].batch
  BY <1>1, ProcessedIs
<1>6. PICK h, ms, auto : h = {} /\ ms = <<>> /\ auto = {}
  OBVIOUS
<1>7. h \subseteq Changes /\ IsFiniteSet(h) /\ ms \in Seq(MailRow) /\ \A i \in DOMAIN ms : ms[i].way = "out"
  BY <1>6, NoRows, FS_EmptySet
<1>8. PICK g, t : g = held[p] /\ t = sync[p]
  OBVIOUS
<1>9. g \subseteq Changes /\ IsFiniteSet(g) /\ Alike(held[p], g) /\ Commits(g, ms, auto)
  BY <1>2, <1>6, <1>8, HeldIs DEF Alike
<1>10. Turns(p, s, h)
  BY <1>2, <1>6, MovesIs DEF EmailInv
<1>11. quotes' \in [Pairs -> Nat]
  BY <1>2 DEF EmailInv, Shaped
<1>12. Shaped' /\ Filed' /\ Reasoned' /\ Grown /\ l \in Stored'
  BY <1>1, <1>2, <1>4, <1>5, <1>7, <1>9, <1>10, <1>11, CommitGrows
<1>13. WorksAt(t, g)'
  BY <1>3, <1>8, <1>12, WorksOn DEF EmailInv
<1>14. WorksAt(s, h)'
  BY <1>5, <1>6, <1>8, <1>12, <1>13 DEF WorksAt, Between
<1>15. Alone(p, s) /\ \A x \in Pairs : Untaken(s, x)
  BY <1>5 DEF Alone, Untaken
<1>. QED  BY <1>2, <1>10, <1>12, <1>14, <1>15, StepOf

LEMMA RowsAre ==
  ASSUME EmailInv, NEW p \in Syncs, sync[p].letter \in Letters, sync[p].rfq \in Rfqs,
         NEW k \in {"draft", "sent"}
  PROVE  Row(p, k) \in Seq(MailRow) /\ \A i \in DOMAIN Row(p, k) : Row(p, k)[i].way = "out"
<1>1. PICK row : row = Answer(sync[p].letter, sync[p].rfq, k)
  OBVIOUS
<1>2. row \in MailRow /\ row.way = "out"
  BY <1>1 DEF Answer, MailRow
<1>3. Row(p, k) = <<row>>
  BY <1>1 DEF Row
<1>. QED  BY <1>2, <1>3

\* The request of a letter is parsed: the next one is judged, or the answer is due.
LEMMA ParsedSafe ==
  ASSUME EmailInv, NEW p \in Syncs, Parsed(p)
  PROVE  EmailInv'
<1>1. /\ sync[p].via = "inbox" /\ sync[p].pc = "offers"
      /\ UNCHANGED <<about, box, replies, marked>> /\ quotes' = quotes
  BY DEF Parsed, history, At
<1>2. PICK g : g = Put(held[p], sync[p].rfq, "parsed")
  OBVIOUS
<1>3. g \subseteq Changes /\ IsFiniteSet(g) /\ Alike(held[p], g)
  <2>1. "parsed" \in Words
    BY DEF Words
  <2>. QED  BY <1>1, <1>2, <2>1, HeldIs, AtLetter, PutIs
<1>4. CASE Cardinality(about[sync[p].letter]) > 1
  <2>1. Becomes(p, NextPosition(p)) /\ held' = [held EXCEPT ![p] = g] /\ Untouched
    BY <1>1, <1>2, <1>4 DEF Parsed, Hold, Untouched, store
  <2>. QED  BY <1>1, <1>3, <2>1, PositionDone
<1>5. CASE ~ Cardinality(about[sync[p].letter]) > 1
  <2>1. PICK ms, auto : ms = <<>> /\ auto = {}
    OBVIOUS
  <2>2. PICK s : s = [sync[p] EXCEPT !.pc = "reply"]
    OBVIOUS
  <2>3. Commits(g, ms, auto) /\ held' = [held EXCEPT ![p] = {}] /\ Becomes(p, s)
    BY <1>2, <1>5, <2>1, <2>2 DEF Parsed, Goes
  <2>4. IsLocal(sync[p]) /\ Importing(sync[p], held[p]) /\ \A x \in Pairs : Fresh(x) => Untaken(sync[p], x)
    BY <1>1, AtSync, AtLetter
  <2>5. /\ IsLocal(s) /\ s.via = "inbox" /\ s.pc = "reply" /\ s.letter = sync[p].letter
        /\ s.left = sync[p].left /\ s.todo = sync[p].todo /\ s.done = sync[p].done
        /\ s.batch = sync[p].batch /\ s.rfq = sync[p].rfq
    BY <1>1, <2>2, <2>4 DEF IsLocal, LocalFields
  <2>6. s.rfq \in about[s.letter] /\ s.rfq \in s.left /\ Linked(sync[p], held[p])
    BY <1>1, <2>4, <2>5 DEF Importing
  <2>7. ASSUME NEW x \in Pairs, Fresh(x) PROVE Untaken(s, x)
    <3>1. Untaken(sync[p], x)
      BY <2>4, <2>7
    <3>. QED  BY <1>1, <2>5, <3>1 DEF Untaken
  <2>8. ms \in Seq(MailRow) /\ \A i \in DOMAIN ms : ms[i].way = "out"
    BY <2>1, NoRows
  <2>. QED  BY <1>1, <1>3, <2>3, <2>5, <2>6, <2>7, <2>8, LetterCommitted
<1>. QED  BY <1>4, <1>5

\* An answer is written: the item of a dialogue has its result, the letter is settled.
LEMMA AnswerWritten ==
  ASSUME EmailInv, NEW p \in Syncs, Answering(p) \/ sync[p].pc = "record",
         NEW k \in {"draft", "sent"}, Commits(held[p], Row(p, k), {}), Answers(p, {}),
         UNCHANGED <<about, box, quotes, replies, marked>>
  PROVE  EmailInv'
<1>1. IsLocal(sync[p]) /\ WorksAt(sync[p], held[p])
  BY AtSync
<1>2. PICK g, auto : g = held[p] /\ auto = {}
  OBVIOUS
<1>3. g \subseteq Changes /\ IsFiniteSet(g) /\ Alike(held[p], g)
  BY <1>2, HeldIs DEF Alike
<1>4. CASE sync[p].via = "resume"
  <2>1. sync[p].pc # "resume"
    BY <1>4 DEF Answering, At
  <2>2. /\ PutUp(sync[p].letter, sync[p].rfq, sync[p].audit)
        /\ sync[p].letter \in Letters /\ sync[p].rfq \in Rfqs
    BY <1>4, <2>1, AtItem
  <2>3. PICK ms : ms = Row(p, k)
    OBVIOUS
  <2>4. ms \in Seq(MailRow) /\ \A i \in DOMAIN ms : ms[i].way = "out"
    BY <2>2, <2>3, RowsAre
  <2>5. PICK h : h = {} \cup {Result(p, "done")}
    OBVIOUS
  <2>6. PICK s : s = NextItem(p)
    OBVIOUS
  <2>7. Becomes(p, s) /\ held' = [held EXCEPT ![p] = h] /\ Commits(g, ms, auto)
    BY <1>2, <1>4, <2>3, <2>5, <2>6 DEF Answers
  <2>8. /\ IsLocal(s) /\ s.pc = "resume" /\ s.via = "resume" /\ s.todo = sync[p].todo
        /\ s.done = sync[p].done /\ s.batch = sync[p].batch
    BY <1>1, <1>4, <2>6 DEF IsLocal, LocalFields, NextItem
  <2>9. h \subseteq Changes /\ IsFiniteSet(h) /\ \A c \in h : Holds(s, c)
    <3>1. PICK l, r, i, d : l = sync[p].letter /\ r = sync[p].rfq /\ i = sync[p].audit /\ d = "done"
      OBVIOUS
    <3>2. PICK e : e = {}
      OBVIOUS
    <3>3. h = e \cup {Change("resume", l, r, i, d)} /\ PutUp(l, r, i) /\ d \in {"blocked", "done"}
      BY <2>2, <2>5, <3>1, <3>2 DEF Result
    <3>4. Shaped /\ Filed /\ e \subseteq Changes /\ IsFiniteSet(e) /\ \A c \in e : Holds(s, c)
      BY <3>2, FS_EmptySet DEF EmailInv
    <3>. QED  BY <3>3, <3>4, ResultHeld
  <2>10. WorksAt(s, h)
    BY <1>1, <2>8, <2>9 DEF WorksAt, Resuming
  <2>. QED  BY <1>3, <2>4, <2>7, <2>8, <2>9, <2>10, CommitStep
<1>5. CASE sync[p].via # "resume"
  <2>1. sync[p].via = "inbox" /\ sync[p].pc \in {"reply", "record"}
    BY <1>1, <1>5 DEF Answering, At, IsLocal, WorksAt, Between
  <2>2. Importing(sync[p], held[p]) /\ sync[p].letter \in Letters /\ sync[p].rfq \in Rfqs
    BY <2>1, AtLetter
  <2>3. PICK ms : ms = Row(p, k)
    OBVIOUS
  <2>4. ms \in Seq(MailRow) /\ \A i \in DOMAIN ms : ms[i].way = "out"
    BY <2>2, <2>3, RowsAre
  <2>5. PICK s : s = [sync[p] EXCEPT !.pc = "settle"]
    OBVIOUS
  <2>6. Becomes(p, s) /\ held' = [held EXCEPT ![p] = {}] /\ Commits(g, ms, auto)
    BY <1>2, <1>5, <2>3, <2>5 DEF Answers, Goes
  <2>7. /\ IsLocal(s) /\ s.via = "inbox" /\ s.pc = "settle" /\ s.letter = sync[p].letter
        /\ s.left = sync[p].left /\ s.todo = sync[p].todo /\ s.done = sync[p].done
        /\ s.batch = sync[p].batch /\ s.rfq = sync[p].rfq
    BY <1>1, <2>1, <2>5 DEF IsLocal, LocalFields
  <2>8. s.rfq \in about[s.letter]
    BY <2>2, <2>7 DEF Importing
  <2>9. ASSUME NEW x \in Pairs, Fresh(x) PROVE Untaken(s, x)
    <3>1. Untaken(sync[p], x)
      BY <2>9, AtSync
    <3>2. s.pc \notin {"judge", "offers", "reply"}
      BY <2>7
    <3>3. s.letter = x[1] /\ x[2] \in s.left /\ x[2] # s.rfq => quotes[x] = 0
      BY <2>1, <2>7, <3>1 DEF Untaken
    <3>. QED  BY <3>2, <3>3 DEF Untaken
  <2>. QED  BY <1>3, <2>1, <2>4, <2>6, <2>7, <2>8, <2>9, LetterCommitted
<1>. QED  BY <1>4, <1>5

LEMMA DraftSafe ==
  ASSUME EmailInv, NEW p \in Syncs, Draft(p) \/ Record(p)
  PROVE  EmailInv'
<1>1. /\ Answering(p) \/ sync[p].pc = "record"
      /\ Answers(p, {}) /\ UNCHANGED <<about, box, quotes, replies, marked>>
      /\ Commits(held[p], Row(p, "draft"), {}) \/ Commits(held[p], Row(p, "sent"), {})
  BY DEF Draft, Record, At, history
<1>2. PICK k \in {"draft", "sent"} : Commits(held[p], Row(p, k), {})
  BY <1>1
<1>. QED  BY <1>1, <1>2, AnswerWritten

-----------------------------------------------------------------------------
(* What is given. *)

\* At a letter or at an item, what is given is of a letter that is stored; a letter that is
\* fresh is given by the one sync that imports it.
LEMMA GivesHere ==
  ASSUME EmailInv, NEW p \in Syncs, sync[p].via \in {"resume", "inbox"}, sync[p].pc # "resume"
  PROVE  /\ Here(p) \in Pairs /\ Here(p)[1] = sync[p].letter /\ Here(p)[2] = sync[p].rfq
         /\ Fresh(Here(p)) => /\ sync[p].via = "inbox"
                              /\ sync[p].pc \in {"offers", "reply"} => Untaken(sync[p], Here(p)) /\ sync[p].rfq \in sync[p].left
<1>1. CASE sync[p].via = "resume"
  <2>1. PutUp(sync[p].letter, sync[p].rfq, sync[p].audit)
    BY <1>1, AtItem
  <2>2. Here(p) \in Pairs /\ ~ Fresh(Here(p))
    BY <2>1, PutUpIs DEF EmailInv, Here
  <2>. QED  BY <2>2 DEF Here
<1>2. CASE sync[p].via = "inbox"
  BY <1>2, AtLetter, AtSync DEF Importing, Here
<1>. QED  BY <1>1, <1>2

LEMMA StoreOfferSafe ==
  ASSUME EmailInv, NEW p \in Syncs, StoreOffer(p)
  PROVE  EmailInv'
<1>1. PICK g, ms, auto : /\ g = held[p] /\ ms = <<>>
                         /\ auto = IF sync[p].letter \in Odd THEN {<<sync[p].rfq, Nothing, "other">>} ELSE {}
  OBVIOUS
<1>2. PICK s : s = [sync[p] EXCEPT !.offers = @ - 1]
  OBVIOUS
<1>3. /\ sync[p].pc = "offers" /\ sync[p].offers > 0 /\ Commits(g, ms, auto)
      /\ held' = [held EXCEPT ![p] = {}] /\ quotes' = [quotes EXCEPT ![Here(p)] = @ + 1]
      /\ Becomes(p, s) /\ UNCHANGED <<about, box, replies, marked>>
  BY <1>1, <1>2 DEF StoreOffer, At, history
<1>4. IsLocal(sync[p]) /\ WorksAt(sync[p], held[p])
  BY AtSync
<1>5. sync[p].via \in {"resume", "inbox"}
  BY <1>3, <1>4 DEF IsLocal, WorksAt, Between
<1>6. /\ IsLocal(s) /\ s.via = sync[p].via /\ s.pc = "offers" /\ s.letter = sync[p].letter
      /\ s.left = sync[p].left /\ s.todo = sync[p].todo /\ s.done = sync[p].done
      /\ s.batch = sync[p].batch /\ s.rfq = sync[p].rfq /\ s.audit = sync[p].audit
      /\ s.offers = sync[p].offers - 1
  BY <1>2, <1>3, <1>4 DEF IsLocal, LocalFields
<1>7. PICK h : h = {}
  OBVIOUS
<1>8. Turns(p, s, h)
  BY <1>3, <1>7, MovesIs DEF EmailInv
<1>9. PICK x0 \in Pairs : x0 = Here(p)
  BY <1>3, <1>5, GivesHere
<1>10. /\ quotes \in [Pairs -> Nat] /\ quotes' \in [Pairs -> Nat] /\ quotes'[x0] = quotes[x0] + 1
       /\ \A x \in Pairs \ {x0} : quotes'[x] = quotes[x]
  BY <1>3, <1>9 DEF EmailInv, Shaped
<1>11. /\ g \subseteq Changes /\ IsFiniteSet(g) /\ Alike(held[p], g) /\ h \subseteq Changes /\ IsFiniteSet(h)
       /\ ms \in Seq(MailRow) /\ \A i \in DOMAIN ms : ms[i].way = "out"
  BY <1>1, <1>7, HeldIs, NoRows, FS_EmptySet DEF Alike
<1>12. /\ Shaped' /\ Filed' /\ Reasoned' /\ Grown
       /\ sync[p].via = "inbox" => /\ sync[p].letter \in Stored'
                                   /\ Linked(sync[p], held[p]) => sync[p].letter \in linked'
  BY <1>3, <1>6, <1>8, <1>10, <1>11, CommitGrows
<1>13. sync[p].letter \in Stored'
  <2>1. CASE sync[p].via = "resume"
    <3>1. sync[p].letter \in linked
      BY <1>3, <2>1, AtItem DEF PutUp
    <3>. QED  BY <1>12, <3>1 DEF EmailInv, Filed, Grown
  <2>. QED  BY <1>5, <1>12, <2>1
<1>14. WorksAt(s, h)'
  <2>1. CASE sync[p].via = "resume"
    <3>1. Resuming(s)
      BY <1>3, <1>6, <2>1, AtItem DEF Resuming
    <3>2. WorksAt(s, h)
      BY <1>4, <1>6, <1>7, <2>1, <3>1 DEF WorksAt
    <3>. QED  BY <1>12, <3>2, WorksOn DEF EmailInv
  <2>2. CASE sync[p].via = "inbox"
    <3>1. Importing(sync[p], held[p])
      BY <2>2, AtLetter
    <3>2. s.rfq \in about[s.letter] /\ s.rfq \in s.left /\ s.letter \in linked'
      BY <1>3, <1>6, <1>12, <2>2, <3>1 DEF Importing
    <3>3. WorksAt(s, {})'
      BY <1>6, <1>12, <1>13, <2>2, <3>2, WorksCommitted
    <3>. QED  BY <1>7, <3>3
  <2>. QED  BY <1>5, <2>1, <2>2
<1>15. Alone(p, s)
  BY <1>6, AtSync DEF Alone
<1>16. Given'
  <2>. SUFFICES ASSUME NEW x \in Pairs PROVE Once(x)'
    BY DEF Given
  <2>1. Once(x)
    BY DEF EmailInv, Given
  <2>2. CASE x # x0
    <3>1. x[1] \notin Stored' => quotes'[x] = 0 /\ replies'[x] = 0
      BY <1>3, <1>10, <1>12, <2>1, <2>2 DEF Once, Grown
    <3>2. ASSUME Fresh(x)'
          PROVE  /\ quotes'[x] <= OffersOf[x[1]] /\ replies'[x] <= 1
                 /\ \A q \in Syncs : Untaken(sync[q], x)'
      <4>1. Fresh(x)
        BY <1>12, <3>2, FreshBefore DEF EmailInv
      <4>2. quotes'[x] <= OffersOf[x[1]] /\ replies'[x] <= 1
        BY <1>3, <1>10, <2>1, <2>2, <4>1 DEF Once
      <4>3. ASSUME NEW q \in Syncs PROVE Untaken(sync[q], x)'
        <5>1. Untaken(sync[q], x) /\ Untaken(sync[p], x)
          BY <2>1, <4>1 DEF Once
        <5>2. x[1] # x0[1] \/ x[2] # x0[2]
          BY <2>2 DEF Pairs
        <5>3. x[1] = s.letter => x[2] # s.rfq
          BY <1>6, <1>9, <5>2 DEF Here
        <5>4. Untaken(s, x)
          BY <1>3, <1>6, <5>1, <5>3 DEF Untaken
        <5>5. Untaken(sync'[q], x)
          BY <1>8, <5>1, <5>4 DEF Turns
        <5>. QED  BY <1>3, <1>10, <2>2, <5>5 DEF Untaken
      <4>. QED  BY <4>2, <4>3
    <3>. QED  BY <3>1, <3>2 DEF Once
  <2>3. CASE x = x0
    <3>1. x[1] = s.letter /\ x[2] = s.rfq /\ x = Here(p)
      BY <1>6, <1>9, <2>3 DEF Here
    <3>2. x[1] \in Stored'
      BY <1>6, <1>13, <3>1
    <3>3. ASSUME Fresh(x)'
          PROVE  /\ quotes'[x] <= OffersOf[x[1]] /\ replies'[x] <= 1
                 /\ \A q \in Syncs : Untaken(sync[q], x)'
      <4>1. Fresh(x)
        BY <1>12, <3>3, FreshBefore DEF EmailInv
      <4>2. sync[p].via = "inbox" /\ Untaken(sync[p], x) /\ sync[p].rfq \in sync[p].left
        BY <1>3, <1>5, <3>1, <4>1, GivesHere
      <4>3. quotes[x] + sync[p].offers <= OffersOf[x[1]] /\ replies[x] = 0
        BY <1>3, <1>6, <3>1, <4>2 DEF Untaken
      <4>4. /\ quotes[x] \in Nat /\ sync[p].offers \in Nat /\ OffersOf[x[1]] \in Nat
        BY <1>4, <1>10, InboxAssumption DEF IsLocal, Pairs
      <4>5. quotes'[x] <= OffersOf[x[1]] /\ replies'[x] <= 1
        BY <1>3, <1>10, <2>3, <4>3, <4>4
      <4>6. ASSUME NEW q \in Syncs PROVE Untaken(sync[q], x)'
        <5>1. CASE q = p
          <6>1. sync'[q] = s
            BY <1>8, <5>1 DEF Turns
          <6>2. quotes'[x] + s.offers <= OffersOf[x[1]] /\ replies'[x] = 0
            BY <1>3, <1>6, <1>10, <2>3, <4>3, <4>4
          <6>. QED  BY <1>6, <3>1, <6>1, <6>2 DEF Untaken
        <5>2. CASE q # p
          <6>1. sync'[q] = sync[q]
            BY <1>8, <5>2 DEF Turns
          <6>2. sync[q].via = "inbox" => sync[q].letter # sync[p].letter
            BY <4>2, <5>2 DEF EmailInv, Apart, Alone
          <6>. QED  BY <1>6, <3>1, <6>1, <6>2 DEF Untaken
        <5>. QED  BY <5>1, <5>2
      <4>. QED  BY <4>5, <4>6
    <3>. QED  BY <3>2, <3>3 DEF Once
  <2>. QED  BY <2>2, <2>3
<1>17. Working' /\ Apart'
  BY <1>8, <1>12, <1>14, <1>15, StepWorks
<1>. QED  BY <1>12, <1>16, <1>17 DEF EmailInv

LEMMA SendSafe ==
  ASSUME EmailInv, NEW p \in Syncs, Send(p)
  PROVE  EmailInv'
<1>1. PICK s : s = [sync[p] EXCEPT !.pc = "record"]
  OBVIOUS
<1>2. /\ Answering(p) /\ replies' = [replies EXCEPT ![Here(p)] = @ + 1] /\ Becomes(p, s)
      /\ UNCHANGED <<about, box, mails, linked, audits, quotes, held, marked>>
  BY <1>1 DEF Send, Goes, store
<1>3. IsLocal(sync[p]) /\ WorksAt(sync[p], held[p]) /\ held[p] \subseteq Changes /\ IsFiniteSet(held[p])
  BY AtSync
<1>4. \/ sync[p].via = "resume" /\ sync[p].pc = "offers"
      \/ sync[p].via = "inbox" /\ sync[p].pc = "reply"
  BY <1>2, <1>3 DEF Answering, At, IsLocal, WorksAt, Between, Resuming
<1>5. /\ IsLocal(s) /\ s.via = sync[p].via /\ s.pc = "record" /\ s.letter = sync[p].letter
      /\ s.left = sync[p].left /\ s.todo = sync[p].todo /\ s.done = sync[p].done
      /\ s.batch = sync[p].batch /\ s.rfq = sync[p].rfq /\ s.audit = sync[p].audit
  BY <1>1, <1>3 DEF IsLocal, LocalFields
<1>6. sync[p].letter \in linked
  BY <1>4, AtItem, AtLetter DEF PutUp, Importing
<1>7. PICK x0 \in Pairs : x0 = Here(p) /\ x0[1] = sync[p].letter /\ x0[2] = sync[p].rfq
  BY <1>4, GivesHere
<1>8. /\ replies \in [Pairs -> Nat] /\ replies' \in [Pairs -> Nat] /\ replies'[x0] = replies[x0] + 1
      /\ \A x \in Pairs \ {x0} : replies'[x] = replies[x]
  BY <1>2, <1>7 DEF EmailInv, Shaped
<1>9. PICK h : h = held[p]
  OBVIOUS
<1>10. Turns(p, s, h)
  BY <1>2, <1>9, MovesIs DEF EmailInv
<1>11. Stored' = Stored
  BY <1>2 DEF Stored
<1>12. Shaped'
  BY <1>2, <1>5, <1>8, <1>10 DEF EmailInv, Shaped, Turns, IsLocal
<1>13. Filed' /\ Reasoned'
  <2>1. OnlyLinkedAnswered'
    BY <1>2, <1>6, <1>7, <1>8 DEF EmailInv, Filed, OnlyLinkedAnswered
  <2>. QED  BY <1>2, <1>11, <2>1 DEF EmailInv, Filed, Reasoned, Sound, Explained, Asked
<1>14. Grown
  <2>1. \A x \in Pairs : Len(audits[x]) \in Nat
    BY AuditsAre DEF EmailInv
  <2>. QED  BY <1>2, <1>11, <2>1 DEF Grown, Extend
<1>15. WorksAt(s, h)
  <2>1. \A c \in h : Holds(s, c)
    BY <1>3, <1>5, <1>9 DEF WorksAt, Holds
  <2>2. CASE sync[p].via = "resume"
    BY <1>3, <1>4, <1>5, <2>1, <2>2 DEF WorksAt, Resuming
  <2>3. CASE sync[p].via = "inbox"
    <3>1. Importing(sync[p], held[p])
      BY <2>3, AtLetter
    <3>2. RowIsThere(s, h)
      BY <1>5, <1>9, <3>1 DEF Importing, RowIsThere
    <3>3. Importing(s, h)
      BY <1>5, <1>6, <3>1, <3>2 DEF Importing
    <3>. QED  BY <1>3, <1>5, <2>1, <2>3, <3>3 DEF WorksAt
  <2>. QED  BY <1>4, <2>2, <2>3
<1>16. WorksAt(s, h)'
  BY <1>12, <1>14, <1>15, WorksOn DEF EmailInv
<1>17. Alone(p, s)
  BY <1>5, AtSync DEF Alone
<1>18. Working' /\ Apart'
  BY <1>10, <1>12, <1>14, <1>16, <1>17, StepWorks
<1>19. Given'
  <2>. SUFFICES ASSUME NEW x \in Pairs PROVE Once(x)'
    BY DEF Given
  <2>1. Once(x)
    BY DEF EmailInv, Given
  <2>2. x[1] \notin Stored' => quotes'[x] = 0 /\ replies'[x] = 0
    <3>1. x0[1] \in Stored
      BY <1>6, <1>7 DEF EmailInv, Filed
    <3>. QED  BY <1>2, <1>8, <1>11, <2>1, <3>1 DEF Once
  <2>3. ASSUME Fresh(x)'
        PROVE  /\ quotes'[x] <= OffersOf[x[1]] /\ replies'[x] <= 1
               /\ \A q \in Syncs : Untaken(sync[q], x)'
    <3>1. Fresh(x)
      BY <1>2, <2>3 DEF Fresh
    <3>2. quotes'[x] <= OffersOf[x[1]]
      BY <1>2, <2>1, <3>1 DEF Once
    <3>3. \A q \in Syncs : Untaken(sync[q], x)
      BY <2>1, <3>1 DEF Once
    <3>4. x = x0 => sync[p].via = "inbox" /\ sync[p].pc = "reply" /\ replies[x] = 0
      BY <1>4, <1>7, <3>1, <3>3, GivesHere DEF Untaken
    <3>5. replies'[x] <= 1
      BY <1>8, <2>1, <3>1, <3>4 DEF Once
    <3>6. ASSUME NEW q \in Syncs PROVE Untaken(sync[q], x)'
      <4>1. CASE q = p
        <5>1. sync'[q] = s
          BY <1>10, <4>1 DEF Turns
        <5>2. s.pc \notin {"judge", "offers", "reply"}
          BY <1>5
        <5>3. s.via = "inbox" /\ s.letter = x[1] /\ x[2] \in s.left /\ x[2] # s.rfq => quotes[x] = 0
          BY <1>4, <1>5, <3>3 DEF Untaken
        <5>. QED  BY <1>2, <5>1, <5>2, <5>3 DEF Untaken
      <4>2. CASE q # p
        <5>1. sync'[q] = sync[q] /\ Untaken(sync[q], x)
          BY <1>10, <3>3, <4>2 DEF Turns
        <5>2. CASE x # x0
          BY <1>2, <1>8, <5>1, <5>2 DEF Untaken
        <5>3. CASE x = x0
          <6>1. sync[q].via = "inbox" => sync[q].letter # x[1]
            BY <1>7, <3>4, <4>2, <5>3 DEF EmailInv, Apart, Alone
          <6>. QED  BY <5>1, <6>1 DEF Untaken
        <5>. QED  BY <5>2, <5>3
      <4>. QED  BY <4>1, <4>2
    <3>. QED  BY <3>2, <3>5, <3>6
  <2>. QED  BY <2>2, <2>3 DEF Once
<1>. QED  BY <1>12, <1>13, <1>18, <1>19 DEF EmailInv

-----------------------------------------------------------------------------
(* Steps that change the tables and no session. *)

\* A step after which every sync is where it was.
LEMMA StepBeside ==
  ASSUME EmailInv, sync' = sync, held' = held, Shaped', Filed', Reasoned', Grown,
         UNCHANGED <<quotes, replies>>
  PROVE  EmailInv'
<1>1. Working'
  <2>. SUFFICES ASSUME NEW q \in Syncs PROVE WorksAt(sync[q], held[q])'
    BY DEF Working
  <2>1. PICK t, g : t = sync[q] /\ g = held[q]
    OBVIOUS
  <2>2. WorksAt(t, g)'
    BY <2>1, AtSync, WorksOn DEF EmailInv
  <2>. QED  BY <2>1, <2>2
<1>2. Apart'
  BY DEF EmailInv, Apart, Alone
<1>3. Given'
  <2>. SUFFICES ASSUME NEW x \in Pairs PROVE Once(x)'
    BY DEF Given
  <2>1. Once(x)
    BY DEF EmailInv, Given
  <2>2. x[1] \notin Stored' => quotes'[x] = 0 /\ replies'[x] = 0
    BY <2>1 DEF Once, Grown
  <2>3. ASSUME Fresh(x)'
        PROVE  /\ quotes'[x] <= OffersOf[x[1]] /\ replies'[x] <= 1
               /\ \A q \in Syncs : Untaken(sync[q], x)'
    <3>1. Fresh(x)
      BY <2>3, FreshBefore DEF EmailInv
    <3>. QED  BY <2>1, <3>1 DEF Once, Untaken
  <2>. QED  BY <2>2, <2>3 DEF Once
<1>. QED  BY <1>1, <1>2, <1>3 DEF EmailInv

LEMMA SameAudits ==
  ASSUME EmailInv, audits' = audits
  PROVE  \A x \in Pairs : Extend(audits[x], audits'[x])
<1>1. \A x \in Pairs : Len(audits[x]) \in Nat
  BY AuditsAre DEF EmailInv
<1>. QED  BY <1>1 DEF Extend

\* One row more in the table of letters.
LEMMA RowAdded ==
  ASSUME EmailInv, NEW row \in MailRow, mails' = Append(mails, row)
  PROVE  /\ mails' \in Seq(MailRow) /\ Stored \subseteq Stored'
         /\ Stored' \subseteq Stored \cup (IF row.way = "in" THEN {row.letter} ELSE {})
         /\ row.way = "in" => row.letter \in Stored'
<1>1. PICK r : r = <<row>>
  OBVIOUS
<1>2. r \in Seq(MailRow) /\ Len(r) = 1 /\ r[1] = row /\ DOMAIN r = {1}
  <2>1. DOMAIN r = 1 .. 1
    BY <1>1
  <2>. QED  BY <1>1, <2>1
<1>3. mails' = mails \o r /\ mails \in Seq(MailRow)
  BY <1>1 DEF EmailInv, Shaped
<1>4. mails' \in Seq(MailRow) /\ Stored' = Stored \cup StoredIn(r)
  <2>1. mails \o r \in Seq(MailRow) /\ StoredIn(mails \o r) = StoredIn(mails) \cup StoredIn(r)
    BY <1>2, <1>3, StoredOfRows
  <2>. QED  BY <1>3, <2>1 DEF Stored
<1>5. StoredIn(r) = IF row.way = "in" THEN {row.letter} ELSE {}
  BY <1>2 DEF StoredIn
<1>. QED  BY <1>4, <1>5

LEMMA StoreUnmatchedSafe ==
  ASSUME EmailInv, NEW p \in Syncs, StoreUnmatched(p)
  PROVE  EmailInv'
<1>1. PICK l, s : l = NextOf(p) /\ s = Processed(p, l)
  OBVIOUS
<1>2. /\ sync[p].pc = "letters" /\ sync[p].batch # {} /\ mails' = Append(mails, Incoming(l))
      /\ Becomes(p, s) /\ held' = held
      /\ UNCHANGED <<about, box, linked, audits, quotes, replies, marked>>
  BY <1>1 DEF StoreUnmatched, At
<1>3. l \in Letters /\ l \in DOMAIN about
  BY <1>1, <1>2, NextOfIs
<1>4. PICK row : row = Incoming(l)
  OBVIOUS
<1>5. row \in MailRow /\ row.way = "in" /\ row.letter = l
  BY <1>3, <1>4 DEF Incoming, MailRow
<1>6. /\ mails' \in Seq(MailRow) /\ Stored \subseteq Stored' /\ Stored' \subseteq Stored \cup {l} /\ l \in Stored'
  BY <1>2, <1>4, <1>5, RowAdded
<1>7. /\ IsLocal(sync[p]) /\ WorksAt(sync[p], held[p]) /\ sync[p].via = "none"
      /\ held[p] \subseteq Changes /\ IsFiniteSet(held[p])
  BY <1>2, AtSync, AtLetters
<1>8. /\ IsLocal(s) /\ s.via = "none" /\ s.pc = "letters" /\ s.todo = sync[p].todo
      /\ s.done = sync[p].done \cup {l} /\ s.batch \subseteq sync[p].batch
  BY <1>1, ProcessedIs
<1>9. PICK h, t : h = held[p] /\ t = sync[p]
  OBVIOUS
<1>10. Turns(p, s, h)
  BY <1>2, <1>9, MovesIs DEF EmailInv
<1>11. Shaped'
  BY <1>2, <1>6, <1>7, <1>8, <1>9, <1>10 DEF EmailInv, Shaped, Turns, IsLocal
<1>12. Filed'
  BY <1>2, <1>3, <1>6 DEF EmailInv, Filed, OnlyLinkedAnswered
<1>13. Reasoned'
  BY <1>2 DEF EmailInv, Reasoned, Sound, Explained, Asked
<1>14. Grown
  BY <1>2, <1>6, SameAudits DEF Grown
<1>15. WorksAt(t, h)'
  BY <1>7, <1>9, <1>11, <1>14, WorksOn DEF EmailInv
<1>16. WorksAt(s, h)'
  <2>1. \A c \in h : Holds(t, c)'
    BY <1>15 DEF WorksAt
  <2>2. \A c \in h : Holds(s, c)'
    BY <1>7, <1>8, <1>9, <2>1 DEF Holds
  <2>. QED  BY <1>6, <1>7, <1>8, <1>9, <1>15, <2>2 DEF WorksAt, Between
<1>17. Alone(p, s) /\ \A x \in Pairs : Untaken(s, x)
  BY <1>8 DEF Alone, Untaken
<1>. QED  BY <1>2, <1>10, <1>11, <1>12, <1>13, <1>14, <1>16, <1>17, StepOf

LEMMA CompleteSafe ==
  ASSUME EmailInv, NEW p \in Syncs, Complete(p)
  PROVE  EmailInv'
<1>1. /\ mails' = [i \in DOMAIN mails |->
                IF i \in Drafts(sync[p].rfq) THEN [mails[i] EXCEPT !.status = "cancelled"] ELSE mails[i]]
      /\ sync' = sync /\ held' = held /\ UNCHANGED <<about, box, linked, audits, quotes, replies, marked>>
  BY DEF Complete, history
<1>2. /\ mails \in Seq(MailRow) /\ Len(mails) \in Nat /\ DOMAIN mails = 1 .. Len(mails)
      /\ \A i \in DOMAIN mails : mails[i] \in MailRow
  BY LenProperties, ElementOfSeq DEF EmailInv, Shaped
<1>3. ASSUME NEW i \in DOMAIN mails
      PROVE  mails'[i] \in MailRow /\ mails'[i].way = mails[i].way /\ mails'[i].letter = mails[i].letter
  BY <1>1, <1>2 DEF MailRow
<1>4. mails' \in Seq(MailRow) /\ DOMAIN mails' = DOMAIN mails
  <2>1. mails' \in [1 .. Len(mails) -> MailRow]
    BY <1>1, <1>2, <1>3
  <2>. QED  BY <1>2, <2>1, SeqDef
<1>5. Stored' = Stored
  <2>1. \A i \in DOMAIN mails : mails'[i].way = mails[i].way /\ mails'[i].letter = mails[i].letter
    BY <1>3
  <2>2. PICK m, n : m = mails /\ n = mails'
    OBVIOUS
  <2>3. /\ DOMAIN n = DOMAIN m /\ \A i \in DOMAIN m : n[i].way = m[i].way /\ n[i].letter = m[i].letter
    BY <1>4, <2>1, <2>2
  <2>4. StoredIn(n) = StoredIn(m)
    BY <2>3 DEF StoredIn
  <2>. QED  BY <2>2, <2>4 DEF Stored
<1>6. Shaped'
  BY <1>1, <1>4 DEF EmailInv, Shaped, IsLocal
<1>7. Filed' /\ Reasoned'
  BY <1>1, <1>5 DEF EmailInv, Filed, OnlyLinkedAnswered, Reasoned, Sound, Explained, Asked
<1>8. Grown
  BY <1>1, <1>5, SameAudits DEF Grown
<1>. QED  BY <1>1, <1>6, <1>7, <1>8, StepBeside

\* Letters arrive and are read by people, cases are opened.
LEMMA BesideTables ==
  ASSUME EmailInv, UNCHANGED <<about, mails, linked, audits, quotes, replies, marked, sync, held>>,
         \A l \in Letters : box'[l] # "coming" => l \in DOMAIN about
  PROVE  EmailInv'
<1>1. Stored' = Stored
  BY DEF Stored
<1>2. Shaped'
  BY DEF EmailInv, Shaped, IsLocal
<1>3. Filed' /\ Reasoned'
  BY <1>1 DEF EmailInv, Filed, OnlyLinkedAnswered, Reasoned, Sound, Explained, Asked
<1>4. Grown
  BY <1>1, SameAudits DEF Grown
<1>. QED  BY <1>2, <1>3, <1>4, StepBeside

LEMMA LettersSafe ==
  ASSUME EmailInv, NEW l \in DOMAIN about, Arrives(l) \/ PersonReads(l)
  PROVE  EmailInv'
<1>1. /\ UNCHANGED <<about, mails, linked, audits, quotes, replies, marked, sync, held>>
      /\ \E v : box' = [box EXCEPT ![l] = v]
  BY DEF Arrives, PersonReads, store, history
<1>2. \A m \in Letters : box'[m] # "coming" => m \in DOMAIN about
  BY <1>1 DEF EmailInv, Shaped
<1>. QED  BY <1>1, <1>2, BesideTables

LEMMA EscalateManuallySafe ==
  ASSUME EmailInv, NEW r \in Rfqs, EscalateManually(r)
  PROVE  EmailInv'
<1>1. UNCHANGED <<about, box, mails, linked, audits, quotes, replies, marked, sync, held>>
  BY DEF EscalateManually, history
<1>2. \A m \in Letters : box'[m] # "coming" => m \in DOMAIN about
  BY <1>1 DEF EmailInv, Shaped
<1>. QED  BY <1>1, <1>2, BesideTables


\* A case is settled by a person, and a linked dialogue goes on.
LEMMA ResolveSafe ==
  ASSUME EmailInv, NEW c \in Cases, Resolve(c)
  PROVE  EmailInv'
<1>1. PICK l, r : l = c[2] /\ r = c[1]
  OBVIOUS
<1>2. PICK x : x = <<l, r>>
  OBVIOUS
<1>3. PICK entries : entries = RequestResume(audits[x], l, r, Len(audits[x]), "human_resolved")
  OBVIOUS
<1>4. /\ audits' = IF l \in linked /\ audits[x] # <<>> THEN [audits EXCEPT ![x] = entries] ELSE audits
      /\ UNCHANGED <<about, box, mails, linked, quotes, replies, marked, sync, held>>
  BY <1>1, <1>2, <1>3 DEF Resolve, history
<1>5. CASE audits' = audits
  <2>1. \A m \in Letters : box'[m] # "coming" => m \in DOMAIN about
    BY <1>4 DEF EmailInv, Shaped
  <2>. QED  BY <1>4, <1>5, <2>1, BesideTables
<1>6. CASE l \in linked /\ audits[x] # <<>> /\ audits' = [audits EXCEPT ![x] = entries]
  <2>1. x \in Pairs /\ x[1] = l /\ x[2] = r
    BY <1>1, <1>2, <1>6, LinkedIs DEF Pairs, Cases, EmailInv
  <2>2. /\ audits[x] \in Seq(AuditRow) /\ Len(audits[x]) \in Nat
        /\ DOMAIN audits[x] = 1 .. Len(audits[x])
    BY <2>1, AuditsAre DEF EmailInv
  <2>3. Len(audits[x]) \in DOMAIN audits[x]
    BY <1>6, <2>2, EmptySeq
  <2>4. Explained(audits[x])
    BY <2>1 DEF EmailInv, Reasoned, Sound
  <2>5. entries \in Seq(AuditRow) /\ Explained(entries) /\ Extend(audits[x], entries)
    <3>1. "human_resolved" \in Reasons \ {"none"}
      BY DEF Reasons
    <3>2. PICK a, n : a = audits[x] /\ n = Len(audits[x])
      OBVIOUS
    <3>3. a \in Seq(AuditRow) /\ Explained(a) /\ n \in DOMAIN a
      BY <2>2, <2>3, <2>4, <3>2
    <3>4. PICK why \in Reasons \ {"none"} : why = "human_resolved"
      BY <3>1
    <3>. QED  BY <1>3, <3>2, <3>3, <3>4, RequestResumeIs
  <2>6. audits' \in [Pairs -> Seq(AuditRow)] /\ audits'[x] = entries
        /\ \A y \in Pairs : y # x => audits'[y] = audits[y]
    BY <1>6, <2>1, <2>5 DEF EmailInv, Shaped
  <2>7. Stored' = Stored
    BY <1>4 DEF Stored
  <2>8. Shaped' /\ Filed'
    BY <1>4, <2>6, <2>7 DEF EmailInv, Shaped, Filed, OnlyLinkedAnswered, IsLocal
  <2>9. Reasoned'
    <3>. SUFFICES ASSUME NEW y \in Pairs PROVE Sound(y, audits[y])'
      BY DEF Reasoned
    <3>1. CASE y = x
      BY <1>4, <1>6, <2>1, <2>5, <2>6, <3>1 DEF Sound, Explained
    <3>2. CASE y # x
      BY <1>4, <2>6, <3>2 DEF EmailInv, Reasoned, Sound, Explained, Asked
    <3>. QED  BY <3>1, <3>2
  <2>10. Grown
    <3>1. \A y \in Pairs : Extend(audits[y], audits[y])
      <4>1. \A y \in Pairs : Len(audits[y]) \in Nat
        BY AuditsAre DEF EmailInv
      <4>. QED  BY <4>1 DEF Extend
    <3>2. \A y \in Pairs : Extend(audits[y], audits'[y])
      BY <2>5, <2>6, <3>1
    <3>. QED  BY <1>4, <2>7, <3>2 DEF Grown
  <2>. QED  BY <1>4, <2>8, <2>9, <2>10, StepBeside
<1>. QED  BY <1>4, <1>5, <1>6

\* A person answers a stranger, and so ties the address to a supplier.
LEMMA ReplyByHandSafe ==
  ASSUME EmailInv, NEW c \in Cases, ReplyByHand(c)
  PROVE  EmailInv'
<1>1. PICK row : row = Answer(c[2], c[1], "sent")
  OBVIOUS
<1>2. /\ mails' = Append(mails, row)
      /\ linked' = linked \cup {m \in Stored : c[1] \in about[m]}
      /\ UNCHANGED <<about, box, audits, quotes, replies, marked, sync, held>>
  BY <1>1 DEF ReplyByHand, history
<1>3. row \in MailRow /\ row.way = "out"
  BY <1>1 DEF Cases, Answer, MailRow
<1>4. mails' \in Seq(MailRow) /\ Stored' = Stored
  BY <1>2, <1>3, RowAdded
<1>5. linked \subseteq linked' /\ linked' \subseteq Stored
  BY <1>2 DEF EmailInv, Filed
<1>6. Shaped' /\ Filed'
  BY <1>2, <1>4, <1>5 DEF EmailInv, Shaped, Filed, OnlyLinkedAnswered, IsLocal
<1>7. Reasoned'
  BY <1>2, <1>5 DEF EmailInv, Reasoned, Sound, Explained, Asked
<1>8. Grown
  BY <1>2, <1>4, <1>5, SameAudits DEF Grown
<1>. QED  BY <1>2, <1>6, <1>7, <1>8, StepBeside

\* Dialogues are put up for resumption, for letters of linked senders alone.
LEMMA ReconciledAudits ==
  ASSUME EmailInv, NEW now, linked \subseteq now, NEW x \in Pairs,
         NEW as, as = ResumeLinked(now, audits), NEW entries, entries = Backfilled(now, as)[x]
  PROVE  /\ entries \in Seq(AuditRow) /\ Explained(entries) /\ Extend(audits[x], entries)
         /\ Asked(entries) => x[1] \in now
<1>1. PICK why \in Reasons \ {"none"} : why = "sender_identity_linked"
  BY DEF Reasons
<1>2. PICK a : a = audits[x]
  OBVIOUS
<1>3. a \in Seq(AuditRow) /\ Len(a) \in Nat /\ DOMAIN a = 1 .. Len(a)
  BY <1>2, AuditsAre DEF EmailInv
<1>4. Explained(a) /\ (Asked(a) => x[1] \in now) /\ Extend(a, a)
  BY <1>2, <1>3 DEF EmailInv, Reasoned, Sound, Extend
<1>5. PICK b : b = as[x]
  OBVIOUS
<1>6. /\ b = a \/ (x[1] \in now /\ a # <<>> /\ b = RequestResume(a, x[1], x[2], Len(a), why))
  BY <1>1, <1>2, <1>5 DEF ResumeLinked
<1>7. b \in Seq(AuditRow) /\ Explained(b) /\ Extend(a, b) /\ (Asked(b) => x[1] \in now)
  <2>1. CASE b = a
    BY <1>3, <1>4, <2>1
  <2>2. CASE x[1] \in now /\ a # <<>> /\ b = RequestResume(a, x[1], x[2], Len(a), why)
    <3>1. PICK n \in DOMAIN a : n = Len(a)
      BY <1>3, <2>2, EmptySeq
    <3>. QED  BY <1>3, <1>4, <2>2, <3>1, AskedSound
  <2>. QED  BY <1>6, <2>1, <2>2
<1>8. \/ entries = b
      \/ /\ x[1] \in now /\ IdentityAudits(b) # {}
         /\ entries = RequestResume(b, x[1], x[2], Max(IdentityAudits(b)), why)
  BY <1>1, <1>5 DEF Backfilled
<1>9. CASE entries = b
  BY <1>2, <1>7, <1>9
<1>10. CASE /\ x[1] \in now /\ IdentityAudits(b) # {}
            /\ entries = RequestResume(b, x[1], x[2], Max(IdentityAudits(b)), why)
  <2>1. Len(b) \in Nat /\ DOMAIN b = 1 .. Len(b)
    BY <1>7, LenProperties
  <2>2. Max(IdentityAudits(b)) \in IdentityAudits(b)
    <3>1. IdentityAudits(b) \subseteq 0 .. Len(b)
      BY <2>1 DEF IdentityAudits
    <3>. QED  BY <1>10, <2>1, <3>1, MaxIs
  <2>3. PICK n \in DOMAIN b : n = Max(IdentityAudits(b))
    BY <2>2 DEF IdentityAudits
  <2>. QED  BY <1>2, <1>3, <1>7, <1>10, <2>3, AskedSound
<1>. QED  BY <1>8, <1>9, <1>10

LEMMA ReconcileSafe ==
  ASSUME EmailInv, NEW p \in Syncs, Reconcile(p)
  PROVE  EmailInv'
<1>1. PICK now, as : /\ linked \subseteq now /\ now \subseteq Stored /\ linked' = now
                     /\ as = ResumeLinked(now, audits) /\ audits' = Backfilled(now, as)
  <2>1. linked \subseteq Stored
    BY DEF EmailInv, Filed
  <2>2. PICK rs : LET found == {l \in Stored : about[l] \cap rs # {}}
                      now == linked \cup found
                  IN linked' = now /\ audits' = Backfilled(now, ResumeLinked(now, audits))
    BY DEF Reconcile
  <2>. QED  BY <2>1, <2>2
<1>2. PICK s, h, t : s = [sync[p] EXCEPT !.pc = "pending"] /\ h = held[p] /\ t = sync[p]
  OBVIOUS
<1>3. /\ Becomes(p, s) /\ held' = held /\ sync[p].pc = "idle"
      /\ UNCHANGED <<about, box, mails, quotes, replies, marked>>
  BY <1>2 DEF Reconcile, Begins, Goes, At, history
<1>4. /\ IsLocal(t) /\ WorksAt(t, h) /\ t.via = "none"
  BY <1>2, <1>3, AtLetters, AtSync
<1>5. /\ IsLocal(s) /\ s.via = "none" /\ s.pc = "pending" /\ s.todo = t.todo
      /\ s.done = t.done /\ s.batch = t.batch
  BY <1>2, <1>4 DEF IsLocal, LocalFields
<1>6. Turns(p, s, h)
  BY <1>2, <1>3, MovesIs DEF EmailInv
<1>7. \A x \in Pairs : /\ audits'[x] \in Seq(AuditRow) /\ Explained(audits'[x])
                       /\ Extend(audits[x], audits'[x]) /\ (Asked(audits'[x]) => x[1] \in linked')
  BY <1>1, ReconciledAudits
<1>8. Stored' = Stored
  BY <1>3 DEF Stored
<1>9. audits' \in [Pairs -> Seq(AuditRow)]
  <2>1. audits' = [x \in Pairs |-> audits'[x]]
    BY <1>1 DEF Backfilled
  <2>. QED  BY <1>7, <2>1
<1>10. Shaped'
  BY <1>3, <1>5, <1>6, <1>9 DEF EmailInv, Shaped, Turns, IsLocal
<1>11. Filed'
  BY <1>1, <1>3, <1>8 DEF EmailInv, Filed, OnlyLinkedAnswered
<1>12. Reasoned'
  BY <1>7 DEF Reasoned, Sound, Explained, Asked
<1>13. Grown
  BY <1>1, <1>3, <1>7, <1>8 DEF Grown
<1>14. WorksAt(s, h)
  <2>1. \A c \in h : Holds(s, c)
    BY <1>4, <1>5 DEF WorksAt, Holds
  <2>. QED  BY <1>4, <1>5, <2>1 DEF WorksAt, Between
<1>15. WorksAt(s, h)'
  BY <1>10, <1>13, <1>14, WorksOn DEF EmailInv
<1>16. Alone(p, s) /\ \A x \in Pairs : Untaken(s, x)
  BY <1>5 DEF Alone, Untaken
<1>. QED  BY <1>3, <1>6, <1>10, <1>11, <1>12, <1>13, <1>15, <1>16, StepOf

-----------------------------------------------------------------------------
(* The theorems. *)

LEMMA InitSafe ==
  ASSUME Init
  PROVE  EmailInv
<1>. DEFINE old == Earlier \cap DOMAIN about
            escalated == {x \in old \X Rfqs : x[2] \in about[x[1]]}
            came == {Incoming(l) : l \in old}
<1>1. /\ about \in Mail /\ box = [l \in Letters |-> IF l \in old THEN "seen" ELSE "coming"]
      /\ mails = SetToSeq(came) /\ marked = old
      /\ audits = [x \in Pairs |-> IF x \in escalated THEN <<Audit(0, TRUE)>> ELSE <<>>]
  BY DEF Init
<1>2. /\ linked = {} /\ quotes = [x \in Pairs |-> 0] /\ replies = [x \in Pairs |-> 0]
      /\ sync = [p \in Syncs |-> Resting] /\ held = [p \in Syncs |-> {}]
  BY DEF Init
<1>3. DOMAIN about \subseteq Letters /\ old \subseteq Letters /\ IsFiniteSet(old)
  BY <1>1, AboutIs, InboxAssumption, FS_Subset
<1>. HIDE DEF escalated
<1>4. came \subseteq MailRow
  BY <1>3 DEF Incoming, MailRow
<1>5. IsFiniteSet(came)
  <2>. DEFINE row == [l \in old |-> Incoming(l)]
  <2>1. row \in Surjection(old, came)
    BY DEF Surjection
  <2>. HIDE DEF row
  <2>. QED  BY <1>3, <2>1, FS_Surjection
<1>6. mails \in Seq(MailRow) /\ \A e \in came : \E i \in DOMAIN mails : mails[i] = e
  BY <1>1, <1>4, <1>5, SetToSeqIs
<1>. HIDE DEF came, old
<1>7. old \subseteq Stored
  <2>1. \A l \in old : Incoming(l) \in came /\ Incoming(l).way = "in" /\ Incoming(l).letter = l
    BY DEF came, Incoming
  <2>. QED  BY <1>6, <2>1 DEF Stored, StoredIn
<1>8. Stored \subseteq DOMAIN about
  <2>1. \A i \in DOMAIN mails : mails[i] \in came
    BY <1>1, <1>5, SetToSeqIs, LenProperties, ElementOfSeq
  <2>2. \A e \in came : e.letter \in DOMAIN about
    BY DEF came, old, Incoming
  <2>. QED  BY <2>1, <2>2 DEF Stored, StoredIn
<1>9. audits \in [Pairs -> Seq(AuditRow)]
  <2>1. Audit(0, TRUE) \in AuditRow
    BY DEF Audit, AuditRow, Resumes, Reasons
  <2>2. PICK a \in AuditRow : a = Audit(0, TRUE)
    BY <2>1
  <2>3. <<a>> \in Seq(AuditRow) /\ <<>> \in Seq(AuditRow)
    OBVIOUS
  <2>. QED  BY <1>1, <2>2, <2>3
<1>10. Shaped
  BY <1>1, <1>2, <1>6, <1>9, RestingIs, FS_EmptySet DEF Shaped, old
<1>11. Filed
  BY <1>1, <1>2, <1>7, <1>8 DEF Filed, OnlyLinkedAnswered
<1>12. Reasoned
  <2>1. \A x \in Pairs : \A i \in DOMAIN audits[x] : audits[x][i].resume = "none"
    BY <1>1 DEF Audit
  <2>. QED  BY <2>1 DEF Reasoned, Sound, Explained, Asked
<1>13. Working /\ Apart
  BY <1>2, RestingIs DEF Working, WorksAt, Between, Apart, Alone
<1>14. Given
  <2>1. \A x \in Pairs : OffersOf[x[1]] \in Nat
    BY InboxAssumption DEF Pairs
  <2>2. \A x \in Pairs : \A p \in Syncs : Untaken(sync[p], x)
    BY <1>2, RestingIs DEF Untaken
  <2>. QED  BY <1>2, <2>1, <2>2 DEF Given, Once
<1>. QED  BY <1>10, <1>11, <1>12, <1>13, <1>14 DEF EmailInv

LEMMA NextSafe ==
  ASSUME EmailInv, [Next]_vars
  PROVE  EmailInv'
<1>1. CASE UNCHANGED vars
  <2>1. UNCHANGED <<about, box, mails, linked, audits, quotes, replies, marked, sync, held>>
    BY <1>1 DEF vars, store, history
  <2>2. \A l \in Letters : box'[l] # "coming" => l \in DOMAIN about
    BY <2>1 DEF EmailInv, Shaped
  <2>. QED  BY <2>1, <2>2, BesideTables
<1>2. CASE Outside
  <2>1. \/ \E l \in DOMAIN about : Arrives(l) \/ PersonReads(l)
        \/ \E c \in Cases : Resolve(c) \/ ReplyByHand(c)
        \/ \E r \in Rfqs : EscalateManually(r)
    BY <1>2 DEF Outside
  <2>. QED  BY <2>1, LettersSafe, ResolveSafe, ReplyByHandSafe, EscalateManuallySafe
<1>3. ASSUME NEW p \in Syncs,
             Reconcile(p) \/ NotReconciled(p) \/ Step(p) \/ Raises(p) \/ Dies(p)
      PROVE  EmailInv'
  <2>1. CASE Reconcile(p) \/ NotReconciled(p)
    BY <2>1, ReconcileSafe, NotReconciledSafe
  <2>2. CASE Raises(p) \/ Dies(p)
    BY <2>2, RaisesSafe, DiesSafe
  <2>3. CASE Resumption(p)
    <3>1. \/ ListPending(p) \/ TakeItem(p) \/ StartAudit(p) \/ AuditFreed(p)
          \/ ResumeStopped(p) \/ ResumeSilent(p) \/ ResumeReads(p) \/ ResumeFactsOnly(p)
          \/ GroupCommit(p)
      BY <2>3 DEF Resumption
    <3>. QED  BY <3>1, ListPendingSafe, TakeItemSafe, AuditSafe, ResumeStoppedSafe,
                 ResumeSilentSafe, ResumeReadsSafe, GroupCommitSafe
  <2>4. CASE Import(p)
    <3>1. \/ Fetch(p) \/ Duplicate(p) \/ StoreUnmatched(p) \/ InsertLetter(p) \/ RowFreed(p)
          \/ Recognise(p) \/ Hands(p) \/ Waits(p) \/ Reads(p) \/ Parsed(p) \/ Complete(p)
          \/ MarkSeen(p)
      BY <2>4 DEF Import
    <3>. QED  BY <3>1, FetchSafe, DuplicateSafe, StoreUnmatchedSafe, InsertLetterSafe,
                 RecogniseSafe, HandsSafe, WaitsSafe, ReadsSafe, ParsedSafe, CompleteSafe,
                 MarkSeenSafe
  <2>5. CASE StoreOffer(p) \/ NoReply(p) \/ Draft(p) \/ Send(p) \/ Record(p) \/ Settle(p)
    BY <2>5, StoreOfferSafe, NoReplySafe, DraftSafe, SendSafe, SettleSafe
  <2>. QED  BY <1>3, <2>1, <2>2, <2>3, <2>4, <2>5 DEF Step
<1>. QED  BY <1>1, <1>2, <1>3 DEF Next

\* What a sync relies on holds of every state, whichever sync takes the step.
THEOREM EmailInvariant == Spec => []EmailInv
<1>1. Init => EmailInv
  BY InitSafe
<1>2. EmailInv /\ [Next]_vars => EmailInv'
  BY NextSafe
<1>. QED  BY <1>1, <1>2, PTL DEF Spec

\* A letter nobody has put up for resumption gives its offers once and is
\* answered at most once: whatever syncs meet it again in sync_inbox, the row
\* of the letter is inserted once (communications.external_id is unique), and
\* what a dead sync had not committed is gone with its session.
THEOREM FreshIsOnce == Spec => []FreshOnce
<1>1. EmailInv => FreshOnce
  BY DEF EmailInv, Given, Once, Fresh, FreshOnce
<1>. QED  BY <1>1, EmailInvariant, PTL

\* A letter the program has answered is tied to a contact of a supplier: the
\* automatic answer and the resumed dialogue come after the sender is linked,
\* and no step takes a link back.
THEOREM LinkedIsAnswered == Spec => []OnlyLinkedAnswered
<1>1. EmailInv => OnlyLinkedAnswered
  BY DEF EmailInv, Filed
<1>. QED  BY <1>1, EmailInvariant, PTL

\* What a sync marks as read (mark_emails_seen) is in the database: a letter
\* that failed, or that was being imported when the worker died, is not on
\* the list of the processed.
THEOREM MarkedIsStored == Spec => []MarkedAreStored
<1>1. EmailInv => MarkedAreStored
  BY DEF EmailInv, Filed, MarkedAreStored
<1>. QED  BY <1>1, EmailInvariant, PTL

-----------------------------------------------------------------------------
(* The shape of a dialogue. *)

Speakers == {"buyer", "supplier", "assistant"}
ScriptRow == [by : Speakers, text : SUBSET STRING, letter : SandboxLetters \cup {None}, mail : Nat]
LetterPlaces == {"stores", "weighs", "judges", "writes", "delivers", "records"}
Places == LetterPlaces \cup {"idle", "takes", "asks", "simulates", "collects", "closes"}
SessionFields == DOMAIN Quiet

Fits(s) ==
  /\ DOMAIN s = SessionFields /\ s.at \in Places
  /\ s.letter \in SandboxLetters \cup {None} /\ s.text \in SUBSET STRING
  /\ s.read \subseteq DOMAIN script /\ s.batch \subseteq SandboxLetters /\ s.result \in Nat

DialogueShaped ==
  /\ wording \in Wordings /\ DOMAIN dialogue = {"status", "quotation", "simulation", "delivery"}
  /\ script \in Seq(ScriptRow) /\ sent \in Seq([to : SandboxLetters \cup {None}, thread : SUBSET Nat])
  /\ charged \in Nat /\ weighed \in [SandboxLetters -> {"none", "open", "denied"}]
  /\ refs \in [SandboxLetters -> SUBSET Nat]
  /\ DOMAIN talk = Sessions /\ \A p \in Sessions : Fits(talk[p])
  /\ \A c \in Clerks : talk[c].letter = None

-----------------------------------------------------------------------------
(* What the worker knows when it answers. *)

\* The messages its session has read: all of them before the dialogue is loaded.
Known == IF talk[Robot].read = {} THEN DOMAIN script ELSE talk[Robot].read

\* Nothing it has read answers the letter.
Unanswered(l) ==
  \A i, j \in DOMAIN script : script[i].letter = l /\ j \in Known /\ j > i => script[j].by # "assistant"

\* Rules that keep a letter for a person do not come first in it.
Free(text) ==
  \A k \in DOMAIN RuleOrder : RuleOrder[k] \in text =>
    \E j \in 1 .. k : RuleOrder[j] \in text /\ RuleOrder[j] = "capacity_limitation"

\* Its answer is the last message but for those of people.
Responding(s) ==
  /\ s.row \in DOMAIN script /\ s.row \in s.read
  /\ script[s.row].by = "assistant" /\ script[s.row].mail = None /\ script[s.row].letter = None
  /\ \A i \in DOMAIN script : script[i].letter # None => i < s.row

AtWork ==
  LET s == talk[Robot]
  IN  /\ s.at \in {"idle", "takes"} \cup LetterPlaces
      /\ s.letter # None <=> s.at \in LetterPlaces
      /\ s.at \in LetterPlaces => s.text = wording[s.letter] /\ s.read # {}
      /\ s.at = "stores" => ~IsStored(s.letter)
      /\ s.at \in LetterPlaces \ {"stores"} => IsStored(s.letter)
      /\ s.at \in {"weighs", "judges", "writes"} => Unanswered(s.letter)
      /\ s.at \in {"writes", "delivers"} => Free(s.text)
      /\ s.at = "delivers" => AnswersTo(s.letter) = {}
      /\ s.at \in {"delivers", "records"} => Responding(s)

RespondedOnce ==
  \A l \in SandboxLetters :
    /\ Unanswered(l) => AnswersTo(l) = {}
    /\ Cardinality(AnswersTo(l)) <= 1
    /\ AnswersTo(l) # {} => Free(wording[l])

-----------------------------------------------------------------------------
(* The budget. *)

Responses == {m \in DOMAIN sent : sent[m].to # None}
Opened == \E i \in DOMAIN script : script[i].by = "assistant" /\ script[i].mail # None

Counted ==
  LET n == Cardinality(Responses)
      s == talk[Robot]
  IN  /\ ~Opened => Responses = {} /\ s.letter = None /\ \A l \in SandboxLetters : ~IsStored(l)
      /\ Opened => charged > n
      /\ s.at = "delivers" => charged > n + 1
      /\ s.at \in {"judges", "writes", "delivers"} => n + 1 < MaxReplies
      /\ \A l \in SandboxLetters :
           /\ weighed[l] # "none" => IsStored(l)
           /\ weighed[l] = "open" /\ Unanswered(l) => n + 1 < MaxReplies
      /\ n > 0 => n < MaxReplies

-----------------------------------------------------------------------------
(* What a complete dialogue has collected. *)

BySupplier == {i \in DOMAIN script : script[i].by = "supplier"}
Named(f) == \E i \in BySupplier : Found(script[i].text, f) # {}
Certain(f) ==
  \E i \in BySupplier : \E form \in Range(Forms[f]) : form[1] \in script[i].text /\ form[2] >= Threshold
Certified == \E i \in BySupplier, paper \in Papers : {paper.file, paper.given} \cap script[i].text # {}

Collectedly == \A f \in RequiredFields : Certain(f)
GoalNamed ==
  /\ Chemist /\ GoalFields # {}
  /\ \A f \in GoalFields : IF f = "specification" THEN Certified ELSE f \in RequiredFields /\ Named(f)

Earned ==
  /\ dialogue.status = "complete" => (Collectedly /\ Certified) \/ GoalNamed
  /\ \A p \in Sessions : talk[p].task = "handoff" => GoalNamed

DialogueInv == DialogueShaped /\ AtWork /\ RespondedOnce /\ Counted /\ Earned

-----------------------------------------------------------------------------
(* The rules. *)

LEMMA LeastOf ==
  ASSUME NEW S, S \subseteq Nat, S # {}
  PROVE  Min(S) \in S /\ \A y \in S : Min(S) <= y
BY LeastIs DEF Min

\* A letter the program may answer meets a limit of capacity first, or no rule.
LEMMA AllowedIsFree ==
  ASSUME NEW text, NEW answer, Allowed(text, answer)
  PROVE  Free(text)
<1>. DEFINE first == Min(RulesMet(text))
<1>1. CASE RulesMet(text) = {}
  BY <1>1 DEF RulesMet, Free
<1>2. CASE RulesMet(text) # {}
  <2>1. DOMAIN RuleOrder = 1 .. 11
    BY DEF RuleOrder
  <2>2. RulesMet(text) \subseteq Nat
    BY <2>1 DEF RulesMet
  <2>3. first \in RulesMet(text) /\ \A k \in RulesMet(text) : first <= k
    BY <1>2, <2>2, LeastOf
  <2>4. RouteOf(RuleOrder[first]) = "auto_reply"
    BY <1>2 DEF Allowed, Judged, FirstRule
  <2>5. RuleOrder[first] = "capacity_limitation"
    BY <2>4 DEF RouteOf
  <2>. HIDE DEF first
  <2>6. ASSUME NEW k \in DOMAIN RuleOrder, RuleOrder[k] \in text
        PROVE  \E j \in 1 .. k : RuleOrder[j] \in text /\ RuleOrder[j] = "capacity_limitation"
    <3>1. k \in RulesMet(text)
      BY <2>6 DEF RulesMet
    <3>2. first \in 1 .. k /\ RuleOrder[first] \in text
      BY <3>1, <2>1, <2>3 DEF RulesMet
    <3>. QED  BY <3>2, <2>5
  <2>. QED  BY <2>6 DEF Free
<1>. QED  BY <1>1, <1>2

-----------------------------------------------------------------------------
(* Steps of a session. *)

LEMMA MovesAre ==
  ASSUME DialogueShaped, NEW p \in Sessions, NEW changes, DOMAIN changes \subseteq SessionFields, Moves(p, changes)
  PROVE  /\ DOMAIN talk' = Sessions /\ \A q \in Sessions \ {p} : talk'[q] = talk[q]
         /\ DOMAIN talk'[p] = SessionFields
         /\ \A x \in SessionFields : talk'[p][x] = IF x \in DOMAIN changes THEN changes[x] ELSE talk[p][x]
<1>1. talk'[p] = Over(changes, talk[p])
  BY DEF DialogueShaped, Moves
<1>2. DOMAIN talk[p] = SessionFields
  BY DEF DialogueShaped, Fits
<1>. QED  BY <1>1, <1>2 DEF DialogueShaped, Moves, Over

LEMMA FieldsAre ==
  SessionFields = {"at", "read", "status", "quotation", "letter", "task", "text", "resumed", "row", "result", "batch", "done"}
BY DEF SessionFields, Quiet

LEMMA StatusIs ==
  ASSUME DialogueShaped, NEW p \in Sessions, NEW mark, SetsStatus(p, mark)
  PROVE  DOMAIN dialogue' = DOMAIN dialogue /\ dialogue'.status \in {dialogue.status, mark}
BY DEF DialogueShaped, SetsStatus, Assigned

\* A message more at the end of the dialogue.
LEMMA AddsIs ==
  ASSUME DialogueShaped, NEW m \in ScriptRow, Adds(m)
  PROVE  /\ script' \in Seq(ScriptRow) /\ Len(script) \in Nat /\ Len(script') = Len(script) + 1
         /\ DOMAIN script = 1 .. Len(script) /\ DOMAIN script' = 1 .. (Len(script) + 1)
         /\ \A i \in DOMAIN script : script'[i] = script[i]
         /\ script'[Len(script) + 1] = m
BY DEF DialogueShaped, Adds

-----------------------------------------------------------------------------
(* Steps of people. *)

\* What a session may become.
Proper(changes) ==
  /\ DOMAIN changes \subseteq SessionFields
  /\ "at" \in DOMAIN changes => changes.at \in Places
  /\ "letter" \in DOMAIN changes => changes.letter \in SandboxLetters \cup {None}
  /\ "text" \in DOMAIN changes => changes.text \in SUBSET STRING
  /\ "read" \in DOMAIN changes => changes.read \subseteq DOMAIN script'
  /\ "batch" \in DOMAIN changes => changes.batch \subseteq SandboxLetters
  /\ "result" \in DOMAIN changes => changes.result \in Nat

LEMMA MovesFits ==
  ASSUME DialogueShaped, DOMAIN script \subseteq DOMAIN script',
         NEW p \in Sessions, NEW changes, Proper(changes), Moves(p, changes)
  PROVE  /\ DOMAIN talk' = Sessions /\ \A q \in Sessions : Fits(talk[q])'
         /\ \A q \in Sessions \ {p} : talk'[q] = talk[q]
<1>1. DOMAIN changes \subseteq SessionFields
  BY DEF Proper
<1>2. /\ DOMAIN talk' = Sessions /\ \A q \in Sessions \ {p} : talk'[q] = talk[q]
      /\ DOMAIN talk'[p] = SessionFields
      /\ \A x \in SessionFields : talk'[p][x] = IF x \in DOMAIN changes THEN changes[x] ELSE talk[p][x]
  BY <1>1, MovesAre
<1>3. \A q \in Sessions : Fits(talk[q])
  BY DEF DialogueShaped
<1>4. ASSUME NEW q \in Sessions \ {p} PROVE Fits(talk[q])'
  BY <1>2, <1>3 DEF Fits
<1>5. Fits(talk[p])'
  BY <1>2, <1>3, FieldsAre DEF Fits, Proper
<1>. QED  BY <1>2, <1>4, <1>5

\* A person's session touches no letter: it may add a message of its own and
\* send a mail that answers none.
Beside(c) ==
  /\ wording' = wording /\ refs' = refs /\ weighed' = weighed
  /\ DOMAIN talk' = Sessions /\ \A q \in Sessions : Fits(talk[q])'
  /\ \A q \in Sessions \ {c} : talk'[q] = talk[q]
  /\ talk'[c].letter = None
  /\ DOMAIN dialogue' = DOMAIN dialogue
  /\ \/ script' = script /\ charged' = charged
     \/ \E m \in ScriptRow :
          /\ Adds(m) /\ m.letter = None /\ charged' \in {charged, charged + 1}
          /\ m.by = "assistant" /\ m.mail # None => charged' = charged + 1
  /\ \/ sent' = sent
     \/ \E thread \in SUBSET Nat : sent' = Append(sent, [to |-> None, thread |-> thread])

LEMMA GrowsBeside ==
  ASSUME DialogueShaped, NEW m \in ScriptRow, Adds(m)
  PROVE  DOMAIN script \subseteq DOMAIN script' /\ \A p \in Sessions : WithAdded(p) \subseteq DOMAIN script'
<1>1. \A p \in Sessions : talk[p].read \subseteq DOMAIN script
  BY DEF DialogueShaped, Fits
<1>. QED  BY <1>1, AddsIs DEF WithAdded

\* A session that moves, with the dialogue as it was or with a status of its own.
LEMMA BesideBy ==
  ASSUME DialogueShaped, NEW c \in Clerks, NEW changes, Proper(changes), Moves(c, changes),
         "letter" \in DOMAIN changes => changes.letter = None,
         UNCHANGED <<wording, refs, weighed>>, DOMAIN dialogue' = DOMAIN dialogue,
         \/ script' = script /\ charged' = charged
         \/ \E m \in ScriptRow :
              /\ Adds(m) /\ m.letter = None /\ charged' \in {charged, charged + 1}
              /\ m.by = "assistant" /\ m.mail # None => charged' = charged + 1,
         \/ sent' = sent
         \/ \E thread \in SUBSET Nat : sent' = Append(sent, [to |-> None, thread |-> thread])
  PROVE  Beside(c)
<1>1. DOMAIN script \subseteq DOMAIN script'
  BY GrowsBeside
<1>2. c \in Sessions
  BY DEF Sessions
<1>3. /\ DOMAIN talk' = Sessions /\ \A q \in Sessions : Fits(talk[q])'
      /\ \A q \in Sessions \ {c} : talk'[q] = talk[q]
  BY <1>1, <1>2, MovesFits
<1>4. talk'[c].letter = None
  <2>1. "letter" \in SessionFields /\ DOMAIN changes \subseteq SessionFields
    BY FieldsAre DEF Proper
  <2>2. talk[c].letter = None
    BY DEF DialogueShaped
  <2>. QED  BY <1>2, <2>1, <2>2, MovesAre
<1>. QED  BY <1>3, <1>4 DEF Beside

\* Nothing is complete and nobody hands over who did not.
Steady ==
  /\ dialogue'.status = "complete" => dialogue.status = "complete"
  /\ \A p \in Sessions : talk'[p].task = "handoff" => talk[p].task = "handoff"

LEMMA SteadyBy ==
  ASSUME DialogueShaped, NEW p \in Sessions, NEW changes, DOMAIN changes \subseteq SessionFields, Moves(p, changes),
         "task" \in DOMAIN changes => changes.task # "handoff",
         dialogue'.status = "complete" => dialogue.status = "complete"
  PROVE  Steady
<1>1. "task" \in SessionFields
  BY FieldsAre
<1>. QED  BY <1>1, MovesAre DEF Steady

LEMMA QuietIs ==
  ASSUME NEW more, Proper(more), DOMAIN more \subseteq {"status", "read"}
  PROVE  /\ Proper(Quiet) /\ Quiet.letter = None
         /\ Proper(Over(Quiet, more)) /\ Over(Quiet, more).letter = None
         /\ Proper(Over(Place("closes"), more)) /\ "letter" \notin DOMAIN Over(Place("closes"), more)
<1>1. Proper(Quiet) /\ Quiet.letter = None
  BY DEF Proper, Quiet, SessionFields, Places, Silence, None
<1>2. Proper(Over(Quiet, more)) /\ Over(Quiet, more).letter = None
  BY <1>1, FieldsAre DEF Proper, Over, SessionFields, Quiet
<1>3. Proper(Over(Place("closes"), more)) /\ "letter" \notin DOMAIN Over(Place("closes"), more)
  <2>. DEFINE o == Over(Place("closes"), more)
  <2>1. DOMAIN o = {"at"} \cup DOMAIN more /\ o.at = "closes" /\ \A x \in DOMAIN more \ {"at"} : o[x] = more[x]
    BY DEF Over, Place
  <2>. HIDE DEF o
  <2>2. Proper(o)
    BY <2>1, FieldsAre DEF Proper, Places
  <2>. QED  BY <2>1, <2>2 DEF o
<1>. QED  BY <1>1, <1>2, <1>3

LEMMA TextsAre ==
  /\ \A w \in Wordings, l \in SandboxLetters : w[l] \in SUBSET STRING
  /\ Typed \subseteq SUBSET STRING /\ DemoText \in SUBSET STRING /\ Silence \in SUBSET STRING
  /\ SandboxLetters \subseteq Nat /\ None \in Nat /\ None \notin SandboxLetters
  /\ Robot \notin Clerks /\ Robot \in Sessions /\ Clerks \subseteq Sessions
BY DialogueAssumption DEF Silence, None, Sessions

LEMMA RowIs ==
  ASSUME NEW by \in Speakers, NEW text \in SUBSET STRING, NEW mail \in Nat
  PROVE  LET m == Message(by, text, None, mail) IN m \in ScriptRow /\ m.by = by /\ m.letter = None /\ m.mail = mail
BY DEF Message, ScriptRow

LEMMA OpensBeside ==
  ASSUME DialogueShaped, NEW c \in Clerks, NEW opening \in Openings, Opens(c, opening)
  PROVE  Beside(c) /\ Steady
<1>1. PICK task \in {"first", "given"} :
        Moves(c, [at |-> IF opening.simulation = "supplier_ai" THEN "asks" ELSE "weighs",
                  status |-> "generating", task |-> task])
  BY DEF Opens
<1>2. DOMAIN opening = {"simulation", "delivery"}
  BY DialogueAssumption
<1>3. DOMAIN dialogue' = DOMAIN dialogue /\ dialogue'.status = "generating"
  BY <1>2 DEF Opens, Over, DialogueShaped
<1>4. Proper([at |-> IF opening.simulation = "supplier_ai" THEN "asks" ELSE "weighs",
              status |-> "generating", task |-> task])
  BY FieldsAre DEF Proper, Places, LetterPlaces
<1>5. Steady
  BY <1>1, <1>3, <1>4, SteadyBy, TextsAre DEF Proper
<1>. QED  BY <1>5, <1>1, <1>3, <1>4, BesideBy DEF Opens, mailbox

LEMMA TakesUpBeside ==
  ASSUME DialogueShaped, NEW c \in Clerks, NEW task, task # "handoff", NEW text \in SUBSET STRING, TakesUp(c, task, text)
  PROVE  Beside(c) /\ Steady
<1>. DEFINE first == [at |-> "stores", task |-> task, text |-> text,
                      resumed |-> /\ QuoteComplete(Collected(AllTexts))
                                  /\ task = "resume" \/ dialogue.status \in {"previewed", "sent"}]
            changes == Over(first, View)
<1>1. Moves(c, changes)
  BY DEF TakesUp
<1>2. /\ DOMAIN changes = {"at", "task", "text", "resumed", "read", "status", "quotation"}
      /\ changes.at = "stores" /\ changes.text = text /\ changes.read = DOMAIN script
  BY DEF Over, View
<1>6. changes.task = task
  BY DEF Over
<1>. HIDE DEF changes
<1>3. Proper(changes)
  BY <1>2, FieldsAre DEF Proper, Places, LetterPlaces, TakesUp, rows
<1>4. "letter" \notin DOMAIN changes
  BY <1>2
<1>5. Steady
  BY <1>1, <1>3, <1>6, SteadyBy, TextsAre DEF Proper, TakesUp, rows
<1>. QED  BY <1>5, <1>1, <1>3, <1>4, BesideBy DEF TakesUp, mailbox, rows

LEMMA StoresAnswerBeside ==
  ASSUME DialogueShaped, NEW c \in Clerks, StoresAnswer(c)
  PROVE  Beside(c) /\ Steady
<1>. DEFINE m == Message("assistant", Silence, None, None)
<1>1. m \in ScriptRow /\ m.letter = None /\ m.mail = None
  BY RowIs, TextsAre DEF Speakers
<1>2. Adds(m) /\ Moves(c, Quiet) /\ SetsStatus(c, "previewed")
  BY DEF StoresAnswer
<1>. HIDE DEF m
<1>3. DOMAIN dialogue' = DOMAIN dialogue /\ dialogue'.status \in {dialogue.status, "previewed"}
  BY <1>2, StatusIs, TextsAre
<1>4. Proper(Quiet) /\ Quiet.letter = None
  BY DEF Proper, Quiet, SessionFields, Places, Silence, None
<1>5. Steady
  <2>1. Quiet.task # "handoff"
    BY DEF Quiet
  <2>. QED  BY <1>2, <1>3, <1>4, <2>1, SteadyBy, TextsAre DEF Proper
<1>. QED  BY <1>5, <1>1, <1>2, <1>3, <1>4, BesideBy DEF StoresAnswer, mailbox

LEMMA StoresTextBeside ==
  ASSUME DialogueShaped, NEW c \in Clerks, StoresText(c)
  PROVE  Beside(c) /\ Steady
<1>. DEFINE by == IF dialogue.simulation = "buyer_ai" THEN "supplier" ELSE "buyer"
            m == Message(by, talk[c].text, None, None)
            changes == [at |-> CASE dialogue.simulation = "supplier_ai" -> "simulates"
                        [] talk[c].task = "demo" -> "collects"
                        [] OTHER -> "weighs",
                        status |-> "generating", read |-> WithAdded(c)]
<1>1. m \in ScriptRow /\ m.letter = None /\ m.mail = None
  <2>1. by \in Speakers
    BY DEF Speakers
  <2>2. talk[c].text \in SUBSET STRING
    BY TextsAre DEF DialogueShaped, Fits
  <2>. QED  BY <2>1, <2>2, RowIs, TextsAre
<1>2. Adds(m) /\ Moves(c, changes) /\ SetsStatus(c, "generating")
  BY DEF StoresText
<1>. HIDE DEF m
<1>3. DOMAIN dialogue' = DOMAIN dialogue /\ dialogue'.status \in {dialogue.status, "generating"}
  BY <1>2, StatusIs, TextsAre
<1>4. WithAdded(c) \subseteq DOMAIN script'
  BY <1>1, <1>2, GrowsBeside, TextsAre
<1>5. Proper(changes) /\ "letter" \notin DOMAIN changes
  BY <1>4, FieldsAre DEF Proper, Places, LetterPlaces
<1>6. Steady
  BY <1>2, <1>3, <1>5, SteadyBy, TextsAre DEF Proper
<1>. QED  BY <1>6, <1>1, <1>2, <1>3, <1>5, BesideBy DEF StoresText, mailbox

LEMMA StoresFirstBeside ==
  ASSUME DialogueShaped, NEW c \in Clerks, StoresFirst(c)
  PROVE  Beside(c) /\ Steady
<1>. DEFINE m == Message("buyer", Silence, None, None)
            changes == [at |-> "simulates", read |-> WithAdded(c)]
<1>1. m \in ScriptRow /\ m.letter = None /\ m.mail = None
  BY RowIs, TextsAre DEF Speakers
<1>2. Adds(m) /\ Moves(c, changes)
  BY DEF StoresFirst
<1>. HIDE DEF m
<1>4. WithAdded(c) \subseteq DOMAIN script'
  BY <1>1, <1>2, GrowsBeside, TextsAre
<1>5. Proper(changes) /\ "letter" \notin DOMAIN changes
  BY <1>4, FieldsAre DEF Proper, Places, LetterPlaces
<1>6. Steady
  BY <1>2, <1>5, SteadyBy, TextsAre DEF Proper, StoresFirst
<1>. QED  BY <1>6, <1>1, <1>2, <1>5, BesideBy DEF StoresFirst, mailbox

LEMMA SimulatesBeside ==
  ASSUME DialogueShaped, NEW c \in Clerks, Simulates(c)
  PROVE  Beside(c) /\ Steady
<1>1. ASSUME NEW text \in Typed,
             Adds(Message("supplier", text, None, None)), SetsStatus(c, "previewed"),
             Moves(c, [at |-> "collects", status |-> "previewed", read |-> WithAdded(c)])
      PROVE  Beside(c) /\ Steady
  <2>. DEFINE m == Message("supplier", text, None, None)
              changes == [at |-> "collects", status |-> "previewed", read |-> WithAdded(c)]
  <2>1. m \in ScriptRow /\ m.letter = None /\ m.mail = None
    BY RowIs, TextsAre DEF Speakers
  <2>2. Adds(m) /\ Moves(c, changes)
    BY <1>1
  <2>. HIDE DEF m
  <2>3. DOMAIN dialogue' = DOMAIN dialogue /\ dialogue'.status \in {dialogue.status, "previewed"}
    BY <1>1, StatusIs, TextsAre
  <2>4. WithAdded(c) \subseteq DOMAIN script'
    BY <2>1, <2>2, GrowsBeside, TextsAre
  <2>5. Proper(changes) /\ "letter" \notin DOMAIN changes
    BY <2>4, FieldsAre DEF Proper, Places, LetterPlaces
  <2>6. Steady
    BY <2>2, <2>3, <2>5, SteadyBy, TextsAre DEF Proper
  <2>. QED  BY <2>6, <2>1, <2>2, <2>3, <2>5, BesideBy DEF Simulates, mailbox
<1>2. ASSUME SetsStatus(c, "llm_error"), Moves(c, Quiet), script' = script
      PROVE  Beside(c) /\ Steady
  <2>1. DOMAIN dialogue' = DOMAIN dialogue /\ dialogue'.status \in {dialogue.status, "llm_error"}
    BY <1>2, StatusIs, TextsAre
  <2>2. Proper(Quiet) /\ Quiet.letter = None
    BY DEF Proper, Quiet, SessionFields, Places, Silence, None
  <2>3. Steady
    <3>1. Quiet.task # "handoff"
      BY DEF Quiet
    <3>. QED  BY <1>2, <2>1, <2>2, <3>1, SteadyBy, TextsAre DEF Proper
  <2>. QED  BY <2>3, <1>2, <2>1, <2>2, BesideBy DEF Simulates, mailbox
<1>. QED  BY <1>1, <1>2 DEF Simulates

LEMMA QuietFits == Proper(Quiet) /\ Quiet.letter = None /\ Quiet.task = "none" /\ Quiet.at = "idle" /\ Quiet.read = {}
BY DEF Proper, Quiet, SessionFields, Places, Silence, None

\* A person is through with a message: the session is over.
LEMMA EndsBeside ==
  ASSUME DialogueShaped, NEW c \in Clerks, NEW mark, NEW forgets \in BOOLEAN, Ends(c, mark, forgets),
         UNCHANGED <<script, charged, sent, wording, refs, weighed>>
  PROVE  /\ Beside(c)
         /\ \A p \in Sessions : talk'[p].task = "handoff" => talk[p].task = "handoff"
<1>1. Leaves(c, mark, forgets) = Quiet
  BY TextsAre DEF Leaves
<1>2. SetsStatus(c, mark) /\ Moves(c, Quiet)
  BY <1>1 DEF Ends
<1>3. DOMAIN dialogue' = DOMAIN dialogue /\ dialogue'.status \in {dialogue.status, mark}
  BY <1>2, StatusIs, TextsAre
<1>4. Beside(c)
  BY <1>2, <1>3, QuietFits, BesideBy
<1>6. \A p \in Sessions : talk'[p].task = "handoff" => talk[p].task = "handoff"
  BY <1>2, QuietFits, MovesAre, FieldsAre, TextsAre DEF Proper
<1>. QED  BY <1>4, <1>6

LEMMA EndsSteady ==
  ASSUME DialogueShaped, NEW c \in Clerks, NEW mark, NEW forgets \in BOOLEAN, Ends(c, mark, forgets), mark # "complete"
  PROVE  Steady
<1>1. Leaves(c, mark, forgets) = Quiet
  BY TextsAre DEF Leaves
<1>2. SetsStatus(c, mark) /\ Moves(c, Quiet)
  BY <1>1 DEF Ends
<1>3. dialogue'.status \in {dialogue.status, mark}
  BY <1>2, StatusIs, TextsAre
<1>. QED  BY <1>2, <1>3, QuietFits, SteadyBy, TextsAre DEF Proper

\* One that goes on, and changes nothing but itself.
LEMMA PlaceBeside ==
  ASSUME DialogueShaped, NEW c \in Clerks, NEW place \in Places, Moves(c, Place(place)),
         UNCHANGED <<script, charged, sent, wording, refs, weighed, dialogue>>
  PROVE  Beside(c) /\ Steady
<1>1. Proper(Place(place)) /\ DOMAIN Place(place) = {"at"}
  BY FieldsAre DEF Proper, Place
<1>2. Steady
  BY <1>1, SteadyBy, TextsAre DEF Proper
<1>. QED  BY <1>1, <1>2, BesideBy

LEMMA VerdictBeside ==
  ASSUME DialogueShaped, NEW c \in Clerks, NEW verdict, Verdict(c, verdict)
  PROVE  weighed' = weighed
BY DEF DialogueShaped, Verdict

LEMMA WeighsBeside ==
  ASSUME DialogueShaped, NEW c \in Clerks, Weighs(c)
  PROVE  Beside(c) /\ Steady
<1>1. UNCHANGED <<script, charged, sent, wording, refs>>
  BY DEF Weighs, mailbox
<1>2. CASE Moves(c, Place("judges")) /\ UNCHANGED <<dialogue, weighed>>
  BY <1>1, <1>2, PlaceBeside DEF Places, LetterPlaces
<1>3. CASE Ends(c, "escalated", FALSE) /\ Verdict(c, "denied")
  BY <1>1, <1>3, VerdictBeside, EndsBeside, EndsSteady
<1>. QED  BY <1>2, <1>3 DEF Weighs

LEMMA JudgesFirstBeside ==
  ASSUME DialogueShaped, NEW c \in Clerks, JudgesFirst(c)
  PROVE  Beside(c) /\ Steady
<1>1. UNCHANGED <<script, charged, sent, wording, refs, weighed>>
  BY DEF JudgesFirst, mailbox
<1>2. CASE Moves(c, Place("delivers")) /\ UNCHANGED dialogue
  BY <1>1, <1>2, PlaceBeside DEF Places, LetterPlaces
<1>3. CASE Moves(c, Place("writes")) /\ UNCHANGED dialogue
  BY <1>1, <1>3, PlaceBeside DEF Places, LetterPlaces
<1>4. CASE Ends(c, "escalated", FALSE)
  BY <1>1, <1>4, EndsBeside, EndsSteady
<1>. QED  BY <1>2, <1>3, <1>4 DEF JudgesFirst

LEMMA JudgesBeside ==
  ASSUME DialogueShaped, NEW c \in Clerks, Judges(c)
  PROVE  Beside(c) /\ Steady
<1>1. UNCHANGED <<script, charged, sent, wording, refs>> /\ Verdict(c, "open")
  BY DEF Judges, mailbox
<1>2. CASE Moves(c, Place("collects")) /\ UNCHANGED dialogue
  BY <1>1, <1>2, VerdictBeside, PlaceBeside DEF Places
<1>3. CASE Ends(c, "escalated", FALSE)
  BY <1>1, <1>3, VerdictBeside, EndsBeside, EndsSteady
<1>. QED  BY <1>2, <1>3, TextsAre DEF Judges

LEMMA WritesBeside ==
  ASSUME DialogueShaped, NEW c \in Clerks, Writes(c)
  PROVE  Beside(c) /\ Steady
<1>1. UNCHANGED <<sent, wording, refs, weighed>>
  BY DEF Writes, mailbox
<1>2. CASE Ends(c, "llm_error", TRUE) /\ UNCHANGED <<script, charged>>
  BY <1>1, <1>2, EndsBeside, EndsSteady
<1>3. CASE Moves(c, Place("delivers")) /\ UNCHANGED <<dialogue, script, charged>>
  BY <1>1, <1>3, PlaceBeside DEF Places, LetterPlaces
<1>. QED  BY <1>2, <1>3, TextsAre DEF Writes

LEMMA DeliversBeside ==
  ASSUME DialogueShaped, NEW c \in Clerks, Delivers(c)
  PROVE  Beside(c) /\ Steady
<1>1. UNCHANGED <<script, charged, wording, refs, weighed, dialogue>>
  BY DEF Delivers, mailbox, rows
<1>2. PICK result \in Nat : Moves(c, [at |-> "records", result |-> result]) /\ (sent' = sent \/ Mails(c))
  <2>1. Len(sent) + 1 \in Nat /\ None \in Nat
    BY DEF DialogueShaped, None
  <2>. QED  BY <2>1 DEF Delivers
<1>3. sent' = sent \/ \E thread \in SUBSET Nat : sent' = Append(sent, [to |-> None, thread |-> thread])
  BY <1>2 DEF Mails, Thread, DialogueShaped
<1>4. Proper([at |-> "records", result |-> result])
  BY FieldsAre DEF Proper, Places, LetterPlaces
<1>5. Steady
  BY <1>1, <1>2, <1>4, SteadyBy, TextsAre DEF Proper
<1>. QED  BY <1>1, <1>2, <1>3, <1>4, <1>5, BesideBy

LEMMA DiesBeside ==
  ASSUME DialogueShaped, NEW c \in Clerks, SessionDies(c)
  PROVE  Beside(c) /\ Steady
<1>1. UNCHANGED <<script, charged, wording, refs, weighed, dialogue, sent>> /\ Moves(c, Quiet)
  BY DEF SessionDies, mailbox, rows
<1>2. Steady
  BY <1>1, QuietFits, SteadyBy, TextsAre DEF Proper
<1>. QED  BY <1>1, <1>2, QuietFits, BesideBy

\* The answer of a person's request is stored with its outcome.
LEMMA AnswerBeside ==
  ASSUME DialogueShaped, NEW c \in Clerks, NEW mail \in Nat, NEW mark, mark # "complete",
         Adds(Message("assistant", Silence, None, mail)), SetsStatus(c, mark), charged' = charged + 1,
         NEW base, base \in {Quiet, Place("closes")},
         Moves(c, Over(base, [status |-> mark, read |-> WithAdded(c)])),
         UNCHANGED <<sent, wording, refs, weighed>>
  PROVE  Beside(c) /\ Steady
<1>. DEFINE m == Message("assistant", Silence, None, mail)
            more == [status |-> mark, read |-> WithAdded(c)]
            changes == Over(base, more)
<1>1. m \in ScriptRow /\ m.letter = None /\ Adds(m)
  BY RowIs, TextsAre DEF Speakers
<1>. HIDE DEF m
<1>2. WithAdded(c) \subseteq DOMAIN script'
  BY <1>1, GrowsBeside, TextsAre
<1>3. Proper(more) /\ DOMAIN more \subseteq {"status", "read"}
  BY <1>2, FieldsAre DEF Proper
<1>4. Proper(changes) /\ ("letter" \in DOMAIN changes => changes.letter = None)
  BY <1>3, QuietIs
<1>5. "task" \in DOMAIN changes => changes.task # "handoff"
  BY QuietFits DEF Over, Place
<1>. HIDE DEF changes
<1>6. Moves(c, changes)
  BY DEF changes
<1>7. DOMAIN dialogue' = DOMAIN dialogue /\ dialogue'.status \in {dialogue.status, mark}
  BY StatusIs, TextsAre
<1>8. Steady
  BY <1>4, <1>5, <1>6, <1>7, SteadyBy, TextsAre DEF Proper
<1>. QED  BY <1>1, <1>4, <1>6, <1>7, <1>8, BesideBy

LEMMA PreviewsBeside ==
  ASSUME DialogueShaped, NEW c \in Clerks, Previews(c)
  PROVE  Beside(c) /\ Steady
<1>1. AfterAnswer(c) \in {Quiet, Place("closes")} /\ None \in Nat
  BY DEF AfterAnswer, None
<1>. QED  BY <1>1, AnswerBeside DEF Previews, mailbox

LEMMA RecordsBeside ==
  ASSUME DialogueShaped, NEW c \in Clerks, RecordsRequest(c)
  PROVE  Beside(c) /\ Steady
<1>. DEFINE base == IF talk[c].result = None THEN Quiet ELSE AfterAnswer(c)
<1>1. base \in {Quiet, Place("closes")} /\ talk[c].result \in Nat /\ Outcome(c) # "complete"
  BY TextsAre DEF AfterAnswer, Outcome, DialogueShaped, Fits
<1>2. Moves(c, Over(base, [status |-> Outcome(c), read |-> WithAdded(c)]))
  BY DEF RecordsRequest
<1>. HIDE DEF base
<1>. QED  BY <1>1, <1>2, AnswerBeside DEF RecordsRequest, mailbox

\* What is collected may have come from an earlier state only.
LEMMA CollectsBeside ==
  ASSUME DialogueShaped, NEW c \in Clerks, Collects(c)
  PROVE  /\ Beside(c) /\ script' = script /\ dialogue'.status = dialogue.status
         /\ talk'[c].task = "handoff" =>
              talk[c].task = "handoff" \/ (GoalReached(Collected(KnownTexts(c))) /\ Chemist)
<1>. DEFINE quote == Collected(KnownTexts(c))
            changes == AfterCollecting(c, quote)
<1>1. UNCHANGED <<script, charged, wording, refs, weighed, sent>> /\ SyncsQuotation(c, quote) /\ Moves(c, changes)
  BY DEF Collects, mailbox
<1>2. DOMAIN dialogue' = DOMAIN dialogue /\ dialogue'.status = dialogue.status
  <2>. HIDE DEF quote
  <2>. QED  BY <1>1 DEF SyncsQuotation, DialogueShaped
<1>3. \/ changes \in {Quiet, Place("closes"), Place("writes")}
      \/ changes = [at |-> "delivers", task |-> "handoff"] /\ GoalReached(quote) /\ Chemist
  <2>. HIDE DEF quote
  <2>. QED  BY DEF AfterCollecting
<1>. HIDE DEF changes, quote
<1>4. \A place \in {"closes", "writes"} : Proper(Place(place)) /\ DOMAIN Place(place) = {"at"}
  BY FieldsAre DEF Proper, Place, Places, LetterPlaces
<1>5. ASSUME changes = [at |-> "delivers", task |-> "handoff"] PROVE Proper(changes) /\ "letter" \notin DOMAIN changes
  BY <1>5, FieldsAre DEF Proper, Places, LetterPlaces
<1>6. Proper(changes) /\ ("letter" \in DOMAIN changes => changes.letter = None)
  BY <1>3, <1>4, <1>5, QuietFits
<1>7. Beside(c)
  BY <1>1, <1>2, <1>6, BesideBy
<1>8. CASE changes \in {Quiet, Place("closes"), Place("writes")}
  <2>1. "task" \in DOMAIN changes => changes.task # "handoff"
    BY <1>8, <1>4, QuietFits
  <2>2. Steady
    BY <1>1, <1>2, <1>6, <2>1, SteadyBy, TextsAre DEF Proper
  <2>. QED  BY <1>1, <1>2, <1>7, <2>2, TextsAre DEF Steady
<1>. QED  BY <1>1, <1>2, <1>3, <1>7, <1>8 DEF quote

LEMMA ClosesBeside ==
  ASSUME DialogueShaped, NEW c \in Clerks, Closes(c)
  PROVE  /\ Beside(c) /\ script' = script
         /\ \A p \in Sessions : talk'[p].task = "handoff" => talk[p].task = "handoff"
         /\ dialogue'.status = "complete" => \/ dialogue.status = "complete" \/ talk[c].task = "handoff"
                                             \/ QuoteComplete(Collected(KnownTexts(c)))
<1>. DEFINE full == talk[c].task = "handoff" \/ QuoteComplete(Collected(KnownTexts(c)))
<1>1. Ends(c, IF full THEN "complete" ELSE "previewed", FALSE) /\ UNCHANGED <<script, charged, wording, refs, weighed, sent>>
  BY DEF Closes, mailbox
<1>2. full \/ ~full
  OBVIOUS
<1>. HIDE DEF full
<1>3. dialogue'.status \in {dialogue.status, IF full THEN "complete" ELSE "previewed"}
  BY <1>1, StatusIs, TextsAre DEF Ends
<1>4. dialogue'.status = "complete" => dialogue.status = "complete" \/ full
  BY <1>3
<1>5. Beside(c) /\ \A p \in Sessions : talk'[p].task = "handoff" => talk[p].task = "handoff"
  BY <1>1, EndsBeside
<1>. QED  BY <1>1, <1>4, <1>5 DEF full

LEMMA PeopleBeside ==
  ASSUME DialogueShaped, NEW c \in Clerks, Asks(c) \/ RequestStep(c) \/ SessionDies(c)
  PROVE  Beside(c)
<1>1. CASE \E opening \in Openings : Opens(c, opening)
  BY <1>1, OpensBeside
<1>2. CASE \E task \in {"continue", "resume"}, text \in Typed : TakesUp(c, task, text)
  BY <1>2, TakesUpBeside, TextsAre
<1>3. CASE TakesUp(c, "demo", DemoText)
  BY <1>3, TakesUpBeside, TextsAre
<1>4. CASE TakesUp(c, "answer", Silence)
  BY <1>4, TakesUpBeside, TextsAre
<1>5. CASE RequestStep(c)
  BY <1>5, StoresAnswerBeside, StoresTextBeside, StoresFirstBeside, SimulatesBeside, WeighsBeside, JudgesFirstBeside,
     JudgesBeside, CollectsBeside, ClosesBeside, WritesBeside, PreviewsBeside, DeliversBeside, RecordsBeside
     DEF RequestStep
<1>6. CASE SessionDies(c)
  BY <1>6, DiesBeside
<1>. QED  BY <1>1, <1>2, <1>3, <1>4, <1>5, <1>6 DEF Asks

\* A dialogue is complete by the end of one request, and handed over by another.
LEMMA PeopleSteady ==
  ASSUME DialogueShaped, NEW c \in Clerks, Asks(c) \/ RequestStep(c) \/ SessionDies(c), ~Collects(c), ~Closes(c)
  PROVE  Steady
<1>1. CASE \E opening \in Openings : Opens(c, opening)
  BY <1>1, OpensBeside
<1>2. CASE \E task \in {"continue", "resume"}, text \in Typed : TakesUp(c, task, text)
  BY <1>2, TakesUpBeside, TextsAre
<1>3. CASE TakesUp(c, "demo", DemoText)
  BY <1>3, TakesUpBeside, TextsAre
<1>4. CASE TakesUp(c, "answer", Silence)
  BY <1>4, TakesUpBeside, TextsAre
<1>5. CASE RequestStep(c)
  BY <1>5, StoresAnswerBeside, StoresTextBeside, StoresFirstBeside, SimulatesBeside, WeighsBeside, JudgesFirstBeside,
     JudgesBeside, WritesBeside, PreviewsBeside, DeliversBeside, RecordsBeside
     DEF RequestStep
<1>6. CASE SessionDies(c)
  BY <1>6, DiesBeside
<1>. QED  BY <1>1, <1>2, <1>3, <1>4, <1>5, <1>6 DEF Asks

-----------------------------------------------------------------------------
(* What a longer dialogue and a longer list of mails keep. *)

LEMMA ScriptIs ==
  ASSUME DialogueShaped
  PROVE  /\ Len(script) \in Nat /\ DOMAIN script = 1 .. Len(script) /\ \A i \in DOMAIN script : script[i] \in ScriptRow
         /\ Len(sent) \in Nat /\ DOMAIN sent = 1 .. Len(sent)
         /\ \A m \in DOMAIN sent : sent[m].to \in SandboxLetters \cup {None} /\ sent[m].thread \in SUBSET Nat
<1>1. /\ Len(script) \in Nat /\ DOMAIN script = 1 .. Len(script) /\ \A i \in DOMAIN script : script[i] \in ScriptRow
      /\ Len(sent) \in Nat /\ DOMAIN sent = 1 .. Len(sent)
  BY DEF DialogueShaped
<1>. DEFINE SentMail == [to : SandboxLetters \cup {None}, thread : SUBSET Nat]
<1>3. sent \in Seq(SentMail)
  BY DEF DialogueShaped
<1>. HIDE DEF SentMail
<1>4. \A m \in DOMAIN sent : sent[m] \in SentMail
  BY <1>3
<1>2. \A m \in DOMAIN sent : sent[m] \in [to : SandboxLetters \cup {None}, thread : SUBSET Nat]
  BY <1>4 DEF SentMail
<1>. QED  BY <1>1, <1>2

LEMMA StoredAfter ==
  ASSUME DialogueShaped, NEW m \in ScriptRow, Adds(m)
  PROVE  /\ \A l \in SandboxLetters : IsStored(l)' <=> IsStored(l) \/ m.letter = l
         /\ Opened' <=> Opened \/ (m.by = "assistant" /\ m.mail # None)
BY AddsIs DEF IsStored, Opened

\* Messages once read are known for ever; what is added is read by whoever adds it.
LEMMA UnansweredBefore ==
  ASSUME DialogueShaped, NEW m \in ScriptRow, Adds(m), Known \subseteq Known', NEW l \in SandboxLetters, Unanswered(l)'
  PROVE  Unanswered(l)
<1>1. /\ DOMAIN script \subseteq DOMAIN script' /\ DOMAIN script \subseteq Nat
      /\ \A i \in DOMAIN script : script'[i] = script[i]
  BY AddsIs
<1>. QED  BY <1>1 DEF Unanswered

LEMMA UnansweredSame ==
  ASSUME DialogueShaped, Known \subseteq Known', script' = script, NEW l \in SandboxLetters, Unanswered(l)'
  PROVE  Unanswered(l)
BY DEF Unanswered

LEMMA SentAfter ==
  ASSUME DialogueShaped, NEW to \in SandboxLetters \cup {None}, NEW thread \in SUBSET Nat,
         sent' = Append(sent, [to |-> to, thread |-> thread])
  PROVE  /\ sent' \in Seq([to : SandboxLetters \cup {None}, thread : SUBSET Nat])
         /\ \A l \in SandboxLetters : AnswersTo(l)' = AnswersTo(l) \cup (IF to = l THEN {Len(sent) + 1} ELSE {})
         /\ Responses' = Responses \cup (IF to # None THEN {Len(sent) + 1} ELSE {})
         /\ Len(sent) + 1 \notin Responses
<1>1. /\ sent' \in Seq([to : SandboxLetters \cup {None}, thread : SUBSET Nat])
      /\ Len(sent) \in Nat /\ DOMAIN sent = 1 .. Len(sent) /\ DOMAIN sent' = 1 .. (Len(sent) + 1)
      /\ \A i \in DOMAIN sent : sent'[i] = sent[i]
      /\ sent'[Len(sent) + 1].to = to
  BY DEF DialogueShaped
<1>2. \A l \in SandboxLetters : AnswersTo(l)' = AnswersTo(l) \cup (IF to = l THEN {Len(sent) + 1} ELSE {})
  BY <1>1 DEF AnswersTo
<1>3. Responses' = Responses \cup (IF to # None THEN {Len(sent) + 1} ELSE {})
  BY <1>1 DEF Responses
<1>4. Len(sent) + 1 \notin Responses
  BY <1>1 DEF Responses
<1>. QED  BY <1>1, <1>2, <1>3, <1>4

LEMMA CountIs ==
  ASSUME DialogueShaped
  PROVE  /\ IsFiniteSet(Responses) /\ Cardinality(Responses) \in Nat
         /\ \A l \in SandboxLetters : IsFiniteSet(AnswersTo(l)) /\ Cardinality(AnswersTo(l)) \in Nat
<1>0. Len(sent) \in Int /\ 1 \in Int
  BY ScriptIs
<1>1. IsFiniteSet(1 .. Len(sent))
  BY <1>0, FS_Interval
<1>2. Responses \subseteq 1 .. Len(sent) /\ \A l \in SandboxLetters : AnswersTo(l) \subseteq 1 .. Len(sent)
  BY ScriptIs DEF Responses, AnswersTo
<1>. QED  BY <1>1, <1>2, FS_Subset, FS_CardinalityType

-----------------------------------------------------------------------------
(* What people do leaves the worker's part alone. *)

LEMMA BesideShaped ==
  ASSUME DialogueShaped, NEW c \in Clerks, Beside(c)
  PROVE  DialogueShaped'
<1>1. script' \in Seq(ScriptRow) /\ charged' \in Nat
  BY AddsIs DEF Beside, DialogueShaped
<1>2. sent' \in Seq([to : SandboxLetters \cup {None}, thread : SUBSET Nat])
  BY SentAfter DEF Beside, DialogueShaped
<1>3. \A d \in Clerks : talk'[d].letter = None
  BY TextsAre DEF Beside, DialogueShaped
<1>. QED  BY <1>1, <1>2, <1>3 DEF Beside, DialogueShaped

LEMMA BesideLeaves ==
  ASSUME DialogueShaped, AtWork, RespondedOnce, Counted, NEW c \in Clerks, Beside(c)
  PROVE  AtWork' /\ RespondedOnce' /\ Counted'
<1>1. talk'[Robot] = talk[Robot] /\ wording' = wording /\ weighed' = weighed
  BY TextsAre DEF Beside
<1>2. /\ \A l \in SandboxLetters : AnswersTo(l)' = AnswersTo(l)
      /\ Responses' = Responses
  <2>1. CASE sent' = sent
    BY <2>1 DEF AnswersTo, Responses
  <2>2. ASSUME NEW thread \in SUBSET Nat, sent' = Append(sent, [to |-> None, thread |-> thread])
        PROVE  /\ \A l \in SandboxLetters : AnswersTo(l)' = AnswersTo(l)
               /\ Responses' = Responses
    BY <2>2, SentAfter, TextsAre
  <2>. QED  BY <2>1, <2>2 DEF Beside
<1>3. Known \subseteq Known' /\ (talk[Robot].read # {} => Known' = Known /\ Known \subseteq DOMAIN script)
  BY <1>1, AddsIs, TextsAre DEF Beside, Known, DialogueShaped, Fits
<1>4. /\ DOMAIN script \subseteq DOMAIN script' /\ DOMAIN script' \subseteq Nat
      /\ \A i \in DOMAIN script : script'[i] = script[i]
      /\ \A i \in DOMAIN script' \ DOMAIN script : script'[i].letter = None
  BY AddsIs, ScriptIs DEF Beside
<1>5. \A l \in SandboxLetters : IsStored(l)' <=> IsStored(l)
  BY <1>4, TextsAre DEF IsStored
<1>6. \A l \in SandboxLetters : Unanswered(l)' => Unanswered(l)
  BY UnansweredBefore, UnansweredSame, <1>3 DEF Beside
<1>7. talk[Robot].read # {} => \A l \in SandboxLetters : Unanswered(l) => Unanswered(l)'
  BY <1>3, <1>4, TextsAre DEF Unanswered
<1>8. AtWork'
  <2>1. Responding(talk[Robot]) => Responding(talk[Robot])'
    BY <1>4, <1>1 DEF Responding
  <2>2. talk[Robot].letter \in SandboxLetters \cup {None}
    BY TextsAre DEF DialogueShaped, Fits
  <2>. QED  BY <1>1, <1>2, <1>5, <1>7, <2>1, <2>2 DEF AtWork
<1>9. RespondedOnce'
  BY <1>1, <1>2, <1>6 DEF RespondedOnce
<1>10. Opened' => charged' > charged \/ (Opened /\ charged' >= charged)
  BY StoredAfter DEF Beside, DialogueShaped, Opened
<1>11. Opened => Opened'
  BY <1>4 DEF Opened
<1>12. charged' >= charged /\ charged \in Nat /\ charged' \in Nat
  BY DEF Beside, DialogueShaped
<1>13. Counted'
  <2>1. Cardinality(Responses) \in Nat /\ (Responses = {} => Cardinality(Responses) = 0)
    BY CountIs, FS_EmptySet
  <2>. QED  BY <1>1, <1>2, <1>5, <1>6, <1>10, <1>11, <1>12, <2>1 DEF Counted
<1>. QED  BY <1>8, <1>9, <1>13

-----------------------------------------------------------------------------
(* Steps of the worker. *)

\* The dialogue says what it said; a mail may have been put on record.
SameRows ==
  /\ DOMAIN script' = DOMAIN script
  /\ \A i \in DOMAIN script :
       /\ script'[i].by = script[i].by /\ script'[i].text = script[i].text /\ script'[i].letter = script[i].letter

\* The worker has put its letter aside.
LEMMA RestsKeeps ==
  ASSUME DialogueShaped, AtWork, RespondedOnce, Counted, SameRows, Opened' <=> Opened,
         UNCHANGED <<sent, charged, wording>>,
         talk'[Robot].at \in {"idle", "takes"}, talk'[Robot].letter = None, Known \subseteq Known',
         \A l \in SandboxLetters :
           \/ weighed'[l] = weighed[l]
           \/ IsStored(l) /\ (weighed'[l] = "open" => Cardinality(Responses) + 1 < MaxReplies)
  PROVE  AtWork' /\ RespondedOnce' /\ Counted'
<1>1. \A l \in SandboxLetters : AnswersTo(l)' = AnswersTo(l)
  BY DEF AnswersTo
<1>2. Responses' = Responses
  BY DEF Responses
<1>3. \A l \in SandboxLetters : IsStored(l)' <=> IsStored(l)
  BY DEF SameRows, IsStored
<1>4. \A l \in SandboxLetters : Unanswered(l)' => Unanswered(l)
  BY DEF SameRows, Unanswered
<1>5. AtWork'
  BY DEF AtWork, LetterPlaces
<1>6. RespondedOnce'
  BY <1>1, <1>4 DEF RespondedOnce
<1>7. Counted'
  BY <1>2, <1>3, <1>4 DEF Counted
<1>. QED  BY <1>5, <1>6, <1>7

\* A step of the worker that moves it, in tables that keep their shape.
LEMMA WorkerShaped ==
  ASSUME DialogueShaped, NEW changes, Proper(changes), Moves(Robot, changes), DOMAIN script \subseteq DOMAIN script',
         UNCHANGED <<wording, refs>>, DOMAIN dialogue' = DOMAIN dialogue,
         script' \in Seq(ScriptRow), sent' \in Seq([to : SandboxLetters \cup {None}, thread : SUBSET Nat]),
         charged' \in Nat, weighed' \in [SandboxLetters -> {"none", "open", "denied"}]
  PROVE  /\ DialogueShaped'
         /\ \A x \in SessionFields : talk'[Robot][x] = IF x \in DOMAIN changes THEN changes[x] ELSE talk[Robot][x]
<1>1. /\ DOMAIN talk' = Sessions /\ \A q \in Sessions : Fits(talk[q])'
      /\ \A q \in Sessions \ {Robot} : talk'[q] = talk[q]
  BY TextsAre, MovesFits
<1>2. \A c \in Clerks : talk'[c].letter = None
  BY <1>1, TextsAre DEF DialogueShaped
<1>3. \A x \in SessionFields : talk'[Robot][x] = IF x \in DOMAIN changes THEN changes[x] ELSE talk[Robot][x]
  BY MovesAre, TextsAre DEF Proper
<1>. QED  BY <1>1, <1>2, <1>3 DEF DialogueShaped

LEMMA WorkerIs ==
  ASSUME DialogueShaped, AtWork
  PROVE  /\ Fits(talk[Robot]) /\ Known \subseteq DOMAIN script
         /\ talk[Robot].at \in LetterPlaces => talk[Robot].letter \in SandboxLetters
         /\ talk[Robot].at \notin LetterPlaces => talk[Robot].letter = None
<1>1. Fits(talk[Robot])
  BY TextsAre DEF DialogueShaped
<1>. QED  BY <1>1 DEF AtWork, Fits, Known

\* What it becomes when it is through with a letter.
LEMMA LeavesIs ==
  ASSUME DialogueShaped, AtWork, NEW mark, NEW forgets \in BOOLEAN
  PROVE  LET left == Leaves(Robot, mark, forgets)
         IN  /\ DOMAIN left = SessionFields /\ left.at = "takes" /\ left.letter = None /\ left.task = "none"
             /\ left.read \in {{}, talk[Robot].read} /\ left.text = Silence
             /\ left.batch \subseteq SandboxLetters /\ left.result = None
<1>1. talk[Robot].batch \subseteq SandboxLetters
  BY WorkerIs DEF Fits
<1>. QED  BY <1>1 DEF Leaves, Quiet, SessionFields

LEMMA LeavesRests ==
  ASSUME DialogueShaped, AtWork, RespondedOnce, Counted, NEW mark, NEW forgets \in BOOLEAN,
         Moves(Robot, Leaves(Robot, mark, forgets)), SameRows, script' \in Seq(ScriptRow), Opened' <=> Opened,
         DOMAIN dialogue' = DOMAIN dialogue, UNCHANGED <<sent, charged, wording, refs>>,
         weighed' \in [SandboxLetters -> {"none", "open", "denied"}],
         \A l \in SandboxLetters :
           \/ weighed'[l] = weighed[l]
           \/ IsStored(l) /\ (weighed'[l] = "open" => Cardinality(Responses) + 1 < MaxReplies)
  PROVE  DialogueShaped' /\ AtWork' /\ RespondedOnce' /\ Counted' /\ talk'[Robot].task = "none"
<1>. DEFINE left == Leaves(Robot, mark, forgets)
<1>1. /\ DOMAIN left = SessionFields /\ left.at = "takes" /\ left.letter = None /\ left.task = "none"
      /\ left.read \in {{}, talk[Robot].read} /\ left.text = Silence
      /\ left.batch \subseteq SandboxLetters /\ left.result = None
  BY LeavesIs
<1>2. Moves(Robot, left)
  OBVIOUS
<1>. HIDE DEF left
<1>3. Proper(left)
  BY <1>1, WorkerIs, TextsAre DEF Proper, Places, Fits, SameRows
<1>4. /\ DialogueShaped'
      /\ \A x \in SessionFields : talk'[Robot][x] = left[x]
  BY <1>1, <1>2, <1>3, WorkerShaped DEF DialogueShaped, SameRows
<1>5. talk'[Robot].at = "takes" /\ talk'[Robot].letter = None /\ talk'[Robot].read \in {{}, talk[Robot].read}
      /\ talk'[Robot].task = "none"
  BY <1>1, <1>4, FieldsAre
<1>6. Known \subseteq Known'
  BY <1>5, WorkerIs DEF Known, SameRows
<1>7. AtWork' /\ RespondedOnce' /\ Counted'
  BY <1>5, <1>6, RestsKeeps
<1>. QED  BY <1>4, <1>5, <1>7

WorkerInv == DialogueShaped /\ AtWork /\ RespondedOnce /\ Counted

LEMMA SameScript ==
  ASSUME DialogueShaped, script' = script
  PROVE  SameRows /\ (Opened' <=> Opened) /\ script' \in Seq(ScriptRow)
BY DEF SameRows, Opened, DialogueShaped

LEMMA EndsRests ==
  ASSUME WorkerInv, NEW mark, mark # "complete", NEW forgets \in BOOLEAN, Ends(Robot, mark, forgets),
         SameRows, script' \in Seq(ScriptRow), Opened' <=> Opened, UNCHANGED <<sent, charged, wording, refs>>,
         weighed' \in [SandboxLetters -> {"none", "open", "denied"}],
         \A l \in SandboxLetters :
           \/ weighed'[l] = weighed[l]
           \/ IsStored(l) /\ (weighed'[l] = "open" => Cardinality(Responses) + 1 < MaxReplies)
  PROVE  WorkerInv' /\ Steady
<1>1. SetsStatus(Robot, mark) /\ Moves(Robot, Leaves(Robot, mark, forgets))
  BY DEF Ends
<1>2. DOMAIN dialogue' = DOMAIN dialogue /\ dialogue'.status \in {dialogue.status, mark}
  BY <1>1, StatusIs, TextsAre DEF WorkerInv
<1>3. WorkerInv'
  BY <1>1, <1>2, LeavesRests DEF WorkerInv
<1>4. Steady
  <2>. DEFINE left == Leaves(Robot, mark, forgets)
  <2>1. DOMAIN left = SessionFields /\ left.task = "none"
    BY LeavesIs DEF WorkerInv
  <2>. HIDE DEF left
  <2>2. Moves(Robot, left)
    BY <1>1 DEF left
  <2>. QED  BY <1>2, <2>1, <2>2, SteadyBy, TextsAre DEF WorkerInv
<1>. QED  BY <1>3, <1>4

LEMMA DiesKeeps ==
  ASSUME WorkerInv, Moves(Robot, Quiet), UNCHANGED <<script, sent, charged, wording, refs, weighed, dialogue>>
  PROVE  WorkerInv' /\ Steady
<1>1. SameRows /\ (Opened' <=> Opened) /\ script' \in Seq(ScriptRow)
  BY SameScript DEF WorkerInv
<1>2. DialogueShaped' /\ \A x \in SessionFields : talk'[Robot][x] = Quiet[x]
  <2>1. DOMAIN Quiet = SessionFields
    BY DEF SessionFields
  <2>. QED  BY <1>1, <2>1, QuietFits, WorkerShaped DEF WorkerInv, DialogueShaped
<1>3. talk'[Robot].at = "idle" /\ talk'[Robot].letter = None /\ talk'[Robot].read = {}
  BY <1>2, FieldsAre, QuietFits
<1>4. Known \subseteq Known'
  BY <1>3, WorkerIs DEF Known, WorkerInv
<1>5. AtWork' /\ RespondedOnce' /\ Counted'
  BY <1>1, <1>3, <1>4, RestsKeeps DEF WorkerInv
<1>6. Steady
  BY QuietFits, SteadyBy, TextsAre DEF WorkerInv, Proper
<1>. QED  BY <1>2, <1>5, <1>6 DEF WorkerInv

LEMMA FetchesKeeps ==
  ASSUME WorkerInv, Fetches
  PROVE  WorkerInv' /\ Steady
<1>. DEFINE changes == [at |-> "takes", batch |-> Unread]
<1>0. Moves(Robot, changes) /\ UNCHANGED <<script, sent, charged, wording, refs, weighed, dialogue>> /\ talk[Robot].at = "idle"
  BY DEF Fetches, rows, mailbox, IsAt
<1>1. SameRows /\ (Opened' <=> Opened) /\ script' \in Seq(ScriptRow)
  BY <1>0, SameScript DEF WorkerInv
<1>2. Proper(changes)
  BY FieldsAre DEF Proper, Places, Unread
<1>3. DialogueShaped' /\ \A x \in SessionFields : talk'[Robot][x] = IF x \in DOMAIN changes THEN changes[x] ELSE talk[Robot][x]
  BY <1>0, <1>1, <1>2, WorkerShaped DEF WorkerInv, DialogueShaped
<1>4. talk'[Robot].at = "takes" /\ talk'[Robot].letter = talk[Robot].letter /\ talk'[Robot].read = talk[Robot].read
  BY <1>3, FieldsAre
<1>5. talk'[Robot].letter = None
  BY <1>0, <1>4, WorkerIs DEF WorkerInv, LetterPlaces
<1>6. Known \subseteq Known'
  BY <1>0, <1>4 DEF Known
<1>7. AtWork' /\ RespondedOnce' /\ Counted'
  BY <1>0, <1>1, <1>4, <1>5, <1>6, RestsKeeps DEF WorkerInv
<1>8. Steady
  BY <1>0, <1>2, SteadyBy, TextsAre DEF WorkerInv, Proper
<1>. QED  BY <1>3, <1>7, <1>8 DEF WorkerInv

LEMMA MarksReadKeeps ==
  ASSUME WorkerInv, MarksRead
  PROVE  WorkerInv' /\ Steady
BY DiesKeeps DEF MarksRead, rows

LEMMA LetterFailsKeeps ==
  ASSUME WorkerInv, LetterFails
  PROVE  WorkerInv' /\ Steady
<1>0. UNCHANGED <<script, sent, charged, wording, refs, weighed>>
  BY DEF LetterFails, mailbox
<1>1. SameRows /\ (Opened' <=> Opened) /\ script' \in Seq(ScriptRow)
  BY <1>0, SameScript DEF WorkerInv
<1>2. CASE IsAt(Robot, "stores")
  <2>. DEFINE changes == [at |-> "takes", batch |-> talk[Robot].batch \ {talk[Robot].letter}, letter |-> None,
                          text |-> Silence, read |-> {}]
  <2>1. Moves(Robot, changes) /\ dialogue' = dialogue
    BY <1>2 DEF LetterFails
  <2>2. Proper(changes)
    BY WorkerIs, FieldsAre, TextsAre DEF Proper, Places, WorkerInv, Fits
  <2>3. DialogueShaped' /\ \A x \in SessionFields : talk'[Robot][x] = IF x \in DOMAIN changes THEN changes[x] ELSE talk[Robot][x]
    BY <1>0, <1>1, <2>1, <2>2, WorkerShaped DEF WorkerInv, DialogueShaped
  <2>4. talk'[Robot].at = "takes" /\ talk'[Robot].letter = None /\ talk'[Robot].read = {}
    BY <2>3, FieldsAre
  <2>5. Known \subseteq Known'
    BY <1>0, <2>4, WorkerIs DEF Known, WorkerInv
  <2>6. AtWork' /\ RespondedOnce' /\ Counted'
    BY <1>0, <1>1, <2>4, <2>5, RestsKeeps DEF WorkerInv
  <2>7. Steady
    BY <2>1, <2>2, SteadyBy, TextsAre DEF WorkerInv, Proper
  <2>. QED  BY <2>3, <2>6, <2>7 DEF WorkerInv
<1>3. CASE ~IsAt(Robot, "stores")
  <2>1. Moves(Robot, Leaves(Robot, "processing_error", TRUE)) /\ dialogue' = [dialogue EXCEPT !.status = "processing_error"]
    BY <1>3 DEF LetterFails
  <2>2. DOMAIN dialogue' = DOMAIN dialogue /\ dialogue'.status = "processing_error"
    BY <2>1 DEF WorkerInv, DialogueShaped
  <2>3. WorkerInv' /\ talk'[Robot].task = "none"
    BY <1>0, <1>1, <2>1, <2>2, LeavesRests DEF WorkerInv, DialogueShaped
  <2>4. Steady
    <3>. DEFINE left == Leaves(Robot, "processing_error", TRUE)
    <3>1. DOMAIN left = SessionFields /\ left.task = "none"
      BY LeavesIs DEF WorkerInv
    <3>. HIDE DEF left
    <3>2. Moves(Robot, left)
      BY <2>1 DEF left
    <3>. QED  BY <2>2, <3>1, <3>2, SteadyBy, TextsAre DEF WorkerInv
  <2>. QED  BY <2>3, <2>4
<1>. QED  BY <1>2, <1>3

LEMMA ViewIs ==
  ASSUME DialogueShaped, AtWork
  PROVE  /\ DOMAIN LoadedView = {"read", "status", "quotation"}
         /\ LoadedView.read = Known /\ LoadedView.read \subseteq DOMAIN script
         /\ talk[Robot].read # {} => LoadedView.read = talk[Robot].read
BY WorkerIs DEF LoadedView, View, Known

\* It sets to work on a letter it has stored before, and not answered, or on
\* one that answers a mail on record.
LEMMA TakesUpLetter ==
  ASSUME WorkerInv, NEW l \in SandboxLetters, NEW place, UNCHANGED <<script, sent, charged, wording, refs, weighed, dialogue>>,
         Moves(Robot, Over(Place(place), Over([letter |-> l, text |-> wording[l]], LoadedView))), IsAt(Robot, "takes"),
         \/ place = "weighs" /\ IsStored(l) /\ Resumable(l, LoadedView)
         \/ place = "stores" /\ ~IsStored(l) /\ IsLinked(l)
  PROVE  WorkerInv' /\ Steady
<1>. DEFINE changes == Over(Place(place), Over([letter |-> l, text |-> wording[l]], LoadedView))
<1>1. /\ DOMAIN changes = {"at", "letter", "text", "read", "status", "quotation"}
      /\ changes.at = place /\ changes.letter = l /\ changes.text = wording[l] /\ changes.read = Known
  BY ViewIs DEF Over, Place, WorkerInv
<1>2. Moves(Robot, changes)
  OBVIOUS
<1>. HIDE DEF changes
<1>3. Proper(changes)
  <2>1. wording[l] \in SUBSET STRING
    BY TextsAre DEF WorkerInv, DialogueShaped
  <2>2. Known \subseteq DOMAIN script'
    BY WorkerIs DEF WorkerInv
  <2>. QED  BY <1>1, <2>1, <2>2, FieldsAre DEF Proper, Places, LetterPlaces
<1>4. SameRows /\ (Opened' <=> Opened) /\ script' \in Seq(ScriptRow)
  BY SameScript DEF WorkerInv
<1>5. DialogueShaped' /\ \A x \in SessionFields : talk'[Robot][x] = IF x \in DOMAIN changes THEN changes[x] ELSE talk[Robot][x]
  BY <1>2, <1>3, <1>4, WorkerShaped DEF WorkerInv, DialogueShaped
<1>6. /\ talk'[Robot].at = place /\ talk'[Robot].letter = l /\ talk'[Robot].text = wording[l]
      /\ talk'[Robot].read = Known
  BY <1>1, <1>5, FieldsAre
<1>7. Opened /\ Known # {}
  <2>1. CASE IsStored(l)
    <3>1. Opened
      BY <2>1 DEF WorkerInv, Counted
    <3>. QED  BY <2>1, <3>1 DEF Known, IsStored
  <2>2. CASE IsLinked(l)
    BY <2>2 DEF IsLinked, Opened, Known
  <2>. QED  BY <2>1, <2>2
<1>8. Known' = Known
  BY <1>6, <1>7 DEF Known
<1>9. \A k \in SandboxLetters : (IsStored(k)' <=> IsStored(k)) /\ AnswersTo(k)' = AnswersTo(k) /\ (Unanswered(k)' <=> Unanswered(k))
  BY <1>8 DEF IsStored, AnswersTo, Unanswered
<1>10. Responses' = Responses
  BY DEF Responses
<1>11. place = "weighs" => Unanswered(l)
  BY <1>6, ViewIs DEF Resumable, Unanswered, WorkerInv
<1>12. AtWork'
  BY <1>6, <1>7, <1>9, <1>11, TextsAre DEF AtWork, LetterPlaces
<1>13. RespondedOnce'
  BY <1>9 DEF RespondedOnce, WorkerInv
<1>14. Counted'
  BY <1>4, <1>6, <1>7, <1>9, <1>10 DEF Counted, WorkerInv
<1>15. Steady
  BY <1>1, <1>2, <1>3, SteadyBy, TextsAre DEF WorkerInv, Proper
<1>. QED  BY <1>5, <1>12, <1>13, <1>14, <1>15 DEF WorkerInv

LEMMA PassesOver ==
  ASSUME WorkerInv, IsAt(Robot, "takes"), NEW changes, DOMAIN changes \subseteq {"batch", "done", "read", "status", "quotation"},
         "batch" \in DOMAIN changes => changes.batch \subseteq SandboxLetters,
         "read" \in DOMAIN changes => changes.read = Known,
         Moves(Robot, changes), UNCHANGED <<script, sent, charged, wording, refs, weighed, dialogue>>
  PROVE  WorkerInv' /\ Steady
<1>1. SameRows /\ (Opened' <=> Opened) /\ script' \in Seq(ScriptRow)
  BY SameScript DEF WorkerInv
<1>2. Proper(changes)
  BY WorkerIs, FieldsAre DEF Proper, WorkerInv
<1>3. DialogueShaped' /\ \A x \in SessionFields : talk'[Robot][x] = IF x \in DOMAIN changes THEN changes[x] ELSE talk[Robot][x]
  BY <1>1, <1>2, WorkerShaped DEF WorkerInv, DialogueShaped
<1>4. talk'[Robot].at = "takes" /\ talk'[Robot].letter = talk[Robot].letter /\ talk'[Robot].read \in {talk[Robot].read, Known}
  BY <1>3, FieldsAre DEF IsAt
<1>5. talk'[Robot].letter = None
  BY <1>4, WorkerIs DEF WorkerInv, LetterPlaces, IsAt
<1>6. Known \subseteq Known'
  BY <1>4 DEF Known
<1>7. AtWork' /\ RespondedOnce' /\ Counted'
  BY <1>1, <1>4, <1>5, <1>6, RestsKeeps DEF WorkerInv
<1>8. Steady
  BY <1>2, SteadyBy, TextsAre DEF WorkerInv, Proper
<1>. QED  BY <1>3, <1>7, <1>8 DEF WorkerInv

LEMMA TakesKeeps ==
  ASSUME WorkerInv, Takes
  PROVE  WorkerInv' /\ Steady
<1>. DEFINE l == Min(talk[Robot].batch)
            skip == [batch |-> talk[Robot].batch \ {l}, done |-> talk[Robot].done \cup {l}]
<1>0. IsAt(Robot, "takes") /\ UNCHANGED <<script, sent, charged, wording, refs, weighed, dialogue>> /\ talk[Robot].batch # {}
  BY DEF Takes, rows, mailbox
<1>1. talk[Robot].batch \subseteq SandboxLetters
  BY WorkerIs DEF WorkerInv, Fits
<1>2. l \in SandboxLetters
  BY <1>0, <1>1, TextsAre, MinIs
<1>3. \/ /\ Moves(Robot, Over(Place("weighs"), Over([letter |-> l, text |-> wording[l]], LoadedView)))
         /\ IsStored(l) /\ Resumable(l, LoadedView)
      \/ Moves(Robot, Over(skip, LoadedView))
      \/ /\ Moves(Robot, Over(Place("stores"), Over([letter |-> l, text |-> wording[l]], LoadedView)))
         /\ ~IsStored(l) /\ IsLinked(l)
      \/ Moves(Robot, [batch |-> talk[Robot].batch \ {l}])
  BY DEF Takes
<1>4. /\ DOMAIN Over(skip, LoadedView) = {"batch", "done", "read", "status", "quotation"}
      /\ Over(skip, LoadedView).batch = talk[Robot].batch \ {l} /\ Over(skip, LoadedView).read = Known
  BY ViewIs DEF Over, WorkerInv
<1>. HIDE DEF l
<1>5. CASE Moves(Robot, Over(skip, LoadedView))
  <2>. DEFINE changes == Over(skip, LoadedView)
  <2>. HIDE DEF changes, skip
  <2>1. Moves(Robot, changes) /\ DOMAIN changes = {"batch", "done", "read", "status", "quotation"}
        /\ changes.batch \subseteq SandboxLetters /\ changes.read = Known
    BY <1>1, <1>4, <1>5 DEF changes
  <2>. QED  BY <1>0, <2>1, PassesOver
<1>6. CASE Moves(Robot, [batch |-> talk[Robot].batch \ {l}])
  BY <1>0, <1>1, <1>6, PassesOver
<1>. QED  BY <1>0, <1>2, <1>3, <1>5, <1>6, TakesUpLetter

LEMMA StoresLetterKeeps ==
  ASSUME WorkerInv, StoresLetter
  PROVE  WorkerInv' /\ Steady
<1>0. PICK l \in SandboxLetters : l = talk[Robot].letter
  BY WorkerIs DEF WorkerInv, StoresLetter, IsAt, LetterPlaces
<1>. DEFINE m == Message("supplier", talk[Robot].text, l, None)
            changes == [at |-> "weighs", status |-> "classifying", read |-> WithAdded(Robot)]
<1>1. /\ Adds(m) /\ SetsStatus(Robot, "classifying") /\ Moves(Robot, changes) /\ talk[Robot].at = "stores"
      /\ UNCHANGED <<sent, charged, wording, refs, weighed>>
  BY <1>0 DEF StoresLetter, mailbox, IsAt
<1>2. talk[Robot].text \in SUBSET STRING /\ talk[Robot].text = wording[l] /\ ~IsStored(l)
      /\ talk[Robot].read # {} /\ talk[Robot].read \subseteq DOMAIN script
  BY <1>0, <1>1, WorkerIs DEF WorkerInv, AtWork, LetterPlaces, Fits
<1>3. m \in ScriptRow /\ m.letter = l /\ m.by = "supplier"
  BY <1>2, TextsAre DEF Message, ScriptRow, Speakers
<1>. HIDE DEF m
<1>4. /\ script' \in Seq(ScriptRow) /\ Len(script) \in Nat /\ Len(script') = Len(script) + 1
      /\ DOMAIN script = 1 .. Len(script) /\ DOMAIN script' = 1 .. (Len(script) + 1)
      /\ \A i \in DOMAIN script : script'[i] = script[i]
      /\ script'[Len(script) + 1] = m /\ DOMAIN script \subseteq DOMAIN script'
  BY <1>1, <1>3, AddsIs DEF WorkerInv
<1>5. WithAdded(Robot) = talk[Robot].read \cup {Len(script) + 1}
  BY DEF WithAdded
<1>6. Proper(changes)
  BY <1>2, <1>4, <1>5, FieldsAre DEF Proper, Places, LetterPlaces
<1>7. DOMAIN dialogue' = DOMAIN dialogue /\ dialogue'.status \in {dialogue.status, "classifying"}
  BY <1>1, StatusIs, TextsAre DEF WorkerInv
<1>8. DialogueShaped' /\ \A x \in SessionFields : talk'[Robot][x] = IF x \in DOMAIN changes THEN changes[x] ELSE talk[Robot][x]
  <2>1. DialogueShaped /\ refs' = refs /\ wording' = wording
    BY <1>1 DEF WorkerInv
  <2>2. sent' \in Seq([to : SandboxLetters \cup {None}, thread : SUBSET Nat]) /\ charged' \in Nat
        /\ weighed' \in [SandboxLetters -> {"none", "open", "denied"}]
    BY <1>1, <2>1 DEF DialogueShaped
  <2>. QED  BY <1>1, <1>4, <1>6, <1>7, <2>1, <2>2, WorkerShaped
<1>9. /\ talk'[Robot].at = "weighs" /\ talk'[Robot].letter = l /\ talk'[Robot].text = wording[l]
      /\ talk'[Robot].read = talk[Robot].read \cup {Len(script) + 1}
  BY <1>0, <1>2, <1>5, <1>8, FieldsAre
<1>10. Known' = Known \cup {Len(script) + 1} /\ Known = talk[Robot].read
  BY <1>2, <1>9 DEF Known
<1>11. /\ \A k \in SandboxLetters : IsStored(k)' <=> IsStored(k) \/ k = l
       /\ Opened' <=> Opened
  BY <1>1, <1>3, StoredAfter DEF WorkerInv
<1>12. \A k \in SandboxLetters : Unanswered(k)' => Unanswered(k)
  BY <1>1, <1>3, <1>10, UnansweredBefore DEF WorkerInv
<1>13. \A k \in SandboxLetters : AnswersTo(k)' = AnswersTo(k)
  BY <1>1 DEF AnswersTo
<1>14. Responses' = Responses
  BY <1>1 DEF Responses
<1>15. Unanswered(l)'
  <2>. SUFFICES ASSUME NEW i \in DOMAIN script', NEW j \in DOMAIN script', script'[i].letter = l, j > i
                PROVE  FALSE
    BY DEF Unanswered
  <2>1. i = Len(script) + 1
    BY <1>2, <1>4 DEF IsStored
  <2>. QED  BY <1>4, <2>1
<1>16. AtWork'
  BY <1>1, <1>2, <1>9, <1>11, <1>15, TextsAre DEF AtWork, LetterPlaces
<1>17. RespondedOnce'
  BY <1>1, <1>12, <1>13 DEF RespondedOnce, WorkerInv
<1>18. Counted'
  <2>1. Opened
    BY <1>0, <1>1, TextsAre DEF WorkerInv, Counted
  <2>2. weighed[l] = "none"
    BY <1>2 DEF WorkerInv, Counted
  <2>. QED  BY <1>1, <1>9, <1>11, <1>12, <1>14, <2>1, <2>2 DEF Counted, WorkerInv
<1>19. Steady
  BY <1>1, <1>6, <1>7, SteadyBy, TextsAre DEF WorkerInv, Proper
<1>. QED  BY <1>8, <1>16, <1>17, <1>18, <1>19 DEF WorkerInv

\* What a move of the worker within a letter leaves as it was.
LEMMA StaysWithin ==
  ASSUME WorkerInv, NEW place \in {"judges", "writes"}, NEW changes, DOMAIN changes \subseteq {"at", "status"},
         "at" \in DOMAIN changes, changes.at = place, Moves(Robot, changes), talk[Robot].at \in {"weighs", "judges"},
         UNCHANGED <<script, sent, charged, wording, refs>>, DOMAIN dialogue' = DOMAIN dialogue,
         dialogue'.status = "complete" => dialogue.status = "complete",
         weighed' \in [SandboxLetters -> {"none", "open", "denied"}],
         \A k \in SandboxLetters : weighed'[k] # weighed[k] => IsStored(k),
         Cardinality(Responses) + 1 < MaxReplies, place = "writes" => Free(talk[Robot].text)
  PROVE  WorkerInv' /\ Steady
<1>1. SameRows /\ (Opened' <=> Opened) /\ script' \in Seq(ScriptRow)
  BY SameScript DEF WorkerInv
<1>2. Proper(changes)
  BY FieldsAre DEF Proper, Places, LetterPlaces
<1>3. DialogueShaped' /\ \A x \in SessionFields : talk'[Robot][x] = IF x \in DOMAIN changes THEN changes[x] ELSE talk[Robot][x]
  BY <1>1, <1>2, WorkerShaped DEF WorkerInv, DialogueShaped
<1>4. /\ talk'[Robot].at = place /\ talk'[Robot].letter = talk[Robot].letter /\ talk'[Robot].text = talk[Robot].text
      /\ talk'[Robot].read = talk[Robot].read
  BY <1>3, FieldsAre
<1>5. Known' = Known
  BY <1>4 DEF Known
<1>6. \A k \in SandboxLetters : (IsStored(k)' <=> IsStored(k)) /\ AnswersTo(k)' = AnswersTo(k) /\ (Unanswered(k)' <=> Unanswered(k))
  BY <1>5 DEF IsStored, AnswersTo, Unanswered
<1>7. Responses' = Responses
  BY DEF Responses
<1>8. talk[Robot].letter \in SandboxLetters
  BY WorkerIs DEF WorkerInv, LetterPlaces
<1>9. AtWork'
  BY <1>4, <1>6, <1>8 DEF AtWork, LetterPlaces, WorkerInv
<1>10. RespondedOnce'
  BY <1>6 DEF RespondedOnce, WorkerInv
<1>11. Counted'
  BY <1>1, <1>4, <1>6, <1>7 DEF Counted, WorkerInv
<1>12. Steady
  BY <1>2, SteadyBy, TextsAre DEF WorkerInv, Proper
<1>. QED  BY <1>3, <1>9, <1>10, <1>11, <1>12 DEF WorkerInv

LEMMA VerdictIs ==
  ASSUME DialogueShaped, NEW l \in SandboxLetters, talk[Robot].letter = l, NEW verdict \in {"open", "denied"}, Verdict(Robot, verdict)
  PROVE  /\ weighed' \in [SandboxLetters -> {"none", "open", "denied"}]
         /\ \A k \in SandboxLetters : weighed'[k] = IF k = l THEN verdict ELSE weighed[k]
BY TextsAre DEF DialogueShaped, Verdict

LEMMA WeighsKeeps ==
  ASSUME WorkerInv, Weighs(Robot)
  PROVE  WorkerInv' /\ Steady
<1>. DEFINE l == talk[Robot].letter
<1>0. talk[Robot].at = "weighs" /\ UNCHANGED <<script, sent, charged, wording, refs>>
  BY DEF Weighs, mailbox, IsAt
<1>1. l \in SandboxLetters /\ IsStored(l) /\ Unanswered(l)
  BY <1>0, WorkerIs DEF WorkerInv, AtWork, LetterPlaces
<1>2. PICK spent \in BOOLEAN :
        \/ Admitted(Robot, spent) /\ Moves(Robot, Place("judges")) /\ UNCHANGED <<dialogue, weighed>>
        \/ ~Admitted(Robot, spent) /\ Ends(Robot, "escalated", FALSE) /\ Verdict(Robot, "denied")
  BY DEF Weighs
<1>3. CASE Admitted(Robot, spent) /\ Moves(Robot, Place("judges")) /\ UNCHANGED <<dialogue, weighed>>
  <2>1. Cardinality(Responses) + 1 < MaxReplies
    <3>1. CASE weighed[l] # "none"
      BY <1>1, <1>3, <3>1, TextsAre DEF Admitted, WorkerInv, Counted
    <3>2. CASE weighed[l] = "none"
      <4>1. charged < MaxReplies
        BY <1>3, <3>2 DEF Admitted, WithinBudget
      <4>2. Opened /\ charged > Cardinality(Responses)
        BY <1>1 DEF WorkerInv, Counted
      <4>3. charged \in Nat /\ Cardinality(Responses) \in Nat /\ MaxReplies \in Nat
        BY CountIs, DialogueAssumption DEF WorkerInv, DialogueShaped
      <4>. QED  BY <4>1, <4>2, <4>3
    <3>. QED  BY <3>1, <3>2
  <2>2. DOMAIN Place("judges") = {"at"} /\ Place("judges").at = "judges"
    BY DEF Place
  <2>. QED  BY <1>0, <1>3, <2>1, <2>2, StaysWithin DEF WorkerInv, DialogueShaped
<1>4. CASE ~Admitted(Robot, spent) /\ Ends(Robot, "escalated", FALSE) /\ Verdict(Robot, "denied")
  <2>1. /\ weighed' \in [SandboxLetters -> {"none", "open", "denied"}]
        /\ \A k \in SandboxLetters : weighed'[k] = IF k = l THEN "denied" ELSE weighed[k]
    BY <1>1, <1>4, VerdictIs DEF WorkerInv
  <2>. QED  BY <1>0, <1>1, <1>4, <2>1, SameScript, EndsRests DEF WorkerInv
<1>. QED  BY <1>2, <1>3, <1>4

LEMMA JudgesKeeps ==
  ASSUME WorkerInv, Judges(Robot)
  PROVE  WorkerInv' /\ Steady
<1>. DEFINE l == talk[Robot].letter
<1>0. talk[Robot].at = "judges" /\ UNCHANGED <<script, sent, charged, wording, refs>> /\ Verdict(Robot, "open")
  BY DEF Judges, mailbox, IsAt
<1>1. l \in SandboxLetters /\ IsStored(l) /\ Cardinality(Responses) + 1 < MaxReplies
  BY <1>0, WorkerIs DEF WorkerInv, AtWork, LetterPlaces, Counted
<1>2. /\ weighed' \in [SandboxLetters -> {"none", "open", "denied"}]
      /\ \A k \in SandboxLetters : weighed'[k] = IF k = l THEN "open" ELSE weighed[k]
  BY <1>0, <1>1, VerdictIs DEF WorkerInv
<1>3. ASSUME NEW answer, Allowed(talk[Robot].text, answer), SetsStatus(Robot, "generating"),
             Moves(Robot, [at |-> "writes", status |-> "generating"])
      PROVE  WorkerInv' /\ Steady
  <2>1. Free(talk[Robot].text)
    BY <1>3, AllowedIsFree
  <2>2. DOMAIN dialogue' = DOMAIN dialogue /\ dialogue'.status \in {dialogue.status, "generating"}
    BY <1>3, StatusIs, TextsAre DEF WorkerInv
  <2>. QED  BY <1>0, <1>1, <1>2, <1>3, <2>1, <2>2, StaysWithin
<1>4. CASE Ends(Robot, "escalated", FALSE)
  BY <1>0, <1>1, <1>2, <1>4, SameScript, EndsRests DEF WorkerInv
<1>. QED  BY <1>3, <1>4 DEF Judges

\* The answer is in the dialogue before the mail server is asked.
LEMMA AnswersKeeps ==
  ASSUME WorkerInv, talk[Robot].at = "writes", UNCHANGED <<sent, wording, refs, weighed>>,
         Adds(Message("assistant", Silence, None, None)), SetsStatus(Robot, "sending"), charged' = charged + 1,
         Moves(Robot, Delivering(Robot, Len(script) + 1))
  PROVE  WorkerInv' /\ Steady
<1>0. PICK l \in SandboxLetters : l = talk[Robot].letter
  BY WorkerIs DEF WorkerInv, LetterPlaces
<1>. DEFINE m == Message("assistant", Silence, None, None)
            row == Len(script) + 1
            changes == Delivering(Robot, row)
<1>1. m \in ScriptRow /\ m.letter = None /\ m.by = "assistant" /\ m.mail = None
  BY RowIs, TextsAre DEF Speakers
<1>2. Adds(m) /\ Moves(Robot, changes)
  OBVIOUS
<1>. HIDE DEF m
<1>3. /\ script' \in Seq(ScriptRow) /\ Len(script) \in Nat /\ Len(script') = Len(script) + 1
      /\ DOMAIN script = 1 .. Len(script) /\ DOMAIN script' = 1 .. (Len(script) + 1)
      /\ \A i \in DOMAIN script : script'[i] = script[i]
      /\ script'[row] = m /\ DOMAIN script \subseteq DOMAIN script'
  BY <1>1, <1>2, AddsIs DEF WorkerInv
<1>4. /\ talk[Robot].text = wording[l] /\ talk[Robot].read # {} /\ talk[Robot].read \subseteq DOMAIN script
      /\ IsStored(l) /\ Unanswered(l) /\ Free(talk[Robot].text)
  BY <1>0, WorkerIs DEF WorkerInv, AtWork, LetterPlaces, Fits
<1>5. /\ DOMAIN changes = {"at", "status", "row", "read"} /\ changes.at = "delivers" /\ changes.row = row
      /\ changes.read = talk[Robot].read \cup {row}
  BY DEF Delivering, WithAdded
<1>. HIDE DEF changes
<1>6. Proper(changes)
  BY <1>3, <1>4, <1>5, FieldsAre DEF Proper, Places, LetterPlaces
<1>7. DOMAIN dialogue' = DOMAIN dialogue /\ dialogue'.status \in {dialogue.status, "sending"}
  BY StatusIs, TextsAre DEF WorkerInv
<1>8. DialogueShaped' /\ \A x \in SessionFields : talk'[Robot][x] = IF x \in DOMAIN changes THEN changes[x] ELSE talk[Robot][x]
  <2>1. DialogueShaped /\ refs' = refs /\ wording' = wording
    BY DEF WorkerInv
  <2>2. sent' \in Seq([to : SandboxLetters \cup {None}, thread : SUBSET Nat]) /\ charged' \in Nat
        /\ weighed' \in [SandboxLetters -> {"none", "open", "denied"}]
    BY <2>1 DEF DialogueShaped
  <2>. QED  BY <1>2, <1>3, <1>6, <1>7, <2>1, <2>2, WorkerShaped
<1>9. /\ talk'[Robot].at = "delivers" /\ talk'[Robot].letter = l /\ talk'[Robot].text = talk[Robot].text
      /\ talk'[Robot].read = talk[Robot].read \cup {row} /\ talk'[Robot].row = row
  BY <1>0, <1>5, <1>8, FieldsAre
<1>10. Known \subseteq Known'
  BY <1>4, <1>9 DEF Known
<1>11. /\ \A k \in SandboxLetters : IsStored(k)' <=> IsStored(k)
       /\ Opened' <=> Opened
  BY <1>1, <1>2, StoredAfter, TextsAre DEF WorkerInv
<1>12. \A k \in SandboxLetters : Unanswered(k)' => Unanswered(k)
  BY <1>1, <1>2, <1>10, UnansweredBefore DEF WorkerInv
<1>13. \A k \in SandboxLetters : AnswersTo(k)' = AnswersTo(k)
  BY DEF AnswersTo
<1>14. Responses' = Responses
  BY DEF Responses
<1>15. Responding(talk[Robot])'
  BY <1>1, <1>3, <1>9 DEF Responding
<1>16. AtWork'
  <2>1. AnswersTo(l) = {}
    BY <1>4 DEF WorkerInv, RespondedOnce
  <2>. QED  BY <1>4, <1>9, <1>11, <1>13, <1>15, <2>1, TextsAre DEF AtWork, LetterPlaces
<1>17. RespondedOnce'
  BY <1>12, <1>13 DEF RespondedOnce, WorkerInv
<1>18. Counted'
  <2>1. Opened
    BY <1>0, TextsAre DEF WorkerInv, Counted
  <2>2. charged \in Nat /\ Cardinality(Responses) \in Nat
    BY CountIs DEF WorkerInv, DialogueShaped
  <2>. QED  BY <1>9, <1>11, <1>12, <1>14, <2>1, <2>2 DEF Counted, WorkerInv
<1>19. Steady
  BY <1>2, <1>5, <1>6, <1>7, SteadyBy, TextsAre DEF WorkerInv, Proper
<1>. QED  BY <1>8, <1>16, <1>17, <1>18, <1>19 DEF WorkerInv

LEMMA WritesKeeps ==
  ASSUME WorkerInv, Writes(Robot)
  PROVE  WorkerInv' /\ Steady
<1>1. talk[Robot].at = "writes" /\ UNCHANGED <<sent, wording, refs, weighed>>
  BY DEF Writes, mailbox, IsAt
<1>2. CASE Ends(Robot, "llm_error", TRUE) /\ UNCHANGED <<script, charged>>
  <2>1. weighed' \in [SandboxLetters -> {"none", "open", "denied"}]
    BY <1>1 DEF WorkerInv, DialogueShaped
  <2>. QED  BY <1>1, <1>2, <2>1, SameScript, EndsRests DEF WorkerInv
<1>3. CASE /\ Adds(Message("assistant", Silence, None, None)) /\ SetsStatus(Robot, "sending")
           /\ charged' = charged + 1 /\ Moves(Robot, Delivering(Robot, Len(script) + 1))
  BY <1>1, <1>3, AnswersKeeps
<1>. QED  BY <1>2, <1>3 DEF Writes

LEMMA DeliversKeeps ==
  ASSUME WorkerInv, Delivers(Robot)
  PROVE  WorkerInv' /\ Steady
<1>0. PICK l \in SandboxLetters : l = talk[Robot].letter
  BY WorkerIs DEF WorkerInv, LetterPlaces, Delivers, IsAt
<1>1. talk[Robot].at = "delivers" /\ UNCHANGED <<script, charged, wording, refs, weighed, dialogue>>
  BY DEF Delivers, mailbox, rows, IsAt
<1>2. PICK result \in Nat : Moves(Robot, [at |-> "records", result |-> result]) /\ (sent' = sent \/ Mails(Robot))
  <2>1. Len(sent) + 1 \in Nat /\ None \in Nat
    BY ScriptIs DEF WorkerInv, None
  <2>. QED  BY <2>1 DEF Delivers
<1>. DEFINE changes == [at |-> "records", result |-> result]
<1>3. PICK thread \in SUBSET Nat : sent' = sent \/ sent' = Append(sent, [to |-> l, thread |-> thread])
  <2>1. Thread(l) \in SUBSET Nat
    BY TextsAre DEF Thread, WorkerInv, DialogueShaped
  <2>. QED  BY <1>0, <1>2, <2>1 DEF Mails
<1>4. /\ sent' \in Seq([to : SandboxLetters \cup {None}, thread : SUBSET Nat])
      /\ \A k \in SandboxLetters \ {l} : AnswersTo(k)' = AnswersTo(k)
      /\ \/ AnswersTo(l)' = AnswersTo(l) /\ Responses' = Responses
         \/ /\ AnswersTo(l)' = AnswersTo(l) \cup {Len(sent) + 1} /\ Responses' = Responses \cup {Len(sent) + 1}
            /\ Len(sent) + 1 \notin Responses
  <2>1. CASE sent' = sent
    BY <2>1 DEF AnswersTo, Responses, WorkerInv, DialogueShaped
  <2>2. CASE sent' = Append(sent, [to |-> l, thread |-> thread])
    BY <2>2, SentAfter, TextsAre DEF WorkerInv
  <2>. QED  BY <1>3, <2>1, <2>2
<1>5. SameRows /\ (Opened' <=> Opened) /\ script' \in Seq(ScriptRow)
  BY <1>1, SameScript DEF WorkerInv
<1>6. Proper(changes)
  BY FieldsAre DEF Proper, Places, LetterPlaces
<1>7. DialogueShaped' /\ \A x \in SessionFields : talk'[Robot][x] = IF x \in DOMAIN changes THEN changes[x] ELSE talk[Robot][x]
  <2>1. charged' \in Nat /\ weighed' \in [SandboxLetters -> {"none", "open", "denied"}] /\ DialogueShaped
        /\ DOMAIN script \subseteq DOMAIN script' /\ DOMAIN dialogue' = DOMAIN dialogue
    BY <1>1 DEF WorkerInv, DialogueShaped
  <2>. QED  BY <1>1, <1>2, <1>4, <1>5, <1>6, <2>1, WorkerShaped
<1>8. /\ talk'[Robot].at = "records" /\ talk'[Robot].letter = l /\ talk'[Robot].text = talk[Robot].text
      /\ talk'[Robot].read = talk[Robot].read /\ talk'[Robot].row = talk[Robot].row
  BY <1>0, <1>7, FieldsAre
<1>9. Known' = Known
  BY <1>1, <1>8 DEF Known
<1>10. \A k \in SandboxLetters : (IsStored(k)' <=> IsStored(k)) /\ (Unanswered(k)' <=> Unanswered(k))
  BY <1>1, <1>9 DEF IsStored, Unanswered
<1>11. Responding(talk[Robot]) /\ IsStored(l) /\ AnswersTo(l) = {} /\ talk[Robot].text = wording[l] /\ Free(wording[l])
       /\ talk[Robot].read # {}
  BY <1>0, <1>1 DEF WorkerInv, AtWork, LetterPlaces
<1>12. \A k \in SandboxLetters : IsStored(k) => ~Unanswered(k)
  BY <1>11, TextsAre DEF IsStored, Unanswered, Responding, Known
<1>13. Responding(talk[Robot])'
  BY <1>1, <1>8, <1>11 DEF Responding
<1>14. AtWork'
  BY <1>1, <1>8, <1>10, <1>11, <1>13, TextsAre DEF AtWork, LetterPlaces
<1>15. Len(sent) + 1 \in Nat
  BY ScriptIs DEF WorkerInv
<1>16. RespondedOnce'
  <2>1. Cardinality(AnswersTo(l)') <= 1
    <3>1. AnswersTo(l)' = {} \/ AnswersTo(l)' = {Len(sent) + 1}
      BY <1>4, <1>11
    <3>2. Cardinality({}) = 0
      BY FS_EmptySet
    <3>3. Cardinality({Len(sent) + 1}) = 1
      BY FS_Singleton
    <3>4. Cardinality(AnswersTo(l)') = 0 \/ Cardinality(AnswersTo(l)') = 1
      BY <3>1, <3>2, <3>3, Zenon
    <3>. QED  BY <3>4
  <2>. QED  BY <1>1, <1>4, <1>10, <1>11, <1>12, <2>1 DEF RespondedOnce, WorkerInv
<1>17. Counted'
  <2>1. IsFiniteSet(Responses) /\ Cardinality(Responses) \in Nat /\ charged \in Nat /\ MaxReplies \in Nat
    BY CountIs, DialogueAssumption DEF WorkerInv, DialogueShaped
  <2>2. Cardinality(Responses') \in {Cardinality(Responses), Cardinality(Responses) + 1}
    BY <1>4, <2>1, FS_AddElement
  <2>3. Opened /\ charged > Cardinality(Responses) + 1 /\ Cardinality(Responses) + 1 < MaxReplies
    BY <1>0, <1>1, TextsAre DEF WorkerInv, Counted
  <2>4. \A k \in SandboxLetters : weighed'[k] = "open" => ~Unanswered(k)'
    BY <1>1, <1>10, <1>12 DEF WorkerInv, Counted
  <2>5. \A k \in SandboxLetters : weighed'[k] # "none" => IsStored(k)'
    BY <1>1, <1>10 DEF WorkerInv, Counted
  <2>. QED  BY <1>1, <1>5, <1>8, <2>1, <2>2, <2>3, <2>4, <2>5 DEF Counted
<1>18. Steady
  BY <1>1, <1>2, <1>6, SteadyBy, TextsAre DEF WorkerInv, Proper
<1>. QED  BY <1>7, <1>14, <1>16, <1>17, <1>18 DEF WorkerInv

LEMMA RecordsKeeps ==
  ASSUME WorkerInv, RecordsLetter
  PROVE  WorkerInv' /\ Steady
<1>. DEFINE row == talk[Robot].row  result == talk[Robot].result
<1>1. /\ talk[Robot].at = "records" /\ script' = [script EXCEPT ![row].mail = result]
      /\ Ends(Robot, Outcome(Robot), FALSE) /\ UNCHANGED <<charged, weighed, wording, refs, sent>>
  BY DEF RecordsLetter, mailbox, IsAt
<1>2. result \in Nat /\ Outcome(Robot) # "complete"
  BY WorkerIs DEF WorkerInv, Fits, Outcome
<1>3. row \in DOMAIN script /\ script[row].by = "assistant" /\ script[row].mail = None
  BY <1>1 DEF WorkerInv, AtWork, Responding
<1>4. Opened
  BY <1>1, TextsAre DEF WorkerInv, Counted, AtWork, LetterPlaces
<1>. HIDE DEF row, result
<1>5. SameRows /\ script' \in Seq(ScriptRow)
  <2>1. script \in Seq(ScriptRow) /\ script[row] \in ScriptRow
    BY <1>3 DEF WorkerInv, DialogueShaped
  <2>2. [script[row] EXCEPT !.mail = result] \in ScriptRow
    BY <1>2, <2>1 DEF ScriptRow
  <2>3. script' = [script EXCEPT ![row] = [script[row] EXCEPT !.mail = result]]
    BY <1>1
  <2>4. SameRows
    BY <2>1, <2>3, <1>3 DEF SameRows, ScriptRow
  <2>. QED  BY <2>1, <2>2, <2>3, <2>4, <1>3
<1>6. Opened'
  BY <1>1, <1>3, <1>4 DEF Opened
<1>7. weighed' \in [SandboxLetters -> {"none", "open", "denied"}]
  BY <1>1 DEF WorkerInv, DialogueShaped
<1>. QED  BY <1>1, <1>2, <1>4, <1>5, <1>6, <1>7, EndsRests

-----------------------------------------------------------------------------
(* What is collected was said. *)

LEMMA FormsAre ==
  ASSUME NEW f \in RequiredFields
  PROVE  /\ DOMAIN Forms[f] \subseteq Nat
         /\ \A k \in DOMAIN Forms[f] : Forms[f][k][2] \in 0 .. 100
<1>. DEFINE Sure(form) == form[2] \in 0 .. 100
<1>1. Forms[f] = IF f \in DOMAIN OfferForms THEN OfferForms[f] ELSE TermForms[f]
  BY DEF Forms
<1>2. /\ DOMAIN OfferForms = {"price", "currency", "incoterm", "moq"}
      /\ OfferForms.price = <<<<"amount of a currency", 90>>, <<"amount per unit", 70>>>>
      /\ OfferForms.currency = <<<<"currency code", 95>>, <<"currency sign", 85>>>>
      /\ OfferForms.incoterm = <<<<"incoterm", 90>>>> /\ OfferForms.moq = <<<<"minimum order", 90>>>>
      /\ TermForms.lead_time = <<<<"lead time", 85>>>> /\ TermForms.payment_terms = <<<<"T/T", 85>>, <<"deposit", 75>>>>
      /\ TermForms.grade = <<<<"grade word", 85>>, <<"grade code", 80>>, <<"purity", 75>>>>
  BY DEF OfferForms, TermForms
<1>3. \E a, b, c : /\ Sure(a) /\ Sure(b) /\ Sure(c)
                  /\ Forms[f] \in {<<a>>, <<a, b>>, <<a, b, c>>}
  <2>1. CASE f = "price"
    <3>1. Forms[f] = <<<<"amount of a currency", 90>>, <<"amount per unit", 70>>>>
      BY <1>1, <1>2, <2>1
    <3>2. Sure(<<"amount of a currency", 90>>) /\ Sure(<<"amount per unit", 70>>) /\ Sure(<<"amount of a currency", 90>>)
      OBVIOUS
    <3>. QED  BY <3>1, <3>2, Zenon
  <2>2. CASE f = "currency"
    <3>1. Forms[f] = <<<<"currency code", 95>>, <<"currency sign", 85>>>>
      BY <1>1, <1>2, <2>2
    <3>2. Sure(<<"currency code", 95>>) /\ Sure(<<"currency sign", 85>>) /\ Sure(<<"currency code", 95>>)
      OBVIOUS
    <3>. QED  BY <3>1, <3>2, Zenon
  <2>3. CASE f = "incoterm"
    <3>1. Forms[f] = <<<<"incoterm", 90>>>>
      BY <1>1, <1>2, <2>3
    <3>2. Sure(<<"incoterm", 90>>) /\ Sure(<<"incoterm", 90>>) /\ Sure(<<"incoterm", 90>>)
      OBVIOUS
    <3>. QED  BY <3>1, <3>2, Zenon
  <2>4. CASE f = "moq"
    <3>1. Forms[f] = <<<<"minimum order", 90>>>>
      BY <1>1, <1>2, <2>4
    <3>2. Sure(<<"minimum order", 90>>) /\ Sure(<<"minimum order", 90>>) /\ Sure(<<"minimum order", 90>>)
      OBVIOUS
    <3>. QED  BY <3>1, <3>2, Zenon
  <2>5. CASE f = "grade"
    <3>1. Forms[f] = <<<<"grade word", 85>>, <<"grade code", 80>>, <<"purity", 75>>>>
      BY <1>1, <1>2, <2>5
    <3>2. Sure(<<"grade word", 85>>) /\ Sure(<<"grade code", 80>>) /\ Sure(<<"purity", 75>>)
      OBVIOUS
    <3>. QED  BY <3>1, <3>2, Zenon
  <2>6. CASE f = "payment_terms"
    <3>1. Forms[f] = <<<<"T/T", 85>>, <<"deposit", 75>>>>
      BY <1>1, <1>2, <2>6
    <3>2. Sure(<<"T/T", 85>>) /\ Sure(<<"deposit", 75>>) /\ Sure(<<"T/T", 85>>)
      OBVIOUS
    <3>. QED  BY <3>1, <3>2, Zenon
  <2>7. CASE f = "lead_time"
    <3>1. Forms[f] = <<<<"lead time", 85>>>>
      BY <1>1, <1>2, <2>7
    <3>2. Sure(<<"lead time", 85>>) /\ Sure(<<"lead time", 85>>) /\ Sure(<<"lead time", 85>>)
      OBVIOUS
    <3>. QED  BY <3>1, <3>2, Zenon
  <2>. QED  BY <2>1, <2>2, <2>3, <2>4, <2>5, <2>6, <2>7 DEF RequiredFields
<1>. QED  BY <1>3

\* How certain a value of a text is: as certain as a form found in it.
LEMMA ExtractedIs ==
  ASSUME NEW text
  PROVE  /\ DOMAIN Extracted(text).fields = {f \in RequiredFields : Found(text, f) # {}}
         /\ \A f \in DOMAIN Extracted(text).fields :
              /\ Extracted(text).fields[f] \in 0 .. 100
              /\ \E form \in Range(Forms[f]) : form[1] \in text /\ form[2] = Extracted(text).fields[f]
         /\ Extracted(text).papers # {} => \E paper \in Papers : {paper.file, paper.given} \cap text # {}
<1>1. DOMAIN Extracted(text).fields = {f \in RequiredFields : Found(text, f) # {}}
  BY DEF Extracted
<1>2. ASSUME NEW f \in RequiredFields, Found(text, f) # {}
      PROVE  /\ Extracted(text).fields[f] \in 0 .. 100
             /\ \E form \in Range(Forms[f]) : form[1] \in text /\ form[2] = Extracted(text).fields[f]
  <2>1. Extracted(text).fields[f] = Forms[f][Min(Found(text, f))][2]
    BY <1>2 DEF Extracted
  <2>2. Found(text, f) \subseteq Nat
    BY FormsAre DEF Found
  <2>3. PICK k \in Found(text, f) : k = Min(Found(text, f))
    BY <1>2, <2>2, MinIs
  <2>4. k \in DOMAIN Forms[f] /\ Forms[f][k][1] \in text
    BY <2>3 DEF Found
  <2>5. Forms[f][k] \in Range(Forms[f])
    BY <2>4 DEF Range
  <2>. QED  BY <2>1, <2>3, <2>4, <2>5, FormsAre
<1>3. Extracted(text).papers # {} => \E paper \in Papers : {paper.file, paper.given} \cap text # {}
  <2>1. Extracted(text).papers = {paper.name : paper \in {q \in Papers : q.file \in text \/ (q.given \in text /\ q.denied \notin text)}}
    BY DEF Extracted
  <2>. QED  BY <2>1
<1>. QED  BY <1>1, <1>2, <1>3

LEMMA CollectedIs ==
  ASSUME NEW texts
  PROVE  LET quote == Collected(texts)
         IN  /\ \A f \in DOMAIN quote.fields :
                  /\ f \in RequiredFields /\ \E i \in DOMAIN texts : Found(texts[i], f) # {}
                  /\ \E i \in DOMAIN texts : \E form \in Range(Forms[f]) :
                       form[1] \in texts[i] /\ form[2] = quote.fields[f]
             /\ quote.papers # {} =>
                  \E i \in DOMAIN texts : \E paper \in Papers : {paper.file, paper.given} \cap texts[i] # {}
<1>. DEFINE quote == Collected(texts)
            drafts == {Extracted(texts[i]) : i \in DOMAIN texts}
<1>1. /\ DOMAIN quote.fields = UNION {DOMAIN q.fields : q \in drafts}
      /\ \A f \in DOMAIN quote.fields : quote.fields[f] = Surest(drafts, f)
      /\ quote.papers = UNION {q.papers : q \in drafts}
  BY DEF Collected
<1>. HIDE DEF quote
<1>2. ASSUME NEW f \in DOMAIN quote.fields
      PROVE  /\ f \in RequiredFields /\ \E i \in DOMAIN texts : Found(texts[i], f) # {}
             /\ \E i \in DOMAIN texts : \E form \in Range(Forms[f]) :
                  form[1] \in texts[i] /\ form[2] = quote.fields[f]
  <2>. DEFINE values == {q.fields[f] : q \in {r \in drafts : f \in DOMAIN r.fields}}
  <2>1. PICK i \in DOMAIN texts : f \in DOMAIN Extracted(texts[i]).fields
    BY <1>1
  <2>2. f \in RequiredFields /\ Found(texts[i], f) # {}
    BY <2>1, ExtractedIs
  <2>3. \A v \in values : \E j \in DOMAIN texts : f \in DOMAIN Extracted(texts[j]).fields /\ v = Extracted(texts[j]).fields[f]
    OBVIOUS
  <2>4. Extracted(texts[i]).fields[f] \in values
    BY <2>1
  <2>5. quote.fields[f] = Max(values)
    BY <1>1 DEF Surest
  <2>. HIDE DEF values
  <2>6. values \subseteq 0 .. 100
    BY <2>3, ExtractedIs
  <2>7. quote.fields[f] \in values
    BY <2>4, <2>5, <2>6, MaxIs
  <2>8. PICK j \in DOMAIN texts : f \in DOMAIN Extracted(texts[j]).fields /\ quote.fields[f] = Extracted(texts[j]).fields[f]
    BY <2>3, <2>7
  <2>9. \E form \in Range(Forms[f]) : form[1] \in texts[j] /\ form[2] = quote.fields[f]
    BY <2>8, ExtractedIs
  <2>. QED  BY <2>2, <2>9
<1>3. ASSUME quote.papers # {}
      PROVE  \E i \in DOMAIN texts : \E paper \in Papers : {paper.file, paper.given} \cap texts[i] # {}
  <2>1. PICK i \in DOMAIN texts : Extracted(texts[i]).papers # {}
    BY <1>1, <1>3
  <2>. QED  BY <2>1, ExtractedIs
<1>. QED  BY <1>2, <1>3 DEF quote

LEMMA TextsKnown ==
  ASSUME NEW c \in Sessions
  PROVE  DOMAIN KnownTexts(c) \subseteq BySupplier /\ \A i \in DOMAIN KnownTexts(c) : KnownTexts(c)[i] = script[i].text
BY DEF KnownTexts, TextsAmong, BySupplier

LEMMA FullIsEarned ==
  ASSUME NEW c \in Sessions, QuoteComplete(Collected(KnownTexts(c)))
  PROVE  Collectedly /\ Certified
<1>. DEFINE texts == KnownTexts(c)  quote == Collected(texts)
<1>1. /\ \A f \in RequiredFields : f \in DOMAIN quote.fields /\ quote.fields[f] >= Threshold
      /\ quote.papers # {}
  BY DEF QuoteComplete
<1>2. DOMAIN texts \subseteq BySupplier /\ \A i \in DOMAIN texts : texts[i] = script[i].text
  BY TextsKnown
<1>3. /\ \A f \in DOMAIN quote.fields : \E i \in DOMAIN texts : \E form \in Range(Forms[f]) :
           form[1] \in texts[i] /\ form[2] = quote.fields[f]
      /\ \E i \in DOMAIN texts : \E paper \in Papers : {paper.file, paper.given} \cap texts[i] # {}
  BY <1>1, CollectedIs
<1>. HIDE DEF texts, quote
<1>4. ASSUME NEW f \in RequiredFields PROVE Certain(f)
  <2>1. PICK i \in DOMAIN texts : \E form \in Range(Forms[f]) : form[1] \in texts[i] /\ form[2] = quote.fields[f]
    BY <1>1, <1>3
  <2>2. PICK form \in Range(Forms[f]) : form[1] \in texts[i] /\ form[2] = quote.fields[f]
    BY <2>1
  <2>3. form[2] >= Threshold
    BY <1>1, <2>2
  <2>. QED  BY <1>2, <2>2, <2>3 DEF Certain
<1>5. Certified
  BY <1>2, <1>3 DEF Certified
<1>. QED  BY <1>4, <1>5 DEF Collectedly

LEMMA GoalIsNamed ==
  ASSUME NEW c \in Sessions, GoalReached(Collected(KnownTexts(c))), Chemist
  PROVE  GoalNamed
<1>. DEFINE texts == KnownTexts(c)  quote == Collected(texts)
<1>1. DOMAIN texts \subseteq BySupplier /\ \A i \in DOMAIN texts : texts[i] = script[i].text
  BY TextsKnown
<1>2. /\ \A f \in DOMAIN quote.fields : f \in RequiredFields /\ \E i \in DOMAIN texts : Found(texts[i], f) # {}
      /\ quote.papers # {} => \E i \in DOMAIN texts : \E paper \in Papers : {paper.file, paper.given} \cap texts[i] # {}
  BY CollectedIs
<1>3. GoalFields # {} /\ \A f \in GoalFields : IF f = "specification" THEN quote.papers # {} ELSE f \in DOMAIN quote.fields
  BY DEF GoalReached
<1>. HIDE DEF texts, quote
<1>4. \A f \in DOMAIN quote.fields : f \in RequiredFields /\ Named(f)
  BY <1>1, <1>2 DEF Named
<1>5. quote.papers # {} => Certified
  BY <1>1, <1>2 DEF Certified
<1>. QED  BY <1>3, <1>4, <1>5 DEF GoalNamed

\* What was said stays said.
LEMMA SaidStays ==
  ASSUME \A i \in DOMAIN script : i \in DOMAIN script' /\ script'[i].by = script[i].by /\ script'[i].text = script[i].text
  PROVE  (Collectedly => Collectedly') /\ (Certified => Certified') /\ (GoalNamed => GoalNamed')
<1>1. BySupplier \subseteq BySupplier' /\ \A i \in BySupplier : script'[i].text = script[i].text
  BY DEF BySupplier
<1>2. \A f : (Named(f) => Named(f)') /\ (Certain(f) => Certain(f)')
  BY <1>1 DEF Named, Certain
<1>3. Certified => Certified'
  BY <1>1 DEF Certified
<1>. QED  BY <1>2, <1>3 DEF Collectedly, GoalNamed

-----------------------------------------------------------------------------
(* The theorems. *)

SaysOn == \A i \in DOMAIN script : i \in DOMAIN script' /\ script'[i].by = script[i].by /\ script'[i].text = script[i].text

LEMMA BesideSays ==
  ASSUME DialogueShaped, NEW c \in Clerks, Beside(c)
  PROVE  SaysOn
BY AddsIs DEF Beside, SaysOn

LEMMA WorkerSays ==
  ASSUME WorkerInv, WorkerStep \/ LetterFails \/ SessionDies(Robot)
  PROVE  SaysOn
<1>1. ASSUME NEW m \in ScriptRow, Adds(m) PROVE SaysOn
  BY <1>1, AddsIs DEF SaysOn, WorkerInv
<1>2. CASE script' = script
  BY <1>2 DEF SaysOn
<1>3. CASE StoresLetter
  <2>1. talk[Robot].text \in SUBSET STRING /\ talk[Robot].letter \in SandboxLetters \cup {None}
    BY WorkerIs DEF WorkerInv, Fits
  <2>2. Message("supplier", talk[Robot].text, talk[Robot].letter, None) \in ScriptRow
    BY <2>1, TextsAre DEF Message, ScriptRow, Speakers
  <2>. QED  BY <1>1, <1>3, <2>2 DEF StoresLetter
<1>4. CASE Writes(Robot)
  <2>1. Message("assistant", Silence, None, None) \in ScriptRow
    BY RowIs, TextsAre DEF Speakers
  <2>. QED  BY <1>1, <1>2, <1>4, <2>1 DEF Writes
<1>5. CASE RecordsLetter
  BY <1>5 DEF RecordsLetter, SaysOn, WorkerInv, DialogueShaped, ScriptRow
<1>. QED  BY <1>2, <1>3, <1>4, <1>5
     DEF WorkerStep, Fetches, Takes, Weighs, Judges, Delivers, MarksRead, LetterFails, SessionDies, rows

LEMMA SteadyEarned ==
  ASSUME Earned, SaysOn, Steady
  PROVE  Earned'
<1>1. (Collectedly => Collectedly') /\ (Certified => Certified') /\ (GoalNamed => GoalNamed')
  BY SaidStays DEF SaysOn
<1>. QED  BY <1>1 DEF Earned, Steady

LEMMA PeopleEarn ==
  ASSUME DialogueShaped, Earned, NEW c \in Clerks, Asks(c) \/ RequestStep(c) \/ SessionDies(c), Beside(c)
  PROVE  Earned'
<1>0. (Collectedly => Collectedly') /\ (Certified => Certified') /\ (GoalNamed => GoalNamed')
  BY BesideSays, SaidStays DEF SaysOn
<1>1. CASE Collects(c)
  <2>1. dialogue'.status = dialogue.status /\ \A q \in Sessions \ {c} : talk'[q] = talk[q]
    BY <1>1, CollectsBeside DEF Beside
  <2>2. talk'[c].task = "handoff" => GoalNamed
    BY <1>1, CollectsBeside, GoalIsNamed, TextsAre DEF Earned
  <2>. QED  BY <1>0, <2>1, <2>2 DEF Earned
<1>2. CASE Closes(c)
  <2>1. dialogue'.status = "complete" => (Collectedly /\ Certified) \/ GoalNamed
    BY <1>2, ClosesBeside, FullIsEarned, TextsAre DEF Earned
  <2>2. \A p \in Sessions : talk'[p].task = "handoff" => talk[p].task = "handoff"
    BY <1>2, ClosesBeside
  <2>. QED  BY <1>0, <2>1, <2>2 DEF Earned
<1>3. CASE ~Collects(c) /\ ~Closes(c)
  BY <1>3, PeopleSteady, BesideSays, SteadyEarned
<1>. QED  BY <1>1, <1>2, <1>3

LEMMA TalkRests ==
  ASSUME DialogueInv, UNCHANGED <<dialogue, script, charged, weighed, wording, sent, talk>>
  PROVE  AtWork' /\ RespondedOnce' /\ Counted' /\ Earned'
<1>1. AtWork'
  BY DEF DialogueInv, AtWork, IsStored, Unanswered, Known, AnswersTo, Responding
<1>2. RespondedOnce'
  BY DEF DialogueInv, RespondedOnce, Unanswered, Known, AnswersTo
<1>3. Counted'
  BY DEF DialogueInv, Counted, IsStored, Unanswered, Known, Responses, Opened
<1>4. SaysOn /\ Steady
  BY DEF SaysOn, Steady
<1>. QED  BY <1>1, <1>2, <1>3, <1>4, SteadyEarned DEF DialogueInv

LEMMA WritesBackKeeps ==
  ASSUME DialogueInv, NEW l \in SandboxLetters, WritesBack(l)
  PROVE  DialogueInv'
<1>1. UNCHANGED <<dialogue, script, charged, weighed, wording, sent, talk>>
  BY DEF WritesBack, rows
<1>2. refs' \in [SandboxLetters -> SUBSET Nat]
  <2>1. PICK m \in DOMAIN sent : refs' = [refs EXCEPT ![l] = {m} \cup sent[m].thread]
    BY DEF WritesBack
  <2>2. m \in Nat /\ sent[m].thread \in SUBSET Nat
    BY ScriptIs DEF DialogueInv
  <2>. QED  BY <2>1, <2>2 DEF DialogueInv, DialogueShaped
<1>3. DialogueShaped'
  BY <1>1, <1>2 DEF DialogueInv, DialogueShaped, Fits
<1>. QED  BY <1>1, <1>3, TalkRests DEF DialogueInv

\* One case for each actor of the sandbox: people, the worker, the mail server.
LEMMA DialogueSteps ==
  ASSUME DialogueInv, DialogueNext
  PROVE  DialogueInv'
<1>0. WorkerInv /\ Earned
  BY DEF DialogueInv, WorkerInv
<1>1. ASSUME NEW c \in Clerks, Asks(c) \/ RequestStep(c) \/ SessionDies(c)
      PROVE  DialogueInv'
  <2>1. Beside(c)
    BY <1>1, PeopleBeside DEF DialogueInv
  <2>. QED  BY <1>1, <2>1, BesideShaped, BesideLeaves, PeopleEarn DEF DialogueInv
<1>2. ASSUME WorkerStep \/ LetterFails \/ SessionDies(Robot)
      PROVE  DialogueInv'
  <2>1. CASE SessionDies(Robot)
    BY <1>0, <2>1, DiesKeeps, WorkerSays, SteadyEarned DEF SessionDies, rows, mailbox, DialogueInv, WorkerInv
  <2>2. CASE LetterFails
    BY <1>0, <2>2, LetterFailsKeeps, WorkerSays, SteadyEarned DEF DialogueInv, WorkerInv
  <2>3. CASE WorkerStep
    <3>1. WorkerInv' /\ Steady
      BY <1>0, <2>3, FetchesKeeps, TakesKeeps, StoresLetterKeeps, WeighsKeeps, JudgesKeeps, WritesKeeps, DeliversKeeps,
         RecordsKeeps, MarksReadKeeps DEF WorkerStep
    <3>. QED  BY <1>0, <2>3, <3>1, WorkerSays, SteadyEarned DEF DialogueInv, WorkerInv
  <2>. QED  BY <1>2, <2>1, <2>2, <2>3
<1>3. ASSUME NEW l \in SandboxLetters, WritesBack(l) PROVE DialogueInv'
  BY <1>3, WritesBackKeeps
<1>. QED  BY <1>1, <1>2, <1>3 DEF DialogueNext, Sessions

LEMMA DialogueStarts ==
  ASSUME DialogueInit
  PROVE  DialogueInv
<1>1. /\ script = <<>> /\ sent = <<>> /\ DOMAIN talk = Sessions /\ \A p \in Sessions : talk[p] = Quiet
      /\ wording \in Wordings /\ charged = 0 /\ dialogue.status = "none"
      /\ DOMAIN dialogue = {"status", "quotation", "simulation", "delivery"}
      /\ weighed = [l \in SandboxLetters |-> "none"] /\ refs = [l \in SandboxLetters |-> {}]
  BY DEF DialogueInit, Sessions
<1>2. DOMAIN script = {} /\ DOMAIN sent = {}
  BY <1>1
<1>3. /\ Quiet.at = "idle" /\ Quiet.letter = None /\ Quiet.text = {} /\ Quiet.read = {} /\ Quiet.batch = {}
      /\ Quiet.result = None /\ Quiet.task = "none" /\ None \in Nat
  BY DEF Quiet, Silence, None
<1>4. \A p \in Sessions : Fits(talk[p])
  BY <1>1, <1>3 DEF Fits, SessionFields, Places
<1>5. DialogueShaped
  BY <1>1, <1>3, <1>4, TextsAre DEF DialogueShaped
<1>6. talk[Robot].at = "idle" /\ talk[Robot].letter = None
  BY <1>1, <1>3, TextsAre
<1>7. AtWork
  BY <1>6 DEF AtWork, LetterPlaces
<1>8. /\ \A l \in SandboxLetters : AnswersTo(l) = {}
      /\ Responses = {}
  BY <1>2 DEF AnswersTo, Responses
<1>9. Cardinality({}) = 0
  BY FS_EmptySet
<1>10. RespondedOnce
  BY <1>8, <1>9 DEF RespondedOnce
<1>11. ~Opened /\ \A l \in SandboxLetters : ~IsStored(l)
  BY <1>2 DEF Opened, IsStored
<1>12. Counted
  BY <1>1, <1>6, <1>8, <1>9, <1>11 DEF Counted
<1>13. Earned
  BY <1>1, <1>3 DEF Earned
<1>. QED  BY <1>5, <1>7, <1>10, <1>12, <1>13 DEF DialogueInv

LEMMA DialogueRests ==
  ASSUME DialogueInv, UNCHANGED dialogueVars
  PROVE  DialogueInv'
<1>1. UNCHANGED <<dialogue, script, charged, weighed, wording, sent, talk, refs>>
  BY DEF dialogueVars
<1>2. DialogueShaped'
  BY <1>1 DEF DialogueInv, DialogueShaped, Fits
<1>. QED  BY <1>1, <1>2, TalkRests DEF DialogueInv

\* What the worker relies on holds of every state, whoever takes the step.
THEOREM DialogueInvariant == WorkerSpec => []DialogueInv
<1>1. WorkerInit => DialogueInv
  BY DialogueStarts DEF WorkerInit
<1>2. DialogueInv /\ [WorkerNext]_workerVars => DialogueInv'
  <2>1. ASSUME DialogueInv, InboxStep PROVE DialogueInv'
    BY <2>1, DialogueRests DEF InboxStep
  <2>2. ASSUME DialogueInv, SandboxStep PROVE DialogueInv'
    BY <2>2, DialogueSteps DEF SandboxStep
  <2>3. ASSUME DialogueInv, UNCHANGED workerVars PROVE DialogueInv'
    BY <2>3, DialogueRests DEF workerVars
  <2>. QED  BY <2>1, <2>2, <2>3 DEF WorkerNext
<1>. QED  BY <1>1, <1>2, PTL DEF WorkerSpec

\* A letter of the sandbox is answered once at the most, and never one that a
\* rule keeps for a person, whatever dies or fails between the mail server and
\* the commit and whoever works on the dialogue meanwhile.
THEOREM AnsweredOnce == WorkerSpec => []OneSafeAnswer
<1>1. DialogueInv => OneSafeAnswer
  BY DEF DialogueInv, RespondedOnce, OneSafeAnswer, Free
<1>. QED  BY <1>1, DialogueInvariant, PTL

\* The worker's answers stay below the limit of the profile, which the request
\* for quotation has used once, although the count is read before the model is
\* asked and a verdict found again is not counted anew.
THEOREM BudgetHolds == WorkerSpec => []LettersInBudget
<1>1. ASSUME DialogueInv PROVE LettersInBudget
  <2>1. Responses = UNION {AnswersTo(l) : l \in SandboxLetters}
    <3>1. ASSUME NEW m \in Responses PROVE m \in UNION {AnswersTo(l) : l \in SandboxLetters}
      <4>1. m \in DOMAIN sent /\ sent[m].to \in SandboxLetters
        BY <1>1, <3>1, ScriptIs DEF DialogueInv, Responses
      <4>. QED  BY <4>1 DEF AnswersTo
    <3>2. ASSUME NEW l \in SandboxLetters, NEW m \in AnswersTo(l) PROVE m \in Responses
      BY <3>2, TextsAre DEF AnswersTo, Responses
    <3>. QED  BY <3>1, <3>2
  <2>. QED  BY <1>1, <2>1 DEF DialogueInv, Counted, LettersInBudget
<1>. QED  BY <1>1, DialogueInvariant, PTL

\* A dialogue that no chemist's profile hands over is complete only when the
\* supplier has named every condition with certainty and sent a certificate.
THEOREM EarnedComplete ==
  ASSUME ~Chemist
  PROVE  WorkerSpec => []CompleteIsEarned
<1>1. ASSUME DialogueInv PROVE CompleteIsEarned
  <2>. SUFFICES ASSUME dialogue.status = "complete"
                PROVE  LET texts == AllTexts
                       IN  /\ \A f \in RequiredFields :
                                 \E i \in DOMAIN texts : \E form \in Range(Forms[f]) : form[1] \in texts[i] /\ form[2] >= Threshold
                           /\ \E i \in DOMAIN texts, paper \in Papers : {paper.file, paper.given} \cap texts[i] # {}
    BY DEF CompleteIsEarned
  <2>1. Collectedly /\ Certified
    BY <1>1 DEF DialogueInv, Earned, GoalNamed
  <2>2. DOMAIN AllTexts = BySupplier /\ \A i \in BySupplier : AllTexts[i] = script[i].text
    BY DEF AllTexts, TextsAmong, BySupplier
  <2>3. \A f \in RequiredFields :
          \E i \in DOMAIN AllTexts : \E form \in Range(Forms[f]) : form[1] \in AllTexts[i] /\ form[2] >= Threshold
    BY <2>1, <2>2 DEF Collectedly, Certain
  <2>4. \E i \in DOMAIN AllTexts, paper \in Papers : {paper.file, paper.given} \cap AllTexts[i] # {}
    BY <2>1, <2>2 DEF Certified
  <2>. QED  BY <2>3, <2>4
<1>. QED  BY <1>1, DialogueInvariant, PTL

\* The worker's rounds are those of the inbox: the sync of the sandbox writes
\* none of its tables, so what is proved of the syncs holds of the worker.
THEOREM WorkerIsInbox == WorkerSpec => Spec
<1>1. WorkerInit => Init
  BY DEF WorkerInit
<1>2. [WorkerNext]_workerVars => [Next]_vars
  BY DEF WorkerNext, InboxStep, SandboxStep, workerVars
<1>. QED  BY <1>1, <1>2, PTL DEF WorkerSpec, Spec
=============================================================================
