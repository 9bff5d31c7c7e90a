---------------------------- MODULE Qualification ----------------------------
(***************************************************************************)
(* The qualification of the candidates of one search run: pages are        *)
(* fetched, the model assesses them in batches of two, the gates and the   *)
(* score make cards, an auditor judges the cards in batches of two, and    *)
(* the cards go to the registry, where other runs register too.            *)
(*                                                                         *)
(* Source: backend/app/api/supplier_search.py                              *)
(* (execute_supplier_qualification, _batch_with_halving,                   *)
(* _ask_again_for_missing), services/search_budget.py.                     *)
(*                                                                         *)
(* A step is a page, one call of the model, or a commit.  The leases and   *)
(* statuses of the run are the subject of SearchQueue.                     *)
(***************************************************************************)
EXTENDS SupplierCard, SupplierRegistry

CONSTANTS
  Facts,          \* the candidates in order: what each page holds
  TitleKey,       \* the name a candidate goes by when nothing is known of it
  AnswersTo,      \* what the model may say of a page
  Opinions,       \* what the auditor may conclude of it, the claims it cites apart
  Requested,      \* companies asked for
  MaxFetches,     \* search_max_page_fetches
  MaxCalls,       \* search_max_llm_calls
  Run,            \* the session of this run
  OtherCards,     \* what the other sessions register
  Invalid_,       \* an answer that does not fit the schema
  Unnamed         \* a name that names no company

Candidates == DOMAIN Facts

ASSUME QualificationAssumption ==
  /\ Facts \in Seq(Pages) /\ Run \in Sessions
  /\ Requested \in Nat /\ MaxFetches \in Nat /\ MaxCalls \in Nat
  /\ \A p \in Candidates : Invalid_ \notin AnswersTo[p]

VARIABLES
  pc,         \* fetch, qualify, verify, register, failed, cancelled
  next,       \* the candidate to open next
  opened,     \* fetched_sources
  profiled,   \* candidates whose section "about the company" was read
  fetches, calls,     \* what the budget has counted
  spent,      \* time or tokens have run out
  cancelled,  \* a user has cancelled the run
  offset,     \* pages of the batches already done
  ask,        \* questions of the current batch yet to be put to the model, by page
  busy,       \* a batch is under way
  answered,   \* pages the answer to the whole batch named
  raw,        \* what the current batch has brought
  asked,      \* calls made for the current batch
  answers, verdicts,  \* what was accepted, by page
  cards,      \* qualified_results
  told,       \* history: the valid answer about a page the model gave when asked about it
  strays      \* history: the first valid answer about a page to a question about others,
              \* while it had not answered the question about this one

budget == <<fetches, calls, spent>>
pages == <<next, opened, profiled>>
batch == <<offset, ask, busy, answered, raw, asked>>
results == <<answers, verdicts, cards, told, strays>>
vars == <<registry, pc, budget, pages, cancelled, batch, results>>

Init ==
  /\ RegistryInit
  /\ queue = [s \in Sessions |-> IF s = Run THEN <<>> ELSE OtherCards[s]]
  /\ pc = "fetch" /\ next = 1 /\ opened = <<>> /\ profiled = {}
  /\ fetches = 0 /\ calls = 0 /\ spent = FALSE /\ cancelled = FALSE
  /\ offset = 0 /\ ask = {} /\ busy = FALSE /\ answered = {} /\ raw = <<>> /\ asked = 0
  /\ answers = <<>> /\ verdicts = <<>> /\ cards = <<>> /\ told = <<>> /\ strays = <<>>

-----------------------------------------------------------------------------
(* Pages. *)

MayFetch(count) == ~spent /\ count < MaxFetches

Wanted == Len(opened) < Requested /\ next \in Candidates

\* The role is not proved on the page, and the site is the company's own.
WantsProfile(page) ==
  page.about # {} /\ page.place = "own" /\ page.reads \cap (Details \cup {"reseller_role"}) = {}

OpensPage ==
  /\ pc = "fetch" /\ Wanted /\ MayFetch(fetches)
  /\ IF cancelled
     THEN /\ pc' = "cancelled"
          /\ fetches' = fetches + 1
          /\ UNCHANGED pages
     ELSE /\ opened' = Append(opened, next) /\ next' = next + 1
          /\ \E read \in BOOLEAN :
               /\ read => WantsProfile(Facts[next]) /\ MayFetch(fetches + 1)
               /\ profiled' = IF read THEN profiled \cup {next} ELSE profiled
          /\ fetches' = IF WantsProfile(Facts[next]) /\ MayFetch(fetches + 1)
                        THEN fetches + 2 ELSE fetches + 1
          /\ UNCHANGED pc
  /\ UNCHANGED <<registry, calls, spent, cancelled, batch, results>>

PageFails ==
  /\ pc = "fetch" /\ Wanted /\ MayFetch(fetches)
  /\ fetches' = fetches + 1 /\ next' = next + 1
  /\ UNCHANGED <<registry, pc, calls, spent, opened, profiled, cancelled, batch, results>>

\* Without a single page the run ends with an error.
StopsFetching ==
  /\ pc = "fetch" /\ ~(Wanted /\ MayFetch(fetches))
  /\ pc' = IF opened = <<>> THEN "failed" ELSE "qualify"
  /\ UNCHANGED <<registry, budget, pages, cancelled, batch, results>>

-----------------------------------------------------------------------------
(* A batch of questions. *)

BatchSize == 2

Asking == pc \in {"qualify", "verify"}

MayCall == ~spent /\ calls < MaxCalls

InBatch == {opened[i] : i \in (offset + 1 .. offset + BatchSize) \cap DOMAIN opened}

StartsBatch ==
  /\ Asking /\ ~busy /\ offset < Len(opened) /\ MayCall
  /\ calls' = calls + 1
  /\ ask' = {[items |-> InBatch, again |-> FALSE]}
  /\ busy' = TRUE /\ answered' = {} /\ raw' = <<>> /\ asked' = 0
  /\ UNCHANGED <<registry, pc, fetches, spent, pages, cancelled, offset, results>>

\* Pages are numbered as they were found: the question to be put next.
Due(q) == q \in ask /\ \A o \in ask : \E p \in q.items : \A r \in o.items : p <= r

\* Mutant: the last answer about a page wins.
LastWins(old, new) == Over(new, old)

\* A valid answer about a page is kept, a later one does not replace it.
Merged(old, new) ==
  [p \in DOMAIN old \cup DOMAIN new |->
     IF p \in DOMAIN old /\ (old[p] # Invalid_ \/ p \notin DOMAIN new) THEN old[p] ELSE new[p]]

\* Mutant: pages missing from the answer about a single one are asked for again.
FirstTime(q) == ~q.again

AsksAgain(q) == ~q.again /\ Cardinality(q.items) >= 2

\* The answer to a repeated question cannot touch the pages that were named.
Barred(q) == IF q.again THEN answered ELSE {}

\* Pages of a question about several that the answer does not name are asked
\* about one by one.
Takes(q, result) ==
  LET fresh == [p \in DOMAIN result \ Barred(q) |-> result[p]]
      silent == {[items |-> {p}, again |-> TRUE] : p \in q.items \ DOMAIN result}
  IN  /\ raw' = Merged(raw, fresh)
      /\ ask' = (ask \ {q}) \cup (IF AsksAgain(q) THEN silent ELSE {})
      /\ answered' = IF AsksAgain(q) THEN DOMAIN result ELSE answered
      /\ asked' = asked + 1

\* Results are numbered: the model may name any page of the batch.
Results(say) ==
  UNION {{r \in [S -> UNION {say[p] : p \in S}] : \A p \in S : r[p] \in say[p]} :
           S \in SUBSET InBatch}

PageOf(p) == AsRead(Facts[p], p \in profiled)

EvidenceOf(p) ==
  IF p \in DOMAIN answers THEN Evidence(p, Facts[p], answers[p], p \in profiled) ELSE NoEvidence

\* The auditor confirms by supporting claims, of the candidate alone or of all
\* the batch, and rejects by contradicting ones; it may name claims of a page
\* this question did not show.
ClaimsOf(about, side) ==
  UNION {{id \in ClaimIds(p, EvidenceOf(p)) : id[3] = side} : p \in about}

Verdict(opinion, about) ==
  opinion @@ [cites |-> IF opinion.status = "confirmed" THEN ClaimsOf(about, "supports") ELSE {},
              disputes |-> IF opinion.status = "rejected" THEN ClaimsOf(about, "contradicts") ELSE {}]

Verdicts(p) ==
  {Verdict(opinion, about) : opinion \in Opinions[p], about \in {{p}, InBatch}}

Assessments == [p \in InBatch |-> AnswersTo[p] \cup {Invalid_}]
Judgements == [p \in InBatch |-> Verdicts(p) \cup {Invalid_}]

Assesses ==
  /\ pc = "qualify"
  /\ \E q \in ask, result \in Results(Assessments) :
       /\ Due(q) /\ Takes(q, result)
       /\ LET valid == {p \in DOMAIN result : result[p] # Invalid_}
              early == (valid \ q.items) \ (DOMAIN told \cup Barred(q))
          IN  /\ told' = Over(told, [p \in valid \cap q.items |-> result[p]])
              /\ strays' = Over(strays, [p \in early |-> result[p]])
  /\ UNCHANGED <<registry, pc, budget, pages, cancelled, offset, busy, answers, verdicts, cards>>

Audits ==
  /\ pc = "verify"
  /\ \E q \in ask, result \in Results(Judgements) : Due(q) /\ Takes(q, result)
  /\ UNCHANGED <<registry, pc, budget, pages, cancelled, offset, busy, results>>

Lower(items) ==
  {p \in items : Cardinality({o \in items : o < p}) < Cardinality(items) \div 2}

\* An answer that does not fit: the question is halved while it can be.
Halves ==
  /\ Asking
  /\ \E q \in ask :
       /\ Due(q) /\ Lower(q.items) # {}
       /\ ask' = (ask \ {q}) \cup {[items |-> half, again |-> q.again] :
                                   half \in {Lower(q.items), q.items \ Lower(q.items)}}
  /\ asked' = asked + 1
  /\ UNCHANGED <<registry, pc, budget, pages, cancelled, offset, busy, answered, raw, results>>

\* A repeated question that fails, and an answer without a list of results, bring
\* nothing and have nothing asked again.
BringsNothing ==
  /\ Asking
  /\ \E q \in ask : Due(q) /\ ask' = ask \ {q}
  /\ asked' = asked + 1
  /\ UNCHANGED <<registry, pc, budget, pages, cancelled, offset, busy, answered, raw, results>>

Idle == ask' = {} /\ busy' = FALSE /\ answered' = {} /\ raw' = <<>> /\ asked' = 0

EndsBatch ==
  LET valid == {p \in DOMAIN raw : raw[p] # Invalid_}
      kept(old) == Over(old, [p \in valid |-> raw[p]])
  IN
  /\ Asking /\ busy /\ ask = {}
  /\ Idle
  /\ IF cancelled
     THEN /\ pc' = "cancelled"
          /\ UNCHANGED <<offset, answers, verdicts>>
     ELSE /\ offset' = offset + BatchSize
          /\ answers' = IF pc = "qualify" THEN kept(answers) ELSE answers
          /\ verdicts' = IF pc = "verify" THEN kept(verdicts) ELSE verdicts
          /\ UNCHANGED pc
  /\ UNCHANGED <<registry, budget, pages, cancelled, cards, told, strays>>
-----------------------------------------------------------------------------
(* Cards. *)

\* What the gates and the score make of a page, judged by nobody yet.
Qualified(p) ==
  LET page == PageOf(p)
      ev == EvidenceOf(p)
      card == IF p \in DOMAIN answers THEN Gates(page, answers[p], ev) ELSE Unanswered
  IN  [name |-> IF p \in DOMAIN answers THEN answers[p].name ELSE TitleKey[p],
       country |-> card.country,
       score |-> Score(page, card, ev),
       eligible |-> p \in DOMAIN answers /\ Eligible(page, card, ev),
       audit |-> "none"]

NoMoreBatches == ~busy /\ (offset >= Len(opened) \/ ~MayCall)

MakesCards ==
  /\ pc = "qualify" /\ NoMoreBatches
  /\ cards' = [p \in ToSet(opened) |-> Qualified(p)]
  /\ pc' = "verify" /\ offset' = 0
  /\ UNCHANGED <<registry, budget, pages, cancelled, ask, busy, answered, raw, asked, answers,
                 verdicts, told, strays>>

Judged(p) ==
  IF p \in DOMAIN verdicts
  THEN LET audit == Audited(p, cards[p].eligible, EvidenceOf(p), verdicts[p])
       IN  [cards[p] EXCEPT !.audit = audit, !.eligible = audit = "confirmed"]
  ELSE [cards[p] EXCEPT !.audit = "unavailable", !.eligible = FALSE]

\* Cards in the order of the candidates; one without a company is not registered.
ToRegister ==
  LET named == SelectSeq(opened, LAMBDA p : p \in DOMAIN cards /\ cards[p].name # Unnamed)
  IN  [i \in DOMAIN named |->
         [source |-> named[i], key |-> cards[named[i]].name,
          country |-> cards[named[i]].country, score |-> cards[named[i]].score]]

\* Also when nobody was audited: the budget, or an error, ended the audit.
Concludes ==
  /\ cards' = [p \in DOMAIN cards |-> Judged(p)]
  /\ queue' = [queue EXCEPT ![Run] = ToRegister]
  /\ pc' = "register" /\ Idle
  /\ UNCHANGED <<row, own, link, ownLink, at, found, linked, nextId, before, budget, pages,
                 cancelled, offset, answers, verdicts, told, strays>>

EndsAudit == pc = "verify" /\ NoMoreBatches /\ Concludes

\* The model is unavailable, or cuts off its answer about a single page.  In
\* the audit this only ends the audit, without what the batch had brought.
CallFails ==
  /\ \E q \in ask : Due(q) /\ ~q.again
  /\ \/ /\ pc = "qualify" /\ pc' = "failed" /\ Idle
        /\ UNCHANGED <<registry, budget, pages, cancelled, offset, results>>
     \/ pc = "verify" /\ Concludes

-----------------------------------------------------------------------------

Cancel ==
  /\ pc = "fetch" \/ Asking
  /\ ~cancelled
  /\ cancelled' = TRUE
  /\ UNCHANGED <<registry, pc, budget, pages, batch, results>>

\* search_max_runtime_s or search_max_tokens is reached.
RunsOut ==
  /\ pc = "fetch" \/ Asking
  /\ ~spent /\ spent' = TRUE
  /\ UNCHANGED <<registry, pc, fetches, calls, pages, cancelled, batch, results>>

Registers(s) ==
  /\ s = Run => pc = "register"
  /\ Register(s)
  /\ UNCHANGED <<pc, budget, pages, cancelled, batch, results>>

Next ==
  \/ OpensPage \/ PageFails \/ StopsFetching
  \/ StartsBatch \/ Assesses \/ Audits \/ Halves \/ BringsNothing \/ CallFails \/ EndsBatch
  \/ MakesCards \/ EndsAudit
  \/ Cancel \/ RunsOut
  \/ \E s \in Sessions : Registers(s)

Spec == Init /\ [][Next]_vars

-----------------------------------------------------------------------------

OpenedIds == ToSet(opened)

\* Types, and the limits: pages and permits within the budget, at most three
\* calls for a permit, results of pages that were opened.
TypeOK ==
  /\ pc \in {"fetch", "qualify", "verify", "register", "failed", "cancelled"}
  /\ OpenedIds \subseteq Candidates /\ Len(opened) <= Requested /\ profiled \subseteq OpenedIds
  /\ fetches \in 0 .. MaxFetches /\ calls \in 0 .. MaxCalls
  /\ asked \in 0 .. 3
  /\ DOMAIN answers \subseteq OpenedIds /\ DOMAIN verdicts \subseteq OpenedIds
  /\ \A p \in DOMAIN answers : answers[p] \in AnswersTo[p]
  /\ \A s \in Sessions : DOMAIN own[s] \subseteq 1 .. nextId - 1

\* A company of the shortlist was found fit by two readings of its own page:
\* the page was opened, is the company's, and testifies to the substance and to
\* a role the model quoted from it, with a detail or a document besides;
\* nothing quoted denies the substance or names another country; no sourcing
\* network disputes the details; and the auditor confirmed it by claims of this
\* candidate and no other.
ShortlistProven ==
  pc = "register" =>
    \A p \in DOMAIN cards : cards[p].eligible =>
      LET ev == EvidenceOf(p) IN
      /\ p \in OpenedIds /\ Facts[p].long /\ Facts[p].place # "listing"
      /\ \E c \in answers[p].claims :
           c.what = "manufacturer_role" /\ c.side = "supports" /\ c.page = p /\ c.quoted
      /\ "chemical_identity" \in ev.supports \ ev.contradicts
      /\ (Docs \cup Details) \cap ev.supports # {}
      /\ ~ev.abroad /\ Facts[p].volume # "incompatible"
      /\ ("sourcing" \in PageOf(p).says /\ "permit" \notin PageOf(p).says)
           => Details \cap ev.supports = {}
      /\ verdicts[p].status = "confirmed" /\ verdicts[p].cites # {}
      /\ \A id \in verdicts[p].cites : id[1] = p

\* However the answers come, in one piece, halved, repeated or about the wrong
\* page, every opened page has one card, no page with a valid answer is left
\* without it and no answer is overwritten: the card goes by what the model said
\* when it was asked about the page or, where an answer to a question about others
\* had named the page before that, by the first of those (the asked one is dropped).  A call that fails, as one that is cut off
\* at a single page, leaves no card at all: a run keeps every answer or none.
AnswersKept ==
  /\ cards # <<>> \/ pc \in {"verify", "register"} =>
       /\ DOMAIN cards = OpenedIds
       /\ DOMAIN answers = DOMAIN told \cup DOMAIN strays
       /\ \A p \in DOMAIN answers :
            /\ answers[p] = IF p \in DOMAIN strays THEN strays[p] ELSE told[p]
            /\ cards[p].name = answers[p].name
  /\ pc = "failed" => cards = <<>>

\* Refuted: an answer that is not about the page asked for does not count
\* (tests/test_batch_recovery.py:143).  After a halving, or when no page was
\* named, an answer about the one page displaces the later one about the other.
AskedAnswerStands ==
  cards # <<>> => \A p \in DOMAIN told : p \in DOMAIN answers /\ answers[p] = told[p]
=============================================================================
