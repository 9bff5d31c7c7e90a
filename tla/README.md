# ChemSource AI: specifications

TLA+ specifications of the parts of ChemSource AI whose correctness depends on
the order of events: work shared by several processes, leases and deadlines,
letters sent once, mailboxes read again, a browser that goes on when nobody
waits, transactions that overlap, answers of a language model that come in
pieces, and windows in which a buyer works on while an answer is under way.

Paths are relative to `src/backend/app` unless they start with `src/` or name a
file of the frontend.

## 1. The system

A buyer enters a request for quotation (RFQ) for a chemical substance, by a form,
a list or as a substitute for another one. The backend (FastAPI, SQLAlchemy,
PostgreSQL) queues a supplier search for each country; five worker processes
(`src/docker-compose.yml:144`) take searches from the queue, ask a language model
for queries, read web pages, qualify the candidates with the model, put companies
into a registry and optionally send the RFQ to the suppliers found. Answers come
back by email and WhatsApp, are turned into quotations and compared. Echemi, a
marketplace, is served by a browser of its own. All coordination goes through
rows of the database; sessions neither expire objects on commit nor flush before
a query (`core/db.py:42`), so that a handler works with what it read first, and a
commit writes the columns whose value it changed.

| component | state | operations | hard behaviour | what makes it correct |
|---|---|---|---|---|
| search queue (`search_worker.py`, `services/search_lease.py`, `services/search_trace.py`, `api/search_runs.py`) | `search_runs`: status, lease owner / deadline / generation, result | enqueue, claim, heartbeat, sweep, finish, requeue, fail; restart, resume | several workers, users and the sweep on one row; stalls; crashes; retry after an outage | one executor per run; no write by a worker that lost the run; nothing is lost; a cancellation holds |
| search and qualification (`api/supplier_search.py`, `services/page_facts.py`, `supplier_scoring.py`, `supplier_verification.py`, `supplier_registry.py`, `search_budget.py`) | pages, assessments, cards, verdicts; `suppliers` | fetch, assess in batches, halve, ask again, audit, score, register | a model that says anything about anything, budgets that end, runs that register at once | nobody is on the shortlist whose own page does not prove it; the first valid answer about a page reaches its card; a company is one row |
| model slots (`services/llm_capacity.py`) | `llm_slots` rows | set up, take, wait, release | concurrent set-up, death in a call, failing storage | no more calls than slots; slots come back |
| RFQ archive (`services/rfq_service.py`) | `deleted_at`, the runs of the RFQ | archive cancels the runs | against a running worker | nothing of an archived RFQ is started |
| message delivery (`services/communication_delivery.py`, `combined_communication.py`, `search_auto_dispatch.py`, `mailbox.py`, `api/suppliers.py`) | `communications`, `rfq_recipients`, exclusions, decisions | save attempt, call provider, record outcome; choose, exclude, decide | crash around the provider call, double submit, dispatch of minutes against people | one call for a key; "sent" is true; a company gets one automatic letter |
| email inbox (`services/email_workflow.py`, `email_identity.py`, `communication_email_worker.py`) | letters, links, audits, cases, quotations, the mailbox | poll, recognise, read, answer, resume, mark as read | two syncs without a lock, commits in the middle of a letter, death, decisions of people | a letter gives its offers once and one answer; strangers are not answered; what is marked is stored |
| test dialogues (`services/communication_testing.py`, `communication_test_email.py`, `api/communication_testing.py`) | `communication_test_runs`, their messages, audits, a quotation, letters of the sandbox | open, continue, demonstrate, answer by hand; poll and answer | people and the worker on one dialogue with sessions that are not refreshed; a death around the mail server | a letter gets one answer and none against a rule; the limit holds; complete is earned; every letter settles |
| WhatsApp inbox (`services/whatsapp_workflow.py`, `api/whatsapp_web.py`, `src/whatsapp-web`) | gateway queue in memory and in a file, `communications`, tasks, cases | queue, post, store, read in the background, resolve | callbacks repeated and concurrent, tasks in memory, two people on one case | nothing is dropped, order is kept, every reply settles |
| Echemi (`echemi_worker.py`, `services/echemi_delivery.py`, `api/echemi_*.py`, `src/echemi-browser`) | searches, outreach rows, the one browser | search, deliver, progress, recover | busy browser, unknown outcome of a submission, restart | an inquiry of unknown outcome is not repeated; a company is asked once; nothing is orphaned |
| requests: form, import, batches (`services/rfq_import.py`, `rfq_batch_service.py`, `rfq_service.py`, `api/rfq.py`, `RfqImport.tsx`, `NewRfq.tsx`) | the windows, `rfqs`, `rfq_batches` | read a list, correct, submit, retry; type, check, choose, undo, create | answers that come late, a row that fails in the middle of a transaction, a key in two transactions | a row is one request; a failed row leaves nothing; what the buyer wrote is not replaced silently |
| substances and substitutes (`services/substance_service.py`, `substance_resolution.py`, `stoichiometry.py`, `analog_candidates.py`, `analog_service.py`, `AnalogRfqDetail.tsx`) | `substances`, `substance_revisions`, `rfq_analog_candidates` | recognise, enter, decide, edit; suggest, confirm | experts who overlap, a model that mixes substances up | the trail explains every card; neither recommendation nor substitute is the wrong substance |
| domain rate limit (`services/domain_rate_limit.py`) | `domain_rate_slots`, a local fallback | reserve, defer | insertion race, cap of the wait | spacing of requests to a host |
| dialogue policy, escalations, quotations (`services/communication_policy.py`, `communication_profiles.py`, `communication_reply_quality.py`, `completeness.py`, `extraction/parsers.py`) | audits, cases, quotations | judge a message, extract, accumulate, judge a draft; open, resolve, reopen | a model that may answer anything; with the inboxes | a human decides when the rules say so |
| documents, users, prompts, settings, connectors, frontend, renderer, Telegram agent | rows or none | CRUD, parsing, input/output | little or no concurrency | ordinary unit tests reach it |

How they interact: the API and the workers share `search_runs` and nothing else;
a worker's heartbeat thread writes the deadline of the run that its main thread
executes; every model call of a worker goes through the slots; a finished search
writes the registry and calls the automatic dispatch, which uses message
delivery; the inbox workers write the communications the delivery writes and the
cases people resolve; a request queues its searches and its Echemi search in the
transaction that creates it, and creates its card in the catalogue.

`PROJECT.json` lists the components with their status, and every hazard at the
line where it bites with the properties that would catch it.

## 2. Modules

| module | models |
|---|---|
| `SearchQueue` | the search queue, the executor's commits, restart / resume / archive |
| `LeaseRegister` | abstract: what the three lease columns promise |
| `LlmSlots` | the slots at the local model |
| `MessageDelivery` | outbound letters, recipients, both dispatches, exclusion and choice |
| `SendOnce` | abstract: what a row with an idempotency key promises |
| `EchemiJobs` | searches and inquiries through the one browser |
| `EmailInbox` | the mailbox: import, recognition, resumption, answers |
| `DialogueRules` | pure: judgement of a message, collected terms, budget, drafts |
| `TestDialogues` | dialogues of the sandbox: requests of people and the worker; extends `DialogueRules` |
| `EmailWorker` | composes the two syncs of the mail worker |
| `WhatsAppInbox` | gateway, callbacks, background tasks and cases |
| `SupplierCard` | pure: evidence, gates, score and veto of one candidate |
| `SupplierRegistry` | several runs that register companies |
| `Qualification` | the qualification of one run; extends both |
| `ImportRows` | pure: a spreadsheet or CSV file read into rows |
| `SubstanceCatalog` | cards, experts and the trail of revisions |
| `RfqBatches` | the transaction of a batch and of one request; extends both |
| `ImportScreen` | the window of a list |
| `SubstanceNames` | pure: recognition of a typed name |
| `RequestForm` | the form of one request |
| `AnalogCandidates` | pure: which substances may replace a position |
| `AnalogDesk` | the window of substitutes and its two commits |
| `RfqIntake` | composes the four ways a request comes to be |
| `MC...` | constants of the small instances |
| `SearchQueueProofs`, `LlmSlotsProofs`, `MessageDeliveryProofs`, `EchemiJobsProofs`, `EmailWorkerProofs`, `WhatsAppInboxProofs`, `QualificationProofs`, `IntakeProofs` | theorems, for all values of the constants |

### SearchQueue

State. A run is an index in `Runs` with `status`, `group` (RFQ and country, or
`NoRfq`), `owner`, `gen`, `exp` (the lease), `resultBy` and `found` (who wrote
`result_payload`, as a generation, and whether it has candidates) and `retries`
(`llm_auto_retry_count`). `exp` is `none`, `live` or `past`: the deadline is
compared with the clock only.

A worker slot runs one process at a time; `epoch` numbers the processes, and an
identity is the pair, since `worker_identity()` never repeats. `pc` is the
position in `main`, `process_next_job` and `_execute_claimed_job`; `stage` is the
status the executor is about to write; `job` and `token` are the run id and the
generation of the claim.

Sessions. `SessionLocal` sets `expire_on_commit=False` and `autoflush=False`
(`core/db.py:42`). A session keeps the status it read (`seen`), and SQLAlchemy
leaves a column out of the UPDATE when the value assigned equals the remembered
one. `Flush` models this: a worker that remembers `qualifying` and assigns
`qualifying` does not overwrite a cancellation, one that assigns `verifying`
does. Only `_raise_if_cancelled` and the exception handler reread the row.

Actions. Each commit is a step, and so is each read whose answer is used after
another commit. `StageWrite` is `run.status = ...; db.commit()` and `Call` is what
follows it: the stage returns after its cancellation check (`StageReturns`), finds
the run cancelled (`StageCancelled`), fails in a way the stage tolerates, which
skips the check (`StageTolerates`), fails with an HTTP error after committing
`failed` (`SourceFails`, `ModelFails`), or raises (`StageRaises`). `Found` commits
the result. `FenceResult` and `FenceFinal` are the two calls of
`_require_current_lease`; `Release` the last commit; `ErrorRead`, `Requeue` and
`FailJob` the exception handler. `SweepRead` and `SweepWrite` are
`recover_interrupted_jobs`, run at the start of a process and each minute.
`Claim` is one step, as an advisory lock serialises it. `HeartbeatRenews`,
`LeaseExpires` and `Crash` are the environment of the lease.

API handlers are one step each. Enqueuing for several countries is one transaction
in the code and several `Enqueue` steps here.

### LeaseRegister

Grant over a free, lapsed or own lease with a new number; renewal that may revive
a lapsed lease; relief of any set of jobs. `SearchQueue` implements it with
`holder <- owner, fence <- gen, valid <- exp = "live"`.

### LlmSlots

Every transaction of `model_slot` is a step; `ensure_slots` is two, since nothing
locks the table between its query and its commit, and the count before it is a
third. `_try_take` is atomic because of FOR UPDATE SKIP LOCKED. Processes die in
any place, and the table may start with rows left taken by processes that ran
before.

### MessageDelivery and SendOnce

State. A letter is a row of `communications`: one of `ClientKeys` (keys the
interface makes), the key `dispatch-i` of recipient `i`, or a draft without a key.
`about` holds the pairs of RFQ and supplier it is linked to, `place` and `rcpt` the
rows of `rfq_recipients`, `pend` the statuses a session has assigned and not
flushed. `calls`, `accepted` and `auto` are history.

Actions. `ConversationBegins`, `MailBegins`, `DraftBegins`, `DispatchBegins`,
`AutoBegins` and `DispatchDemo` are the entries; `InsertKeyed`,
`InsertForRecipient`, `InsertAuto` and `TakeDraft` the commit before the provider
is called; `CallProvider` the call; `RecordLetter`, `RecordCombined` and
`RecordDispatch` the commit after it. `Flush` fails when a recipient has been
removed meanwhile. A thread dies anywhere (`Die`). People choose, remove, exclude
and decide at any time, and a reply may arrive.

`SendOnce`: registered before sending, sent once at most, and an attempt of
unknown outcome stays pending for ever. `MessageDelivery` implements it with
`state <- Attempt(k)` and `sends <- calls[k]` for the rows with a key.

### EchemiJobs

State. `searches` and `outreach` are the tables in the order of ids, `wanted` what
a request is searched by, `checked` the requests of users that passed the limit
and have not inserted yet, `posted` the posts that are under way to the browser
and outlive the worker that made them, `browser` the one job in it.

Actions. The worker starts (`RecoverDeliveries`, `RecoverSearches`: what was in
progress has an unknown outcome or has failed), claims one inquiry or search, posts, waits, records progress and answer, or gives up. `Arrive` accepts a
post or answers busy. The browser clicks the form (`SubmitClicks`) and learns
afterwards whether the site took it; it may die between the two. `RetrySearch`
queues a search again that a busy browser refused, `BusyRetries` times.

### EmailInbox

Two syncs, the worker's and a request's, run at once without a lock. A sync
commits in the middle of a letter, therefore what it has written and not committed
is kept in `held`, and a death or an exception loses that part only. A unique
constraint is a wait for the other sync (`HeldElsewhere`). `Reconcile` ties stored
letters to suppliers when people or addresses allow it and restores what the
escalation had changed; `ListPending` to `GroupCommit` resume dialogues; `Fetch` to
`MarkSeen` import letters. People read letters, resolve cases, answer and escalate
by hand.

### DialogueRules, TestDialogues, EmailWorker

`DialogueRules` is pure. A text is the set of what the expressions of
`communication_policy.py`, `communication_reply_quality.py` and
`extraction/parsers.py` find in it, a draft the set of what it asks and says.
`Judged` takes the first rule of `RuleOrder` that a text meets, else the model's
answer as far as it is `Coherent`; `Extracted`, `Collected` and `QuoteComplete` are the
extraction with its certainties, the accumulation (a value gives way to one at least
as certain, so the `Surest` is what stays, in whatever order the quotations come) and the
completeness; `Issue` is
`_reply_quality_issue`, and `MayWrite` what `_generate_reply` may return after its
retries and its own fallback.

`TestDialogues` has the row of the dialogue, its messages in the order of ids (the texts
a session has read are a function of those ids), the
audits as far as they count, the mailbox, and a session for each request and for
the worker. A session keeps what it has read (`read`, `status`, `quotation`), and
assigns a status with `SetsStatus`, which writes nothing when the session believes
that the column has that value. A request goes from `stores` over `weighs` (budget
and audit), `judges`, `collects` and `writes` to `delivers` and `records`; the worker
`takes` the letters of a batch, the oldest first, through the same steps, saves its answer in
`Writes` before the mail server is asked, and marks the batch as read at its end.
`Delivers` may fail with the mail taken; a session may die anywhere
(`SessionDies`), an exception in a letter of the worker is `LetterFails`. The
dialogue has a request, whose quotation it collects.

`EmailWorker` runs both syncs in the order of `poll_once`. They write no common
table and every letter belongs to one of them, so a behaviour has letters of one
`kind`.

### WhatsAppInbox

The gateway's queue in memory and in its file, posts of its head with a timeout
after which the same head is posted again while the first request is still being
served, the callback (`Lookup`, `Insert`, `CommitInbound`, `Answer`), the task that
reads a stored reply in the memory of the backend (`Begin`, `Judge...`,
`StoreOffer`, `Parsed`, `TaskFails`), test conversations, and people whose handlers
read before they write (`OpensCase`, `OpensRequest`, then `Resolves`, `Escalates`,
`Summarizes`, `Reopens`). `Written` is the session: a column is written only when
its value differs from what was loaded.

### SupplierCard, SupplierRegistry, Qualification

`SupplierCard` is pure. A page is what the readers of `page_facts.py` find on it, a
quotation of the model whose page it cites and whether it stands there. `Gates`
applies the conditions of `_apply_evidence_gates` with its three early returns,
`Score` and `Eligible` the scoring, `Audited` the veto.

`SupplierRegistry` is `register_qualified_candidate` for several sessions under READ
COMMITTED: a query sees committed rows and its own, a row of another open session
is waited for, and of two sessions that wait for each other one fails.

`Qualification` extends both: `OpensPage` and `PageFails`, then batches of two
through the model. `Assesses` and `Audits` take any answer about any subset of the
batch, `Halves` splits a batch that came back truncated or invalid, a page the
answer does not name is asked for again once (`BringsNothing` when the question
fails or its answer has no list, which is taken as it is), and `EndsBatch` stores
what is there. Two histories follow what the model said: `told` its answer about a
page when it was asked about it, `strays` the first answer about a page from a
question about other pages, given before that page's own. `AnswersKept` says
which of them is on the card: the stray if there is one, otherwise the asked one. `MakesCards` makes one card for each opened page,
`Concludes` applies the verdicts, and the registration is `SupplierRegistry`'s.

### The intake of requests

`ImportRows` reads a file: columns recognised by their heading, numbers with a
comma or a point, units converted, formulas that nobody computed refused, rows
that repeat a number flagged. `RfqBatches` is the server: one transaction, a
savepoint for each row (`CreatesRow`), a key that a second submission finds
(`FindsBatch`) or that another open transaction holds (`KeyHeld`), cards that
another session has inserted (`WaitsFor`, `BreaksDeadlock`). `ImportScreen` is the
window: every call is under way for a while, its answer may come late or never.

`SubstanceCatalog` is what experts do to cards: load, compute, save (`Saves`
writes only the changed columns and a revision). `SubstanceNames` recognises a
name: a world is what registry, searches and model answer, `ResolveSubstance` the order and
the relation of the candidates with the composition the name spells.
`RequestForm` is the form, where a handler works with the fields it found when it
started. `AnalogCandidates` and `AnalogDesk` are substitutes: what may be offered,
and the window whose confirmation commits twice.

`RfqIntake` composes them. The entries share the tables and the handlers of the
server; a behaviour takes one of the entries `import`, `form`, `catalogue` and
`analogs`, which keeps the instance small: what is shared between entries is the
server, and each entry brings the sessions that contend for it.

## 3. Runs

| run | instance | shows |
|---|---|---|
| `queue_zombies` | 2 workers, 1 run, 3 generations, 1 resume, late heartbeats | `TypeOK`, `TokensUnique`, `ImplementsRegister`, `CancelledAtRestIsFinal`, when leases lapse under live workers |
| `queue_exclusive` | 2 workers, 2 runs of one RFQ, 1 process restart each, 3 generations, punctual heartbeats | `OneExecutor`, `WritesUnderLease` |
| `queue_served` | 2 workers, 1 run, 1 process restart each, 8 generations, 2 retries after an outage, fairness | `QueuedIsServed` |
| `queue_resurrects` | 2 workers, 1 run | refutes `CancelledIsFinal`, see section 4 |
| `slots_shared` | 3 threads of 2 processes, 2 slots, 3 rows at the start, fairness | `SlotsAreExclusive`, `CapacityRespected`, `SlotsComeBack` |
| `delivery_once` | 2 threads, 2 RFQs, 1 supplier, 1 client key, 1 draft, 3 recipient ids, 4 requests or changes | `AtMostOnce`, `SentIsTrue`, `AutoWritesOnce`, `ImplementsSendOnce` |
| `echemi_jobs` | 1 RFQ, 2 queries, 2 cards of one company, 2 retries, 2 requests, 1 death, fairness | `SubmittedOnce`, `BlockedNotSubmitted`, `CompanyAskedOnce`, `NoOrphans`, `EverythingEnds` |
| `email_inbox` | worker and request, 2 letters, 2 RFQs, 1 decision, 1 fault | `FreshOnce`, `OnlyLinkedAnswered`, `MarkedAreStored` |
| `email_worker` | the worker alone: 2 letters, 2 RFQs, 2 decisions; or 2 letters of the sandbox, 1 dialogue, 2 requests of a person; 1 fault, fairness | `OneSafeAnswer`, `LettersInBudget`, `CompleteIsEarned`, `EverythingSettles`, `LettersSettle` |
| `whatsapp_inbox` | 2 replies, 2 callbacks, 1 person, 2 of their actions, 1 fault, fairness | `NothingDropped`, `StoredInOrder`, `RepliesSettle` |
| `qualification` | 3 candidates, 2 sessions, 4 fetches, 3 calls, old registry empty or of 2 rows | `ShortlistProven`, `AnswersKept`, `OneRowUnlessOverlap` |
| `rfq_intake` | 2 lists, 2 sessions, 3 experts, 4 worlds of a name, 2 of a substitute | `EachRowOnce`, `RowsStandAlone`, `PreviewKept`, `TrailExplainsCards`, `OwnSpellingKept`, `RecommendationIsAnchor`, `ReplacementIsAnother` |

Bounds. Every constant that starts with `Max` caps a counter the program does not
cap. Two workers, threads, sessions or syncs suffice for every race in the code:
each involves a victim and a rival, and a rival may go through any number of
generations, keys or requests up to the bound. Three generations let a run be
lost, retaken and lost again; two runs are needed for `Restart` and for the order
of the claim. In `queue_served` eight generations exceed what crashes and retries
of one run can use, so that no run waits because of the bound. In `delivery_once`
three recipient ids let a company be taken off the list and chosen again, and two
RFQs make a combined letter. In `echemi_jobs` two cards of one company are what
the rule about companies is about; a death is that of the worker or of the
browser. The letters of `email_inbox` have one and two offers and name one request,
two or none. In `email_worker` the letters of the sandbox say part of an offer, then
most of it or a deal a person has to decide; a person may type in the whole offer,
and the limit of two answers is one for the request and one for a letter.
`qualification` has a manufacturer, a shop with a sourcing network
and a site that is quoted wrongly; about the second the model may give either of
two answers, so that a stray and an asked answer differ; three calls are fewer than halving and auditing
can use. In `rfq_intake` the second list names the substances of the first in
another order, has a formula, a bad number, an empty first line and a row that is
not importable.

Reductions. Symmetry of workers or threads is used in runs without liveness only.
`qualification` has an action constraint, `JustInTime`: steps of the other
session, the cancellation and the end of the time commute with the steps before
what reads them, and are taken just then. `CHECK_DEADLOCK FALSE` stands where the
system may really stop: all letters are sent, all people and bounds are used up.

Fairness. `FairSpec` of the queue assumes that a live worker keeps executing
(`while True` in `main`), that what a stage calls returns (every client has a
timeout), and that time passes. Users, crashes and heartbeats are under no
obligation. The loop claims only while the health check of the model passes
(`process_ready_job`): weak fairness of `Claim` means that the model comes back for
good at some point. For the slots: a call ends, a release follows, deadlines pass;
nothing is assumed of the waiting callers, because the wait has no queue and no
order. For Echemi: the worker's loop and its restart by the container
(`src/docker-compose.yml`), as weak fairness of the worker's steps without a
death; the browser owes nothing, since every wait of the worker has a deadline.
For the mail worker: the polling loop goes on through both syncs (`PollsInbox`,
`PollsSandbox`), since `main` never ends and every exception is caught; people owe
nothing. For WhatsApp: the gateway's timer posts, started requests and tasks go
on; what a fault interrupts is not assumed to go on.

## 4. Where the code and its documentation disagree

`PROJECT.json` quotes the lines. `queue_resurrects` is a listed run; the others are
refuted by TLC under a configuration that is kept beside the modules (TLC names
the first property that fails; the others follow when that one is taken out).

| property | configuration | what the code does |
|---|---|---|
| `CancelledIsFinal` | `queue_resurrects` | a status write overtakes a cancellation that came after the last reread |
| `ResultIsFenced`, `SweepSparesLiveLeases` | `queue_races` | the result is committed before the generation is checked; the sweep judges in memory and writes by id |
| `RestartFindsOwnJobs`, `NothingStaysIntermediate` | `queue_refuted` | the identity is new at each start; `search_completed` without an RFQ is in nobody's reach |
| `CapacityRespected` | `slots_shared` with `InitialRows = 0`, `MaxRows = 6` | on an empty table processes that start together each insert the missing rows |
| `DraftSentOnce`, `ExcludedNotWritten` | `delivery_refuted` | a draft is checked and then marked without a lock; a dispatch works from the list it read at its start |
| `QuotesOnce` | `email_inbox`, added to its invariants | two syncs both resume a letter whose first sync died between two commits |
| `OneQuotation` | `email_worker` with two `Clerks`, `MaxRequests = 3` | two requests that continue one dialogue each make a quotation |
| `CompleteIsEarned` | `email_worker` with `Chemist = TRUE`, `GoalFields = {"price"}` | the handover of a chemist's dialogue sets it complete with an incomplete quotation |
| `EscalatedHasCase`, `RepliesVisible` | `whatsapp_refuted` | two people who resolve the last two cases at once; a task lost with the process |
| `OneRowPerCompany`, `CountryNeverWeaker` | `registry_refuted` | companies are looked for and inserted without a key; the rank is compared with an old read |
| `AskedAnswerStands` | `registry_refuted` | of a halved batch, an answer to the question about one page that also names the other is kept, and the answer to the question about that other page is dropped |
| `LinkedToItsOwn`, `LinkedStays`, `RowsOfThisList`, `ResultOfThisList`, `DismissedStayOut`, `NumberOfTheName` | `intake_refuted` | links by row number of a batch found again; deletion of what was read before; answers for an earlier list; dismissed names that come back; the number of one substance with the name of another |

Met without a property of their own: the early returns of `_apply_evidence_gates`
leave unproven claims of the model in the registry; `_ask_again_for_missing` may
make two calls more where its docstring says one; names that come from a
translation are recommended without the comparison of compositions, and may be
lost to the cut of `_merge` (`services/substance_resolution.py:505`); a truncated
answer about a single page ends the run without a card (a test asks for that); `mark_seen` (`connectors/email.py:411`)
marks what a later step may still refuse; a follow-up is lost when the process
dies after the answer was sent and before it is saved (`email_workflow.py:719`);
a resumed letter may be answered twice (`email_identity.py:753`).

What does hold in the same places is stated beside it: `CancelledAtRestIsFinal`,
`OneExecutor`, `WritesUnderLease`, `CapacityRespected` with at least `Slots` rows,
`FreshOnce`, `OneRowUnlessOverlap`, `AtMostOnce`.

## 5. Proofs

TLAPS proves, for every value of the constants that satisfies the assumptions
named in the modules:

| theorem | statement |
|---|---|
| `TypeCorrect`, `TokensAreUnique`, `LeaseColumnsAlwaysAgree` | `Spec => []TypeOK`, `[]TokensUnique`, `[]LeaseColumnsAgree` |
| `LeasesRefineRegister` | `Spec => ImplementsRegister` |
| `CancelledStaysAtRest` | `Spec => CancelledAtRestIsFinal` |
| `OneExecutorPerRun`, `StatusWrittenUnderLease` | `Punctual => (Spec => []OneExecutor)`, `Punctual => (Spec => WritesUnderLease)` |
| `SlotsTyped`, `SlotsExclusive` | `Spec => []TypeOK`, `[]SlotsAreExclusive` |
| `CapacityIsRespected` | `Enough => (Spec => []CapacityRespected)` |
| `DeliveryTyped`, `CalledAtMostOnce`, `SentTellsTheTruth`, `AutomaticLetterIsOne` | `Spec => []TypeOK`, `[]AtMostOnce`, `[]SentIsTrue`, `[]AutoWritesOnce` |
| `DeliveryRefinesSendOnce` | `Spec => ImplementsSendOnce` |
| `EchemiTyped`, `SubmittedAtMostOnce`, `BlockedWasNotSubmitted`, `CompanyIsAskedOnce`, `NothingIsOrphaned`, `SearchesAreSingle` | `Spec => []TypeOK`, `[]SubmittedOnce`, `[]BlockedNotSubmitted`, `[]CompanyAskedOnce`, `[]NoOrphans`, `[]OneActiveSearch` |
| `WhatIsFoundIsKept` | `Spec => FoundIsKept` |
| `FreshIsOnce`, `LinkedIsAnswered`, `MarkedIsStored` | `Spec => []FreshOnce`, `[]OnlyLinkedAnswered`, `[]MarkedAreStored` |
| `WorkerIsInbox` | `WorkerSpec => Spec` of the inbox |
| `AnsweredOnce`, `BudgetHolds` | `WorkerSpec => []OneSafeAnswer`, `[]LettersInBudget` |
| `EarnedComplete` | `~Chemist => (WorkerSpec => []CompleteIsEarned)` |
| `InboxTyped`, `QueuedUntilStored`, `OrderKept` | `Spec => []TypeOK`, `[]NothingDropped`, `[]StoredInOrder` |
| `QualificationTyped`, `ShortlistIsProven`, `FirstAnswerStands`, `CompanyIsOneRow` | `Spec => []TypeOK`, `[]ShortlistProven`, `[]AnswersKept`, `[]OneRowUnlessOverlap` |
| `RowsAreOnce`, `SavepointsHold`, `TrailIsKept`, `SpellingIsKept` | `Spec => []EachRowOnce`, `[]RowsStandAlone`, `[]TrailExplainsCards`, `OwnSpellingKept` |
| `PreviewIsKept`, `AnchorIsRecommended`, `ReplacementIsOther` | `Spec => []PreviewKept`, `[]RecommendationIsAnchor`, `[]ReplacementIsAnother` |

Three of the properties stand in no listed run and are stated by the modules all
the same: `LeaseColumnsAgree`, `OneActiveSearch` and `FoundIsKept`.

### Queue and slots

`TypeOK` is not inductive. `retries` stays within its bound because `Requeue`
is reached only when the count read was below it, and the status a worker flushes
is one of `Processing` because of where it stands; `ControlOK` says so (a worker
has a job exactly in the positions where it works on one, `stage` fits `pc`,
`tries` is below the maximum at `requeue`). `TypeInv == TypeOK /\ ControlOK` is
inductive. The lemma `BystandersSuffice` reduces each step of one worker to what
it changes of that worker's own variables.

`TokensUnique` rests on one fact: the generation of a run never decreases and a
claim takes one more than any so far. `LeaseColumnsAgree` is inductive with
`TypeInv`: owner and deadline are set and cleared by the same UPDATE, and `Requeue`,
the only step that makes a run `queued` again, releases the lease in its commit.
`LeasesRefineRegister` maps `Claim` to `Grant`, `HeartbeatRenews` to `Renew`,
`LeaseExpires` to `Lapse`, the three releases and the sweep to `Relieve`, and all
else to stuttering.

`OneExecutor` is proved under `Punctual == ~LateHeartbeats /\ MaxResumes = 0`:
heartbeats are on time and nobody resumes. The inductive invariant says that the
worker of a job holds its current lease (`Held`) and that a run a sweep carries
belongs to nobody (`SweptIsAbandoned`). Both hypotheses are needed: a late
heartbeat refutes it by section 4; with resumes, two sweeps that read the same
dead run, a resume after the first has written and a claim after that let the
second sweep take a live lease.

For the slots, `SeatInv` says who is seated (a slot is held exactly in the call and
the release) and that the row of a slot is marked with the process of its user and
not past its deadline: a row that a second caller finds free is therefore nobody's
seat. `Enough == InitialRows >= Slots` is what a set-up that has finished leaves.
Under it `ShrunkInv` says that the table can only shrink from its first rows to
`1 .. Slots`, and that whoever is about to take a row has seen it shrunk; then
seats map injectively to `1 .. Slots`, which bounds the calls. Without `Enough`
a table that is empty at first refutes the capacity (section 4).

### Message delivery

`DeliveryInv` adds to the types: `Numbered` (a recipient below `nextId` has a place,
one above it nothing), `Counted` (a letter with a key that is not in the table was
never sent), `Working` (what a thread holds fits the place of its code), `Owned`
(an attempt with a key about to be called is `sending` and uncalled, and called
once when its answer is recorded) and `Apart` (no two threads are between the
INSERT and the last commit of one keyed letter). `Apart` holds because whoever
inserts a key finds no row, and the row outlives its thread. The refinement
follows step by step: the commit before the call is `Register`, the call `Send`,
the commit after it `Confirm` or `Void`.

`TruthInv` explains "sent": `LettersTrue` and `RecipientsTrue` are the claim,
`Linked` says that the letter of a recipient is linked to its place, `Stored` that
what the provider took is in the table, and `Honest` that what a thread still has
to write (`pend`, `any`, `result`) is true. `Grows` is what no step takes back:
links, acceptances, the demo mode. `ListInv` adds to `AutoWritesOnce` that
recipients of the automatic dispatch exist and that what was taken off the list
stays off it; a second one is entered only where `AutoPicks` finds neither a
recipient nor a letter.

### Echemi

`EchemiInv` lists what each part knows of the others. `Seen`: while the post of a
row is under way nothing of it was clicked. `Recorded`: what is `queued` or
`blocked` is `Untouched`, what is `sent` was confirmed. `Delivers`: the worker's
inquiry is `sending`, and an answer `busy` or `blocked` means that it is untouched.
`Searched`, `Runs` and `Listed` say the same of searches; `Ordered` that only the
last search of a request and a query is open; `NothingOpen` that what is in
progress is the worker's; `OneRow` that a request and a company are one row. The
last gives `CompanyAskedOnce`, and with `Seen` the identifiers in `Rows` are
enough: `FewRows` maps rows injectively into `Rfqs \X Cards`. `SubmittedOnce` rests on
`Recorded`: a row is put back only from `blocked`, and then it was never clicked.

### Email

The tables are shared and no sync locks them, so the invariant separates what a
sync relies on from what all of them leave alone. `Working` says, for each sync
and what it holds uncommitted, what it relies on: the row of the letter it imports
is stored or held (`RowIsThere`), a sender whose offers it reads is linked or about
to be (`Linked`), the audits on its list were put up for resumption with a reason
(`PutUp`). `Grown` is what every step leaves: letters stay stored, links stay,
audits keep their reasons. The lemma `WorksOn` derives from `Grown` alone that
what the other syncs rely on survives a step; `StepWorks`, `StepOf` and
`StepBeside` reduce each action to the sync that takes it. `Apart` says that no two
syncs import one letter: the second to insert its `external_id` waits, and ends in
an exception or goes on alone. `Reasoned` says that an audit put up for
resumption has a reason and a linked sender. `Given` is the claim and its
strengthening: a sync that imports a letter has taken nothing yet from the
requests still left (`Untaken`), and a letter that is not stored has given nothing.
A letter put up for resumption is excluded by `Fresh`, not by a hypothesis: there
the program does answer twice (section 4).

### Mail worker and test dialogues

`WorkerIsInbox` carries the theorems of the inbox to the worker. For the sandbox the
invariant is `DialogueInv`: `DialogueShaped` (types), `AtWork`, `RespondedOnce`,
`Counted` and `Earned`. People and the worker share a dialogue without a lock, and the
worker decides by what its session has read some commits ago. What makes that safe is
in two definitions. `Known` is what it has read, all messages while it has not loaded
the dialogue, and `Unanswered(l)` says that nothing known after letter l is an answer.
`RespondedOnce` says that the mail server has taken no answer to such a letter. It holds
because only the worker answers letters and it commits its message before it asks the
mail server: a death or an exception after that leaves a message which the next load
finds, and the letter is not resumed. `Responding` keeps that message behind every
letter until the mail is recorded.

`Counted` is the budget. The verdict that a letter may be answered is stored with its
audit and reused after a death without counting again. It is still right then: the
answer to another letter in between is a message that comes after this letter too, and
the code takes a letter as answered by any answer after it, so only a letter that is
still `Unanswered` uses its verdict, and nothing was sent since. The request for
quotation that opened the dialogue is charged first, hence `charged > n`.

`Earned` is monotone: what the supplier has said (`Collectedly`, `Certified`) is never
taken back (`SaidStays`), so a person who closes the dialogue on an old reading is right
all the same. `Beside` sums up what any step of a person leaves alone, `Steady` what any
step that closes nothing leaves; each action is reduced to one of them or is a lemma of
its own. `EarnedComplete` assumes `~Chemist`: with a profile of a chemist a handover may
complete a dialogue without the conditions, and `GoalNamed` says by what.
`OneSafeAnswer` speaks of the rule that comes first, as the code decides by it: a letter
that meets `capacity_limitation` and after it `off_topic` is answered.

### WhatsApp

`GatewayInv` says that the queue in memory is the file and the end of `log`
(`QueueInv`), that a request is about a message that was at its head and an
answer about one that is stored (`PostedInv`), and that of the log everything
dropped is stored and at most one more (`StoredInv`): a callback that outlives its
timeout is still about the head, which is what keeps the order.

### Qualification

The lemmas about a card carry the theorem: `RoleIsQuoted` (a manufacturer on the
shortlist was called one by a quotation that stands on its own page),
`RoleIsUndisputed`, `GatesAreShut`, `CountryStands` and `AuditIsOwn`. `RunInv` says
what a batch holds (`Batch`, `Brought`), that the answer that counts for a page
(its stray, otherwise what it was told when asked) is in the batch until it is
accepted and in `answers` afterwards (`ToldKept`), and what the cards are made of
(`CardsMade`). `HistoryGrows` and `ResultsStay` are the steps of it: an answer only
adds to what a batch holds, because the code keeps the first. `RegistryInv`
explains two rows of one name: its claim is about all `Versions` of a row, the
stored one and the copies sessions have written (`Distinct`), `Copies` and
`FoundUnnamed` follow rows that get their name later, and `LookedFor` says that an
insert was preceded by a query that found nothing it could see. That the rows
stored at the start have distinct names is an assumption the claim is relative to.

### Intake

`IntakeInv` is `Shaped`, `Owned` and `Related` (rows have their fields, uncommitted
rows their session, references their rows), `BatchInv` and `CardInv`. `Owned` ties
every uncommitted row to a handler that is at the rows of its batch, which is what
a rollback and a commit need. `OneKey` and `OneRow` say that a key is one batch and
a row of it one request; `JobsKept` that the requests of an open batch are of the
items it has answered; `Searched` that a request has its searches; `Screened` and
`Desked` that what the windows submit is a list of different rows. `Drafted` says
that a draft card has a request of the session that wrote it, and `Saving` what an
expert who has loaded a card relies on when it saves: a card that was no draft is
none, and the request of a decision refers to no other draft. `OneNumber` and
`Trail` hold cards and revisions together. `OtherList` is assumed to have distinct
row numbers, because the server does not check a client's numbering: with
repeated numbers `EachRowOnce` would speak of two items as one row.
`OwnSpellingKept` is an action property of the form alone (`FormInv`): what a
choice does to the names (`AppliedIs`) for whatever candidates `ResolveSubstance` returns
(`ResolvedIs`).

`RecommendationIsAnchor` needs no induction over the list of candidates: `MergedIs`,
`AnnotatedIs` and `FallbackIs` carry "none is marked yet" (`Found`) through the
pipeline, `ReliabilityIs` says that a score is positive exactly when a candidate may be
recommended, and `ResolutionIs` puts them together with `MarkRecommended`. What the
form keeps of an answer is anchored until the next answer. It speaks of the
candidates that are left after the cut of `_merge`, which are all the form sees.

`ReplacementIsAnother` is said of committed requests, long after the comparison of
names. `Sought` follows it: what is suggested for a position is another substance
(`SuggestionIs`); so is a stored candidate (`Suggested`), a row of a batch under way
whose key names the position (`RowsOffered`) and a request of such a batch (`Ordered`).
Two facts make it inductive: tables change names and numbers of no request
(`Steady`), and a key tells positions apart and batches of substitutes from lists.

`PreviewKept` is a claim about two readers, the one of a file and the check of a
request. `ImportableIsValid` is that the first lets through only what the second
takes, with the terms of the list; it is proved for a row whose number is read as one
or not recognised (`NumberCell`), which is what `normalize_cas` leaves of a cell.
`Previewed` carries it: every row of the window is `Sound` whoever wrote it last (the
preview, a corrected cell, a late check), every check under way has the texts of such a
row, and a handler that was given rows by the window has them with the terms of the list
(`Offering`).

`IntakeAssumption` is what these proofs assume of the constants, and TLC evaluates it on
the run: ids and row numbers are numbers, what a model answers is a list, past
candidates were suggested for past positions, and the cells under the number column are
`NumberCell`. Lists are merged by the places of their members (`Leading`, `firsts`) and
maps by `Over`: what the loops of the code leave, said without recursion, which the
prover could not unfold.

### What stays with TLC

- Liveness: the prover does not treat fairness. `QueuedIsServed`, `SlotsComeBack`,
  `EverythingEnds`, `EverythingSettles`, `LettersSettle` and `RepliesSettle` are the only
  properties of passing runs without a theorem.
- The refuted properties of section 4.

## 6. Not modelled

- Queue: the content of stages (a stage is its status, its check and its outcome);
  the keys of `input_payload` other than the retry count (the worker writes the
  whole JSON back, `search_worker.py:358`, so that a count written in between is
  lost); two API requests in the middle of each other; the branch for a deleted
  user (`search_worker.py:320`); `POST /supplier-search` and `POST
  /supplier-search/qualify`, an executor without a lease; two active runs of one
  country after a requeue (`api/supplier_search.py:4135`), which the model contains
  and no document forbids.
- Slots: the order of waiting callers; the limit of the wait is a choice (`Wait`); a
  call that outlives the slot's deadline (900 s against a timeout of 600 s).
- Delivery: texts, attachments, the supplier's other handlers; the demonstration
  mode's loop over recipients (`suppliers.py:739-953`) is one step.
- Email: several addresses of a sender, the "wait" route of referrals, requests in the trash, drafts sent by people; row locks of a
  request and the resolution of a case are one step. So are `Reconcile`, although the
  code calls the model between its reads and its commit
  (`email_identity.py:1099-1222`), and the commits of a reply typed by a person
  (`escalations.py:188-220`). `RequestResume` is without `retry_linked_referral`, a
  resolved case is not resolved again, a delivery failure is not tied to the
  manager it names (`email_workflow.py:1589-1592`). In `EmailWorker` a letter waits
  in the tray until it is linked; its race with the linking is `EmailInbox`'s.
- Test dialogues: translations, the history, the choice of a channel, dialogues
  without a request (they collect no quotation), an answer of the mail server that
  names the wrong mail; the worker never collects a quotation, as in the code. A
  request that dies between the mail server and its commit leaves a mail that is
  sent and recorded nowhere: answers to it are not recognised (`Delivers`,
  `SessionDies`), and `LettersSettle` speaks of mails on record only.
- `DialogueRules`: how a thing is found in a text, the prompts, the editing of
  profiles, the shares of a budget (time, tokens and cost are one choice, `spent`).
- WhatsApp: login, sending through the gateway, media.
- Echemi: several authors, roles, manual control of a captcha, a lost advisory lock
  of a living worker.
- Qualification: how candidates are found, contacts and certificates, marketplace
  sellers, the lookup of a site, flags and texts, two entries about one page in one
  answer, the cut of page texts, the permit for a page of contacts. The two
  queries of `Look` (`supplier_registry.py:386-397`) are one step.
- Intake: letter and translation, cuts of lists (`[:3]`, 50 items), stored marks of
  candidates, names that differ in case only (they are one name), templates. The
  transaction that holds a request also holds its Echemi search, which a run
  stands for. A card is found by name and number: no client sends a
  `substance_id` with a new request (`rfq_service.py:113-116`). A blank note is a note, and
  the verification sent with an edit is left out (`substance_service.py:276,364-365`). A
  name is Cyrillic or international, there is no third kind. In `AnalogCandidates`
  names are compared by words and not by characters (`analog_candidates.py:312`), brands
  without their length (line 259).
- The components marked `not_modelled` in `PROJECT.json`.

Met on the way and outside every property: a retry after a lost answer numbers
its rows from one; `create` right after an edit uses the values of before;
a formula in purity or price is dropped without a word; a decimal comma with three
digits is read as thousands (`services/page_facts.py:1254`); the batch endpoint
queues searches for rows marked as analog; two first submissions of one key may
end with an error instead of the result; a confirmed "different" replaces "same"
when answers are merged; `copyFromRequest` leaves lock and undo of the form; a
batch of substitutes whose rows all failed blocks its key; overlapping choices of
substitutes create a request twice.

## 7. Plan

1. `DomainRateLimit`: reservations per host, the insertion race, the cap.
2. `SearchQueue` composed with `LlmSlots` and with delivery; handlers split into
   read and write.
