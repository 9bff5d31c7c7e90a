----------------------------- MODULE EchemiJobs -----------------------------
(***************************************************************************)
(* Work in the Echemi browser: the rows of echemi_searches and             *)
(* echemi_outreach, the one worker that takes them, and the browser        *)
(* service that executes one job at a time.                                *)
(*                                                                         *)
(* Source: backend/app/echemi_worker.py, services/echemi_delivery.py,      *)
(* services/echemi_rfq.py, connectors/echemi.py, api/echemi_search.py,     *)
(* api/echemi_outreach.py and echemi-browser/app.py, inquiry.py,           *)
(* job_lifecycle.py.                                                       *)
(*                                                                         *)
(* The worker posts a job and waits; the browser may take the post when    *)
(* the worker is dead or has given up.  An advisory lock keeps a second    *)
(* worker out; a death of the worker or of the browser can happen at any   *)
(* step.                                                                   *)
(***************************************************************************)
EXTENDS Naturals, Sequences, FiniteSets

CONSTANTS
  Rfqs,
  Queries,       \* CAS numbers or names an RFQ may have
  Cards,         \* product cards of the site
  Companies, CompanyOf,
  BusyRetries,   \* echemi_busy_retries
  PendingLimit,  \* unfinished searches of one author
  MaxMoves,      \* bound: requests by people and changes of RFQs
  MaxDeaths,     \* bound: deaths of the worker and of the browser
  NoRfq

ASSUME EchemiAssumption ==
  /\ IsFiniteSet(Cards) /\ IsFiniteSet(Rfqs)
  /\ CompanyOf \in [Cards -> Companies]
  /\ BusyRetries \in Nat \ {0} /\ PendingLimit \in Nat
  /\ MaxMoves \in Nat /\ MaxDeaths \in Nat
  /\ NoRfq \notin Rfqs

VARIABLES
  searches,   \* echemi_searches, in the order of their ids
  outreach,   \* echemi_outreach, in the order of their ids
  wanted,     \* what an RFQ is searched by: its CAS or its name
  checked,    \* requests that have passed the limit and not inserted yet
  worker,     \* what the worker does, for which row
  reply,      \* what came back to it
  posted,     \* posts on their way to the browser
  browser,    \* the job in the browser
  clicks,     \* history: presses of the submit button for a row
  confirmed,  \* history: rows whose form the site has accepted
  moves, deaths

tables == <<searches, outreach, wanted, checked>>
site == <<clicks, confirmed>>
bounds == <<moves, deaths>>
vars == <<tables, worker, reply, posted, browser, site, bounds>>

Rows == 1 .. Cardinality(Rfqs) * Cardinality(Cards)   \* unique targets
SearchIds == DOMAIN searches
OutreachIds == DOMAIN outreach

Active == {"queued", "running"}
Settled == {"completed", "partial", "blocked", "failed"}
Usable == {"completed", "partial"}

NoJob == [kind |-> "none", id |-> 0]
Inquiry(o) == [kind |-> "inquiry", id |-> o]
Search(s) == [kind |-> "search", id |-> s]
NoReply == [status |-> "none", found |-> {}]
Idle == [job |-> NoJob, stage |-> "none", found |-> {}]

NewSearch(r, q) ==
  [status |-> "queued", rfq |-> r, query |-> q, results |-> {}, retries |-> 0]

\* The database is new, or has a search that found everything.
Finished(r, q) ==
  [status |-> "completed", rfq |-> r, query |-> q, results |-> Cards, retries |-> 0]

Init ==
  /\ searches \in {<<>>} \cup {<<Finished(r, q)>> : r \in Rfqs, q \in Queries}
  /\ outreach = <<>>
  /\ wanted \in [Rfqs -> Queries]
  /\ checked = 0
  /\ worker = [pc |-> "down", job |-> NoJob]
  /\ reply = NoReply
  /\ posted = {}
  /\ browser = Idle
  /\ clicks = [o \in Rows |-> 0]
  /\ confirmed = {}
  /\ moves = 0 /\ deaths = 0

----------------------------------------------------------------------------
(* Requests for searches.                                                  *)

\* create: the unfinished searches of the author are counted; those of a request
\* need not be his ...
CreateChecks ==
  /\ Cardinality({s \in SearchIds : searches[s].rfq = NoRfq /\ searches[s].status \in Active})
       < PendingLimit
  /\ checked' = checked + 1
  /\ UNCHANGED <<searches, outreach, wanted>>

\* ... and the row is inserted, without a lock in between.
CreateInserts(q) ==
  /\ checked > 0
  /\ checked' = checked - 1
  /\ searches' = Append(searches, NewSearch(NoRfq, q))
  /\ UNCHANGED <<outreach, wanted>>

Previous(r) ==
  {s \in SearchIds : searches[s].rfq = r /\ searches[s].query = wanted[r]}

Latest(S) == {s \in S : \A t \in S : t <= s}

\* Mutant: only a running search is in the way of another.
EnsureUnlessRunning(r) ==
  /\ \A s \in Latest(Previous(r)) : searches[s].status # "running"
  /\ searches' = Append(searches, NewSearch(r, wanted[r]))
  /\ UNCHANGED <<outreach, wanted, checked>>

\* ensure_rfq_search with repeat, under a lock of the RFQ; every caller asks
\* for a repeat.  A query that is empty or too long ends as failed at once.
EnsureRfqSearch(r) ==
  /\ \A s \in Latest(Previous(r)) : searches[s].status \notin Active
  /\ \E status \in {"queued", "failed"} :
       searches' = Append(searches, [NewSearch(r, wanted[r]) EXCEPT !.status = status])
  /\ UNCHANGED <<outreach, wanted, checked>>

\* The CAS or the name of the RFQ is edited.
EditRfq(r, q) ==
  /\ wanted[r] # q
  /\ wanted' = [wanted EXCEPT ![r] = q]
  /\ UNCHANGED <<searches, outreach, checked>>

----------------------------------------------------------------------------
(* Requests for inquiries.                                                 *)

RowsOf(r) == {o \in OutreachIds : outreach[o].rfq = r}
CardsOf(r) == {outreach[o].card : o \in RowsOf(r)}

\* Mutant: only the same card counts.
NoCompanyOf(r) == {}

CompaniesOf(r) == {CompanyOf[c] : c \in CardsOf(r)}

Orders(S) == {f \in [1 .. Cardinality(S) -> S] : \A c \in S : \E i \in DOMAIN f : f[i] = c}

\* enqueue, under a lock of the RFQ: U are the confirmed cards of a finished
\* search.  A card with a row is put back when it was blocked, and left alone
\* otherwise; a company with a row gets no other; of several new cards of a
\* company the first gets the row.
Enqueue(r, U) ==
  /\ \E s \in SearchIds :
       searches[s].rfq = r /\ searches[s].status \in Usable /\ U \subseteq searches[s].results
  /\ \E New \in SUBSET {c \in U \ CardsOf(r) : CompanyOf[c] \notin CompaniesOf(r)} :
       /\ \A c \in U : c \in CardsOf(r) \/ CompanyOf[c] \in CompaniesOf(r)
                       \/ \E d \in New : CompanyOf[d] = CompanyOf[c]
       /\ \A c, d \in New : CompanyOf[c] = CompanyOf[d] => c = d
       /\ \E order \in Orders(New) :
            outreach' =
              [o \in OutreachIds |->
                 IF o \in RowsOf(r) /\ outreach[o].card \in U /\ outreach[o].status = "blocked"
                 THEN [outreach[o] EXCEPT !.status = "queued"] ELSE outreach[o]]
              \o [i \in DOMAIN order |-> [rfq |-> r, card |-> order[i], status |-> "queued"]]
  /\ UNCHANGED <<searches, wanted, checked>>

----------------------------------------------------------------------------
(* The worker.                                                             *)

Becomes(pc, job) == worker' = [pc |-> pc, job |-> job]

SetOutreach(o, status) == outreach' = [outreach EXCEPT ![o].status = status]

\* Mutant: interrupted deliveries are put back like those that wait.
RequeueDeliveries ==
  /\ worker.pc = "down"
  /\ outreach' = [o \in OutreachIds |->
                   IF outreach[o].status = "sending" THEN [outreach[o] EXCEPT !.status = "queued"]
                   ELSE outreach[o]]
  /\ Becomes("starting", NoJob)
  /\ UNCHANGED <<searches, wanted, checked, reply, posted, browser, site>>

\* The lock is taken, recover(db)
RecoverDeliveries ==
  /\ worker.pc = "down"
  /\ outreach' = [o \in OutreachIds |->
                   IF outreach[o].status = "sending" THEN [outreach[o] EXCEPT !.status = "unknown"]
                   ELSE outreach[o]]
  /\ Becomes("starting", NoJob)
  /\ UNCHANGED <<searches, wanted, checked, reply, posted, browser, site>>

\* Mutant: interrupted searches are left as they are.
SkipRecovery ==
  /\ worker.pc = "starting"
  /\ Becomes("loop", NoJob)
  /\ UNCHANGED <<tables, reply, posted, browser, site>>

\* main, before the loop
RecoverSearches ==
  /\ worker.pc = "starting"
  /\ searches' = [s \in SearchIds |->
                   IF searches[s].status = "running" THEN [searches[s] EXCEPT !.status = "failed"]
                   ELSE searches[s]]
  /\ Becomes("loop", NoJob)
  /\ UNCHANGED <<outreach, wanted, checked, reply, posted, browser, site>>

QueuedOutreach == {o \in OutreachIds : outreach[o].status = "queued"}
QueuedSearches == {s \in SearchIds : searches[s].status = "queued"}
Earliest(S) == {s \in S : \A t \in S : s <= t}

\* deliver_one takes the first inquiry: the author may have lost access to
\* the RFQ; otherwise the row is committed as sending, and then its text is
\* decrypted.
ClaimOutreach ==
  /\ worker.pc = "loop"
  /\ \E o \in Earliest(QueuedOutreach) :
        \/ SetOutreach(o, "blocked") /\ UNCHANGED <<worker, reply>>
        \/ SetOutreach(o, "sending") /\ Becomes("post", Inquiry(o)) /\ UNCHANGED reply
        \/ /\ SetOutreach(o, "sending")
           /\ Becomes("wait", Inquiry(o))
           /\ reply' = [NoReply EXCEPT !.status = "blocked"]
  /\ UNCHANGED <<searches, wanted, checked, posted, browser, site>>

\* run_one takes the first search when there is no inquiry.
ClaimSearch ==
  /\ worker.pc = "loop" /\ QueuedOutreach = {}
  /\ \E s \in Earliest(QueuedSearches) :
        /\ searches' = [searches EXCEPT ![s].status = "running"]
        /\ Becomes("post", Search(s))
  /\ UNCHANGED <<outreach, wanted, checked, reply, posted, browser, site>>

\* submit_inquiry, search_echemi
Post ==
  /\ worker.pc = "post"
  /\ posted' = posted \cup {worker.job}
  /\ Becomes("wait", worker.job)
  /\ UNCHANGED <<tables, reply, browser, site>>

Waiting(job) == worker.pc = "wait" /\ worker.job = job /\ reply = NoReply

\* The client gives up after 330 or 930 s, or the connection breaks.
GiveUp ==
  /\ Waiting(worker.job)
  /\ reply' = [NoReply EXCEPT !.status = "error"]
  /\ UNCHANGED <<tables, worker, posted, browser, site>>

\* collect_with_progress, save_progress: the snapshot of a running search
SaveProgress ==
  /\ Waiting(browser.job) /\ browser.job.kind = "search"
  /\ searches[browser.job.id].status = "running"
  /\ searches' = [searches EXCEPT ![browser.job.id].results = browser.found]
  /\ UNCHANGED <<outreach, wanted, checked, worker, reply, posted, browser, site>>

Answered(kind) == worker.pc = "wait" /\ worker.job.kind = kind /\ reply # NoReply

\* Mutant: the answer is stored as it is.
RecordReply ==
  /\ Answered("inquiry")
  /\ SetOutreach(worker.job.id, reply.status)
  /\ Becomes("loop", NoJob) /\ reply' = NoReply
  /\ UNCHANGED <<searches, wanted, checked, posted, browser, site>>

\* Mutant: an error of the transport is taken for a refusal.
RecordErrorAsBlocked ==
  /\ Answered("inquiry")
  /\ SetOutreach(worker.job.id, IF reply.status \in {"busy", "error"} THEN "blocked" ELSE reply.status)
  /\ Becomes("loop", NoJob) /\ reply' = NoReply
  /\ UNCHANGED <<searches, wanted, checked, posted, browser, site>>

\* The end of deliver_one; whatever is not an answer of the browser may have
\* been sent.
RecordInquiry ==
  /\ Answered("inquiry")
  /\ SetOutreach(worker.job.id,
       CASE reply.status = "busy" -> "blocked"
         [] reply.status = "error" -> "unknown"
         [] OTHER -> reply.status)
  /\ Becomes("loop", NoJob) /\ reply' = NoReply
  /\ UNCHANGED <<searches, wanted, checked, posted, browser, site>>

\* Mutant: the attempts are not counted.
RetryForever ==
  /\ Answered("search") /\ reply.status = "busy"
  /\ searches' = [searches EXCEPT ![worker.job.id].status = "queued"]
  /\ Becomes("loop", NoJob) /\ reply' = NoReply
  /\ UNCHANGED <<outreach, wanted, checked, posted, browser, site>>

\* run_one when the browser was busy
RetrySearch ==
  /\ Answered("search") /\ reply.status = "busy"
  /\ LET s == worker.job.id
         attempts == searches[s].retries + 1
     IN searches' = [searches EXCEPT ![s].retries = attempts,
                       ![s].status = IF attempts >= BusyRetries THEN "failed" ELSE "queued"]
  /\ Becomes("loop", NoJob) /\ reply' = NoReply
  /\ UNCHANGED <<outreach, wanted, checked, posted, browser, site>>

\* Mutant: the answer is stored as it is.
RecordAnswer ==
  /\ Answered("search") /\ reply.status # "busy"
  /\ searches' = [searches EXCEPT ![worker.job.id].results = reply.found,
                    ![worker.job.id].status = IF reply.status = "error" THEN "failed" ELSE reply.status]
  /\ Becomes("loop", NoJob) /\ reply' = NoReply
  /\ UNCHANGED <<outreach, wanted, checked, posted, browser, site>>

\* The end of run_one; what was saved on the way is kept when the answer is a
\* failure without results.
RecordSearch ==
  /\ Answered("search") /\ reply.status # "busy"
  /\ LET s == worker.job.id
         status == IF reply.status = "error" THEN "failed" ELSE reply.status
         keep == searches[s].results # {} /\ reply.found = {} /\ status \in {"failed", "blocked"}
     IN searches' = [searches EXCEPT ![s].status = IF keep THEN "partial" ELSE status,
                                     ![s].results = IF keep THEN @ ELSE reply.found]
  /\ Becomes("loop", NoJob) /\ reply' = NoReply
  /\ UNCHANGED <<outreach, wanted, checked, posted, browser, site>>

WorkerDies ==
  /\ worker.pc # "down"
  /\ Becomes("down", NoJob) /\ reply' = NoReply
  /\ UNCHANGED <<tables, posted, browser, site>>

----------------------------------------------------------------------------
(* The browser.                                                            *)

Answer(job, status, found) ==
  IF Waiting(job) THEN reply' = [status |-> status, found |-> found] ELSE UNCHANGED reply

\* A post arrives: one job at a time, the others are refused before they begin.
Arrive(job) ==
  /\ job \in posted
  /\ posted' = posted \ {job}
  /\ \/ browser = Idle /\ browser' = [Idle EXCEPT !.job = job, !.stage = "open"] /\ UNCHANGED reply
     \/ browser # Idle /\ Answer(job, "busy", {}) /\ UNCHANGED browser
  /\ UNCHANGED <<tables, worker, site>>

\* inquiry answers, after it has released the browser.
Finish(status, found) ==
  /\ browser' = Idle
  /\ Answer(browser.job, status, found)

\* submit, before the button: a check fails or something raises, or 300 s are
\* over.
SubmitStops ==
  /\ browser.job.kind = "inquiry" /\ browser.stage = "open"
  /\ \E status \in {"blocked", "unknown"} : Finish(status, {})
  /\ UNCHANGED <<tables, worker, posted, site>>

\* The button is pressed; the click itself may raise before it has an effect.
SubmitClicks ==
  /\ browser.job.kind = "inquiry" /\ browser.stage = "open"
  /\ browser' = [browser EXCEPT !.stage = "clicked"]
  /\ \/ /\ clicks' = [clicks EXCEPT ![browser.job.id] = @ + 1]
        /\ confirmed' \in {confirmed, confirmed \cup {browser.job.id}}
     \/ UNCHANGED site
  /\ UNCHANGED <<tables, worker, reply, posted>>

\* Only a confirmation that newly appears means sent.
SubmitEnds ==
  /\ browser.job.kind = "inquiry" /\ browser.stage = "clicked"
  /\ \/ browser.job.id \in confirmed /\ Finish("sent", {})
     \/ Finish("unknown", {})
  /\ UNCHANGED <<tables, worker, posted, site>>

\* collect reads the cards of the first page.
CollectFinds ==
  /\ browser.job.kind = "search" /\ browser.stage = "open"
  /\ \E found \in (SUBSET Cards) : browser' = [browser EXCEPT !.found = found, !.stage = "listed"]
  /\ UNCHANGED <<tables, worker, reply, posted, site>>

\* The end of /search: a verification that nobody passed, the end of the page,
\* a limit of 900 s or an error.
CollectEnds ==
  /\ browser.job.kind = "search"
  /\ \/ browser.stage = "open" /\ Finish("blocked", {})
     \/ browser.stage = "open" /\ Finish("failed", {})
     \/ browser.stage = "listed" /\ browser.found = {} /\ Finish("completed", {})
     \/ /\ browser.stage = "listed" /\ browser.found # {}
        /\ \E status \in {"completed", "partial"} : Finish(status, browser.found)
  /\ UNCHANGED <<tables, worker, posted, site>>

\* run_connected: the worker is gone; /inquiry has no such watch.
CollectCancelled ==
  /\ browser.job.kind = "search" /\ ~Waiting(browser.job)
  /\ browser' = Idle
  /\ UNCHANGED <<tables, worker, reply, posted, site>>

\* The container of the browser dies with the connections to it.
BrowserDies ==
  /\ posted' = {} /\ browser' = Idle
  /\ browser # Idle \/ posted # {}
  /\ IF \E job \in posted \cup {browser.job} : Waiting(job)
     THEN reply' = [NoReply EXCEPT !.status = "error"] ELSE UNCHANGED reply
  /\ UNCHANGED <<tables, worker, site>>

----------------------------------------------------------------------------

People ==
  \/ CreateChecks
  \/ \E r \in Rfqs : EnsureRfqSearch(r)
  \/ \E r \in Rfqs, q \in Queries : EditRfq(r, q)
  \/ \E r \in Rfqs, U \in (SUBSET Cards) \ {{}} : Enqueue(r, U)

Worker ==
  \/ RecoverDeliveries \/ RecoverSearches
  \/ ClaimOutreach \/ ClaimSearch
  \/ Post \/ GiveUp \/ SaveProgress
  \/ RecordInquiry \/ RetrySearch \/ RecordSearch

Browser ==
  \/ \E job \in posted : Arrive(job)
  \/ SubmitStops \/ SubmitClicks \/ SubmitEnds
  \/ CollectFinds \/ CollectEnds \/ CollectCancelled

Next ==
  \/ moves < MaxMoves /\ moves' = moves + 1 /\ People
       /\ UNCHANGED <<worker, reply, posted, browser, site, deaths>>
  \/ (\E q \in Queries : CreateInserts(q))
       /\ UNCHANGED <<worker, reply, posted, browser, site, bounds>>
  \/ Worker /\ UNCHANGED bounds
  \/ Browser /\ UNCHANGED bounds
  \/ deaths < MaxDeaths /\ deaths' = deaths + 1 /\ (WorkerDies \/ BrowserDies)
       /\ UNCHANGED moves

Spec == Init /\ [][Next]_vars

\* Docker restarts the worker, its loop goes on and its calls have time-outs.
\* Nothing is assumed of the browser: a page may hang in it for good.
FairSpec == Spec /\ WF_vars(Worker /\ UNCHANGED bounds)

----------------------------------------------------------------------------
(* Properties.                                                             *)

Jobs == {NoJob} \cup {Inquiry(o) : o \in OutreachIds} \cup {Search(s) : s \in SearchIds}

TypeOK ==
  /\ searches \in Seq([status : Active \cup Settled, rfq : Rfqs \cup {NoRfq}, query : Queries,
                       results : SUBSET Cards, retries : 0 .. BusyRetries])
  /\ outreach \in Seq([rfq : Rfqs, card : Cards,
                       status : {"queued", "sending", "sent", "blocked", "unknown"}])
  /\ wanted \in [Rfqs -> Queries]
  /\ checked \in Nat
  /\ worker \in [pc : {"down", "starting", "loop", "post", "wait"}, job : Jobs]
  /\ reply \in [status : {"none", "busy", "error", "sent", "unknown"} \cup Settled,
                found : SUBSET Cards]
  /\ posted \subseteq Jobs \ {NoJob}
  /\ browser \in [job : Jobs, stage : {"none", "open", "clicked", "listed"}, found : SUBSET Cards]
  /\ clicks \in [Rows -> Nat]
  /\ confirmed \subseteq DOMAIN clicks
  /\ moves \in 0 .. MaxMoves /\ deaths \in 0 .. MaxDeaths

\* A form is submitted once at most for a row, although people may ask again
\* for what was blocked, the worker may die at any step and the browser goes
\* on when it has.
SubmittedOnce == \A o \in OutreachIds : clicks[o] <= 1

\* What is offered for another attempt was never submitted, and what is
\* called sent was accepted by the site.
BlockedNotSubmitted ==
  \A o \in OutreachIds :
    /\ outreach[o].status \in {"queued", "blocked"} => clicks[o] = 0
    /\ outreach[o].status = "sent" => o \in confirmed

\* A company hears of an RFQ once at most, through whichever of its cards.
CompanyAskedOnce ==
  \A o, p \in OutreachIds :
    /\ clicks[o] > 0 /\ clicks[p] > 0 /\ outreach[o].rfq = outreach[p].rfq
    /\ CompanyOf[outreach[o].card] = CompanyOf[outreach[p].card]
    => o = p

\* The browser is asked for one search at a time for what an RFQ is about.
OneActiveSearch ==
  \A s, t \in SearchIds :
    /\ searches[s].rfq = searches[t].rfq /\ searches[s].rfq # NoRfq
    /\ searches[s].query = searches[t].query
    /\ searches[s].status \in Active /\ searches[t].status \in Active
    => s = t

\* Once the worker is in its loop only the row it works on is in progress.
NoOrphans ==
  worker.pc \in {"loop", "post", "wait"} =>
    /\ \A o \in OutreachIds : outreach[o].status = "sending" => worker.job = Inquiry(o)
    /\ \A s \in SearchIds : searches[s].status = "running" => worker.job = Search(s)

\* What a search has found is not lost when it fails, and a search that has
\* ended does not change.
FoundIsKept ==
  [][\A s \in SearchIds :
       /\ searches[s].results # {} => searches'[s].results # {}
       /\ searches[s].status \in Settled => searches'[s] = searches[s]]_vars

\* Every search and every inquiry ends, however often the browser is busy.
SearchOpen(s) == s \in SearchIds /\ searches[s].status \in Active
InquiryOpen(o) == o \in OutreachIds /\ outreach[o].status \in {"queued", "sending"}

EverythingEnds ==
  /\ \A s \in 1 .. MaxMoves + 1 : SearchOpen(s) ~> ~SearchOpen(s)
  /\ \A o \in Rows : InquiryOpen(o) ~> ~InquiryOpen(o)
=============================================================================
