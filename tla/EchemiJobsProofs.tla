-------------------------- MODULE EchemiJobsProofs --------------------------
(***************************************************************************)
(* The Echemi browser and its worker, for any number of RFQs, cards,       *)
(* companies and deaths: a form is submitted once at most for a row, and   *)
(* what is offered for another attempt was not submitted.                  *)
(***************************************************************************)
EXTENDS EchemiJobs, FiniteSetTheorems, SequenceTheorems, TLAPS

Same(o, p) ==
  /\ outreach[o].rfq = outreach[p].rfq
  /\ CompanyOf[outreach[o].card] = CompanyOf[outreach[p].card]

OneRow == \A o, p \in OutreachIds : Same(o, p) => o = p

\* Nothing of a row has reached the browser, nor is on its way.
Untouched(o) ==
  /\ clicks[o] = 0 /\ o \notin confirmed
  /\ Inquiry(o) \notin posted /\ browser.job # Inquiry(o)

\* What the site has seen of a row, wherever its job is.
Seen(o) ==
  /\ clicks[o] <= 1 /\ (clicks[o] = 0 => o \notin confirmed)
  /\ o \notin OutreachIds => clicks[o] = 0
  /\ Inquiry(o) \in posted => clicks[o] = 0 /\ browser.job # Inquiry(o)
  /\ browser.job = Inquiry(o) /\ browser.stage = "open" => clicks[o] = 0

Recorded(o) ==
  /\ outreach[o].status \in {"queued", "blocked"} => Untouched(o)
  /\ outreach[o].status = "sent" => o \in confirmed

WorksOn ==
  /\ worker.pc # "wait" => reply = NoReply
  /\ reply.status = "none" => reply = NoReply
  /\ worker.job = NoJob <=> worker.pc \in {"down", "starting", "loop"}

Delivers(o) ==
  worker.job = Inquiry(o) =>
    /\ outreach[o].status = "sending"
    /\ worker.pc = "post" => Untouched(o)
    /\ reply.status \in {"none", "busy", "error", "sent", "unknown", "blocked"}
    /\ reply.status \in {"busy", "blocked"} => Untouched(o)
    /\ reply.status = "sent" => o \in confirmed

Fresh(s) ==
  searches[s].results = {} /\ Search(s) \notin posted /\ browser.job # Search(s)

Searched(s) ==
  /\ searches[s].status \in Active => searches[s].retries < BusyRetries
  /\ searches[s].status = "queued" => Fresh(s)
  /\ Search(s) \in posted => browser.job # Search(s)

Runs(s) ==
  worker.job = Search(s) =>
    /\ searches[s].status = "running"
    /\ worker.pc = "post" => Fresh(s)
    /\ reply.status \in {"none", "busy", "error"} \cup Settled
    /\ reply.status = "busy" => Fresh(s)
    /\ Search(s) \in posted => searches[s].results = {}
    /\ searches[s].results # {} =>
         \/ /\ reply = NoReply /\ browser.job = Search(s)
            /\ browser.stage = "listed" /\ browser.found = searches[s].results
         \/ reply.status \in {"error", "blocked", "failed"}
         \/ reply.found # {}

Ordered ==
  \A s, t \in SearchIds :
    /\ s < t /\ searches[s].rfq = searches[t].rfq /\ searches[s].rfq # NoRfq
    /\ searches[s].query = searches[t].query
    => searches[s].status \notin Active

NothingOpen ==
  /\ worker.pc \in {"starting", "loop", "post", "wait"} =>
       \A o \in OutreachIds : outreach[o].status = "sending" => worker.job = Inquiry(o)
  /\ worker.pc \in {"loop", "post", "wait"} =>
       \A s \in SearchIds : searches[s].status = "running" => worker.job = Search(s)

\* What the browser shows is what it has found on the page.
Listed ==
  /\ browser.found # {} => browser.stage = "listed"
  /\ browser.stage = "listed" => browser.job.kind = "search"

EchemiInv ==
  /\ TypeOK
  /\ OneRow /\ OutreachIds \subseteq Rows
  /\ \A o \in Rows : Seen(o)
  /\ \A o \in OutreachIds : Recorded(o) /\ Delivers(o)
  /\ \A s \in SearchIds : Searched(s) /\ Runs(s)
  /\ Ordered
  /\ WorksOn /\ NothingOpen /\ Listed

-----------------------------------------------------------------------------
(* Jobs, ids and rows. *)

SearchRows == [status : Active \cup Settled, rfq : Rfqs \cup {NoRfq}, query : Queries,
               results : SUBSET Cards, retries : 0 .. BusyRetries]
RowStatuses == {"queued", "sending", "sent", "blocked", "unknown"}
OutreachRows == [rfq : Rfqs, card : Cards, status : RowStatuses]

LEMMA JobsDiffer ==
  /\ \A o : Inquiry(o).kind = "inquiry" /\ Inquiry(o).id = o /\ Inquiry(o) # NoJob
  /\ \A s : Search(s).kind = "search" /\ Search(s).id = s /\ Search(s) # NoJob
  /\ \A o, s : Inquiry(o) # Search(s)
  /\ NoJob.kind = "none" /\ NoReply.status = "none" /\ NoReply.found = {}
  /\ Idle.job = NoJob /\ Idle.stage = "none" /\ Idle.found = {}
  BY DEF Inquiry, Search, NoJob, NoReply, Idle

LEMMA JobKinds ==
  ASSUME NEW job \in Jobs
  PROVE  /\ job.kind = "inquiry" => \E o \in OutreachIds : job = Inquiry(o)
         /\ job.kind = "search" => \E s \in SearchIds : job = Search(s)
  BY JobsDiffer DEF Jobs

LEMMA Shapes ==
  ASSUME TypeOK
  PROVE  /\ Len(searches) \in Nat /\ SearchIds = 1 .. Len(searches)
         /\ Len(outreach) \in Nat /\ OutreachIds = 1 .. Len(outreach)
         /\ searches \in Seq(SearchRows) /\ searches \in [SearchIds -> SearchRows]
         /\ outreach \in Seq(OutreachRows) /\ outreach \in [OutreachIds -> OutreachRows]
<1>1. searches \in Seq(SearchRows) /\ outreach \in Seq(OutreachRows)
  BY DEF TypeOK, SearchRows, OutreachRows, RowStatuses
<1>. QED  BY <1>1, LenProperties DEF SearchIds, OutreachIds

LEMMA SequenceOf ==
  ASSUME NEW R, NEW n \in Nat, NEW f \in [1 .. n -> R]
  PROVE  f \in Seq(R) /\ Len(f) = n /\ DOMAIN f = 1 .. n
  OBVIOUS

\* A row of a table gets another value.
LEMMA RowSet ==
  ASSUME NEW R, NEW table \in Seq(R), NEW i \in DOMAIN table, NEW row \in R, NEW new,
         new = [table EXCEPT ![i] = row]
  PROVE  /\ new \in Seq(R) /\ DOMAIN new = DOMAIN table
         /\ \A j \in DOMAIN table : new[j] = IF j = i THEN row ELSE table[j]
<1>1. DOMAIN table = 1 .. Len(table) /\ Len(table) \in Nat
  BY LenProperties
<1>2. new \in Seq(R) /\ Len(new) = Len(table)
  BY <1>1, ExceptSeq
<1>. QED  BY <1>1, <1>2, ExceptSeq, LenProperties

-----------------------------------------------------------------------------
(* The rows of the two tables, pointwise. *)

\* The rows keep their place, their RFQ and their card.
SameRows ==
  /\ OutreachIds' = OutreachIds
  /\ \A o \in OutreachIds :
       outreach'[o].rfq = outreach[o].rfq /\ outreach'[o].card = outreach[o].card

SameSearches ==
  /\ SearchIds' = SearchIds
  /\ \A s \in SearchIds :
       searches'[s].rfq = searches[s].rfq /\ searches'[s].query = searches[s].query

LEMMA OutreachSet ==
  ASSUME TypeOK, NEW o \in OutreachIds, NEW status \in RowStatuses, SetOutreach(o, status)
  PROVE  /\ outreach' \in Seq(OutreachRows) /\ SameRows
         /\ \A p \in OutreachIds :
              outreach'[p].status = IF p = o THEN status ELSE outreach[p].status
<1>. DEFINE row == [outreach[o] EXCEPT !.status = status]
<1>1. outreach \in Seq(OutreachRows) /\ outreach[o] \in OutreachRows
  BY Shapes
<1>2. row \in OutreachRows /\ row.rfq = outreach[o].rfq /\ row.card = outreach[o].card
      /\ row.status = status
  BY <1>1 DEF OutreachRows
<1>3. outreach' = [outreach EXCEPT ![o] = row]
  BY <1>1 DEF SetOutreach
<1>4. /\ outreach' \in Seq(OutreachRows) /\ DOMAIN outreach' = DOMAIN outreach
      /\ \A p \in OutreachIds : outreach'[p] = IF p = o THEN row ELSE outreach[p]
  BY <1>1, <1>2, <1>3, RowSet DEF OutreachIds
<1>. QED  BY <1>2, <1>4 DEF SameRows, OutreachIds

LEMMA SearchSet ==
  ASSUME TypeOK, NEW s \in SearchIds, NEW row \in SearchRows,
         row.rfq = searches[s].rfq, row.query = searches[s].query,
         searches' = [searches EXCEPT ![s] = row]
  PROVE  /\ searches' \in Seq(SearchRows) /\ SameSearches
         /\ \A t \in SearchIds : searches'[t] = IF t = s THEN row ELSE searches[t]
<1>1. searches \in Seq(SearchRows)
  BY Shapes
<1>2. /\ searches' \in Seq(SearchRows) /\ DOMAIN searches' = DOMAIN searches
      /\ \A t \in SearchIds : searches'[t] = IF t = s THEN row ELSE searches[t]
  BY <1>1, RowSet DEF SearchIds
<1>. QED  BY <1>2 DEF SameSearches, SearchIds

LEMMA SearchAdded ==
  ASSUME TypeOK, NEW row \in SearchRows, searches' = Append(searches, row)
  PROVE  /\ searches' \in Seq(SearchRows)
         /\ SearchIds' = SearchIds \cup {Len(searches) + 1}
         /\ Len(searches) + 1 \notin SearchIds
         /\ \A t \in SearchIds : searches'[t] = searches[t] /\ t < Len(searches) + 1
         /\ searches'[Len(searches) + 1] = row
<1>1. Len(searches) \in Nat /\ SearchIds = 1 .. Len(searches) /\ searches \in Seq(SearchRows)
  BY Shapes
<1>2. searches' \in Seq(SearchRows) /\ Len(searches') = Len(searches) + 1
  BY <1>1
<1>3. SearchIds' = 1 .. Len(searches) + 1
  BY <1>2, LenProperties DEF SearchIds
<1>. QED  BY <1>1, <1>2, <1>3

-----------------------------------------------------------------------------
(* The steps of the worker. *)

LEMMA RowsStay ==
  ASSUME OneRow, OutreachIds \subseteq Rows, SameRows
  PROVE  OneRow' /\ (OutreachIds \subseteq Rows)'
  BY DEF OneRow, Same, SameRows, Rows

LEMMA PostStep ==
  ASSUME EchemiInv, Post, UNCHANGED bounds PROVE EchemiInv'
<1>. USE DEF Post, Becomes, tables, site, bounds
<1>0. UNCHANGED <<OutreachIds, SearchIds, Jobs>> /\ SameRows
  BY DEF OutreachIds, SearchIds, Jobs, SameRows
<1>1. worker.job \in Jobs \ {NoJob}
  BY DEF EchemiInv, TypeOK, WorksOn
<1>2. TypeOK'
  BY <1>0, <1>1 DEF EchemiInv, TypeOK
<1>3. OneRow' /\ (OutreachIds \subseteq Rows)'
  BY <1>0, RowsStay DEF EchemiInv
<1>4. ASSUME NEW o \in Rows PROVE Seen(o)'
  <2>1. Seen(o) /\ (o \in OutreachIds => Delivers(o))
    BY DEF EchemiInv
  <2>. QED  BY <1>0, <1>1, <2>1, JobsDiffer DEF Seen, Delivers, Untouched, Jobs
<1>5. ASSUME NEW o \in OutreachIds PROVE Recorded(o)' /\ Delivers(o)'
  <2>1. Recorded(o) /\ Delivers(o) /\ reply.status = "none"
    BY JobsDiffer DEF EchemiInv, WorksOn
  <2>. QED  BY <1>0, <2>1 DEF Recorded, Delivers, Untouched
<1>6. ASSUME NEW s \in SearchIds PROVE Searched(s)' /\ Runs(s)'
  <2>1. Searched(s) /\ Runs(s) /\ reply.status = "none"
    BY JobsDiffer DEF EchemiInv, WorksOn
  <2>. QED  BY <1>0, <2>1 DEF Searched, Runs, Fresh
<1>7. Ordered' /\ WorksOn' /\ NothingOpen'
  BY <1>0, <1>1 DEF EchemiInv, Ordered, WorksOn, NothingOpen
<1>. QED  BY <1>0, <1>2, <1>3, <1>4, <1>5, <1>6, <1>7 DEF EchemiInv, Rows, Listed

LEMMA WorkerDiesStep ==
  ASSUME EchemiInv, WorkerDies, moves' = moves, deaths' \in 0 .. MaxDeaths PROVE EchemiInv'
<1>. USE DEF WorkerDies, Becomes, tables, site
<1>0. UNCHANGED <<OutreachIds, SearchIds, Jobs>> /\ SameRows
  BY DEF OutreachIds, SearchIds, Jobs, SameRows
<1>1. TypeOK'
  BY <1>0, JobsDiffer DEF EchemiInv, TypeOK, Jobs, NoReply
<1>2. OneRow' /\ (OutreachIds \subseteq Rows)'
  BY <1>0, RowsStay DEF EchemiInv
<1>3. \A o \in Rows : Seen(o)'
  BY <1>0 DEF EchemiInv, Seen
<1>4. \A o \in OutreachIds : Recorded(o)' /\ Delivers(o)'
  BY <1>0, JobsDiffer DEF EchemiInv, Recorded, Delivers, Untouched
<1>5. \A s \in SearchIds : Searched(s)' /\ Runs(s)'
  BY <1>0, JobsDiffer DEF EchemiInv, Searched, Runs, Fresh
<1>6. Ordered' /\ WorksOn' /\ NothingOpen'
  BY <1>0, JobsDiffer DEF EchemiInv, Ordered, WorksOn, NothingOpen
<1>. QED  BY <1>0, <1>1, <1>2, <1>3, <1>4, <1>5, <1>6 DEF EchemiInv, Rows, Listed

LEMMA GiveUpStep ==
  ASSUME EchemiInv, GiveUp, UNCHANGED bounds PROVE EchemiInv'
<1>. USE DEF GiveUp, Waiting, tables, site, bounds
<1>0. UNCHANGED <<OutreachIds, SearchIds, Jobs>> /\ SameRows
  BY DEF OutreachIds, SearchIds, Jobs, SameRows
<1>a. reply'.status = "error" /\ reply'.found = {}
  BY DEF NoReply
<1>1. TypeOK'
  BY <1>0, JobsDiffer DEF EchemiInv, TypeOK, NoReply
<1>2. OneRow' /\ (OutreachIds \subseteq Rows)'
  BY <1>0, RowsStay DEF EchemiInv
<1>3. \A o \in Rows : Seen(o)'
  BY <1>0 DEF EchemiInv, Seen
<1>4. \A o \in OutreachIds : Recorded(o)' /\ Delivers(o)'
  BY <1>0, <1>a DEF EchemiInv, Recorded, Delivers, Untouched
<1>5. \A s \in SearchIds : Searched(s)' /\ Runs(s)'
  BY <1>0, <1>a DEF EchemiInv, Searched, Runs, Fresh
<1>6. Ordered' /\ WorksOn' /\ NothingOpen'
  BY <1>0, <1>a DEF EchemiInv, Ordered, WorksOn, NothingOpen
<1>. QED  BY <1>0, <1>1, <1>2, <1>3, <1>4, <1>5, <1>6 DEF EchemiInv, Rows, Listed

\* What follows for the searches from a step that leaves them alone.
LEMMA SearchesStay ==
  ASSUME EchemiInv, UNCHANGED <<searches, posted, browser>>,
         worker'.job \in {NoJob} \cup {Inquiry(o) : o \in OutreachIds}
  PROVE  Ordered' /\ \A s \in SearchIds : Searched(s)' /\ Runs(s)'
<1>1. \A s \in SearchIds : worker'.job # Search(s)
  BY JobsDiffer
<1>2. \A s \in SearchIds : Searched(s)' /\ Runs(s)'
  BY <1>1 DEF EchemiInv, Searched, Fresh, Runs, SearchIds
<1>3. Ordered'
  BY DEF EchemiInv, Ordered, SearchIds
<1>. QED  BY <1>2, <1>3

LEMMA RecoverDeliveriesStep ==
  ASSUME EchemiInv, RecoverDeliveries, UNCHANGED bounds PROVE EchemiInv'
<1>. USE DEF RecoverDeliveries, Becomes, site, bounds
<1>. DEFINE row(o) == IF outreach[o].status = "sending"
                      THEN [outreach[o] EXCEPT !.status = "unknown"] ELSE outreach[o]
<1>a. /\ OutreachIds = 1 .. Len(outreach) /\ Len(outreach) \in Nat
      /\ \A o \in OutreachIds : outreach[o] \in OutreachRows
  BY Shapes DEF EchemiInv
<1>b. \A o \in OutreachIds : row(o) \in OutreachRows
  BY <1>a DEF OutreachRows, RowStatuses
<1>c. outreach' = [o \in 1 .. Len(outreach) |-> row(o)]
  BY <1>a
<1>d. outreach' \in Seq(OutreachRows) /\ OutreachIds' = OutreachIds
  BY <1>a, <1>b, <1>c, SequenceOf DEF OutreachIds
<1>e. \A o \in OutreachIds : outreach'[o] = row(o)
  BY <1>a, <1>c
<1>f. \A o \in OutreachIds :
        /\ outreach'[o].status = IF outreach[o].status = "sending" THEN "unknown"
                                 ELSE outreach[o].status
        /\ outreach'[o].rfq = outreach[o].rfq /\ outreach'[o].card = outreach[o].card
  BY <1>a, <1>e DEF OutreachRows
<1>0. UNCHANGED <<SearchIds, Jobs>> /\ SameRows
  BY <1>d, <1>f DEF SearchIds, Jobs, SameRows
<1>1. TypeOK'
  BY <1>0, <1>d DEF EchemiInv, TypeOK, OutreachRows, RowStatuses, Jobs
<1>2. OneRow' /\ (OutreachIds \subseteq Rows)'
  BY <1>0, RowsStay DEF EchemiInv
<1>3. \A o \in Rows : Seen(o)'
  BY <1>d DEF EchemiInv, Seen
<1>4. \A o \in OutreachIds : Recorded(o)' /\ Delivers(o)'
  BY <1>f, JobsDiffer DEF EchemiInv, Recorded, Delivers, Untouched
<1>5. Ordered' /\ \A s \in SearchIds : Searched(s)' /\ Runs(s)'
  BY SearchesStay
<1>6. WorksOn' /\ NothingOpen'
  BY <1>d, <1>f, JobsDiffer DEF EchemiInv, WorksOn, NothingOpen
<1>. QED  BY <1>0, <1>d, <1>1, <1>2, <1>3, <1>4, <1>5, <1>6 DEF EchemiInv, Rows, Listed

LEMMA ClaimOutreachStep ==
  ASSUME EchemiInv, ClaimOutreach, UNCHANGED bounds PROVE EchemiInv'
<1>. USE DEF site, bounds
<1>a. PICK o \in OutreachIds :
        /\ outreach[o].status = "queued" /\ worker.pc = "loop"
        /\ UNCHANGED <<searches, wanted, checked, posted, browser, site>>
        /\ \/ SetOutreach(o, "blocked") /\ UNCHANGED <<worker, reply>>
           \/ SetOutreach(o, "sending") /\ Becomes("post", Inquiry(o)) /\ UNCHANGED reply
           \/ /\ SetOutreach(o, "sending") /\ Becomes("wait", Inquiry(o))
              /\ reply' = [NoReply EXCEPT !.status = "blocked"]
  BY DEF ClaimOutreach, Earliest, QueuedOutreach
<1>b. PICK status \in {"blocked", "sending"} :
        /\ SetOutreach(o, status)
        /\ status = "blocked" <=> UNCHANGED <<worker, reply>>
  BY <1>a, JobsDiffer DEF Becomes, EchemiInv, WorksOn
<1>c. worker'.job = Inquiry(o) => status = "sending"
  BY <1>a, <1>b, JobsDiffer DEF EchemiInv, WorksOn
<1>d. /\ outreach' \in Seq(OutreachRows) /\ SameRows
      /\ \A p \in OutreachIds :
           outreach'[p].status = IF p = o THEN status ELSE outreach[p].status
  BY <1>b, OutreachSet DEF EchemiInv, RowStatuses
<1>0. UNCHANGED <<OutreachIds, SearchIds, Jobs>>
  BY <1>a, <1>d DEF SearchIds, Jobs, SameRows
<1>e. Untouched(o) /\ worker.job = NoJob /\ reply = NoReply
  BY <1>a, JobsDiffer DEF EchemiInv, Recorded, WorksOn
<1>1. TypeOK'
  <2>1. worker' \in [pc : {"loop", "post", "wait"}, job : Jobs]
    BY <1>a, <1>e DEF Becomes, Jobs, EchemiInv, TypeOK
  <2>2. reply' = reply \/ reply' = [status |-> "blocked", found |-> {}]
    BY <1>a DEF NoReply
  <2>. QED  BY <1>0, <1>a, <1>d, <2>1, <2>2
            DEF EchemiInv, TypeOK, OutreachRows, RowStatuses, Settled
<1>2. OneRow' /\ (OutreachIds \subseteq Rows)'
  BY <1>d, RowsStay DEF EchemiInv
<1>3. \A p \in Rows : Seen(p)'
  BY <1>0, <1>a DEF EchemiInv, Seen
<1>g. reply' = reply \/ (reply'.status = "blocked" /\ reply'.found = {} /\ worker'.pc = "wait")
  BY <1>a DEF NoReply, Becomes
<1>h. worker'.job \in {NoJob, Inquiry(o)} /\ worker'.pc \in {"loop", "post", "wait"}
      /\ (worker'.job = NoJob <=> worker'.pc = "loop")
      /\ (status = "sending" => worker'.job = Inquiry(o))
  BY <1>a, <1>b, <1>e, JobsDiffer DEF Becomes, NoReply
<1>4. ASSUME NEW p \in OutreachIds PROVE Recorded(p)' /\ Delivers(p)'
  <2>1. Recorded(p)'
    BY <1>a, <1>b, <1>d, <1>e DEF EchemiInv, Recorded, Untouched
  <2>2. p # o => worker'.job # Inquiry(p)
    BY <1>h, JobsDiffer
  <2>3. Untouched(o)'
    BY <1>a, <1>e DEF Untouched
  <2>4. reply'.status \in {"none", "blocked"}
    BY <1>e, <1>g, JobsDiffer
  <2>5. p = o => Delivers(p)'
    BY <1>c, <1>d, <2>3, <2>4 DEF Delivers
  <2>. QED  BY <2>1, <2>2, <2>5 DEF Delivers
<1>5. Ordered' /\ \A s \in SearchIds : Searched(s)' /\ Runs(s)'
  BY <1>a, <1>h, SearchesStay
<1>6. WorksOn'
  BY <1>e, <1>g, <1>h, JobsDiffer DEF WorksOn
<1>7. NothingOpen'
  BY <1>0, <1>a, <1>b, <1>d, <1>e, <1>h, JobsDiffer DEF EchemiInv, NothingOpen
<1>. QED  BY <1>0, <1>a, <1>1, <1>2, <1>3, <1>4, <1>5, <1>6, <1>7 DEF EchemiInv, Rows, Listed

LEMMA RecordInquiryStep ==
  ASSUME EchemiInv, RecordInquiry, UNCHANGED bounds PROVE EchemiInv'
<1>. USE DEF site, bounds
<1>. DEFINE status == CASE reply.status = "busy" -> "blocked"
                        [] reply.status = "error" -> "unknown"
                        [] OTHER -> reply.status
<1>a. /\ worker.pc = "wait" /\ worker.job.kind = "inquiry" /\ reply # NoReply
      /\ SetOutreach(worker.job.id, status) /\ worker' = [pc |-> "loop", job |-> NoJob]
      /\ reply' = NoReply /\ UNCHANGED <<searches, wanted, checked, posted, browser, site>>
  BY DEF RecordInquiry, Answered, Becomes
<1>b. PICK o \in OutreachIds : worker.job = Inquiry(o)
  BY <1>a, JobKinds DEF EchemiInv, TypeOK
<1>c. SetOutreach(o, status) /\ Delivers(o) /\ reply.status # "none"
  BY <1>a, <1>b, JobsDiffer DEF EchemiInv, WorksOn
<1>d. /\ status \in {"sent", "unknown", "blocked"}
      /\ status = "blocked" => Untouched(o)
      /\ status = "sent" => o \in confirmed
  BY <1>b, <1>c DEF Delivers
<1>. HIDE DEF status
<1>e. /\ outreach' \in Seq(OutreachRows) /\ SameRows
      /\ \A p \in OutreachIds :
           outreach'[p].status = IF p = o THEN status ELSE outreach[p].status
  BY <1>c, <1>d, OutreachSet DEF EchemiInv, RowStatuses
<1>0. UNCHANGED <<OutreachIds, SearchIds, Jobs>>
  BY <1>a, <1>e DEF SearchIds, Jobs, SameRows
<1>1. TypeOK'
  BY <1>0, <1>a, <1>e, JobsDiffer
  DEF EchemiInv, TypeOK, OutreachRows, RowStatuses, Jobs, NoReply
<1>2. OneRow' /\ (OutreachIds \subseteq Rows)'
  BY <1>e, RowsStay DEF EchemiInv
<1>3. \A p \in Rows : Seen(p)'
  BY <1>0, <1>a DEF EchemiInv, Seen
<1>4. ASSUME NEW p \in OutreachIds PROVE Recorded(p)' /\ Delivers(p)'
  <2>1. Recorded(p)'
    BY <1>a, <1>d, <1>e DEF EchemiInv, Recorded, Untouched
  <2>2. Delivers(p)'
    BY <1>a, JobsDiffer DEF Delivers
  <2>. QED  BY <2>1, <2>2
<1>5. Ordered' /\ \A s \in SearchIds : Searched(s)' /\ Runs(s)'
  BY <1>a, SearchesStay
<1>6. WorksOn'
  BY <1>a DEF WorksOn
<1>7. NothingOpen'
  BY <1>0, <1>a, <1>b, <1>d, <1>e, JobsDiffer DEF EchemiInv, NothingOpen
<1>. QED  BY <1>0, <1>a, <1>1, <1>2, <1>3, <1>4, <1>5, <1>6, <1>7 DEF EchemiInv, Rows, Listed

\* What follows for the inquiries from a step that leaves them alone.
LEMMA InquiriesStay ==
  ASSUME EchemiInv, UNCHANGED <<outreach, posted, browser, site>>,
         worker'.job \in {worker.job, NoJob} \cup {Search(s) : s \in SearchIds},
         worker'.job \in {worker.job} \ {NoJob} => UNCHANGED <<worker, reply>>
  PROVE  /\ OneRow' /\ (OutreachIds \subseteq Rows)' /\ UNCHANGED OutreachIds
         /\ \A o \in Rows : Seen(o)'
         /\ \A o \in OutreachIds : Recorded(o)' /\ Delivers(o)'
<1>1. UNCHANGED OutreachIds /\ SameRows
  BY DEF OutreachIds, SameRows
<1>2. \A o : worker'.job = Inquiry(o) => UNCHANGED <<worker, reply>>
  BY JobsDiffer
<1>3. \A o \in Rows : Seen(o)'
  BY <1>1 DEF EchemiInv, Seen, site
<1>4. \A o \in OutreachIds : Recorded(o)' /\ Delivers(o)'
  BY <1>2 DEF EchemiInv, Recorded, Delivers, Untouched, site
<1>. QED  BY <1>1, <1>3, <1>4, RowsStay DEF EchemiInv

LEMMA RecoverSearchesStep ==
  ASSUME EchemiInv, RecoverSearches, UNCHANGED bounds PROVE EchemiInv'
<1>. USE DEF RecoverSearches, Becomes, site, bounds
<1>. DEFINE row(s) == IF searches[s].status = "running"
                      THEN [searches[s] EXCEPT !.status = "failed"] ELSE searches[s]
<1>a. /\ SearchIds = 1 .. Len(searches) /\ Len(searches) \in Nat
      /\ \A s \in SearchIds : searches[s] \in SearchRows
  BY Shapes DEF EchemiInv
<1>b. \A s \in SearchIds : row(s) \in SearchRows
  BY <1>a DEF SearchRows, Settled
<1>c. searches' = [s \in 1 .. Len(searches) |-> row(s)]
  BY <1>a
<1>d. searches' \in Seq(SearchRows) /\ SearchIds' = SearchIds
  BY <1>a, <1>b, <1>c, SequenceOf DEF SearchIds
<1>e. \A s \in SearchIds : searches'[s] = row(s)
  BY <1>a, <1>c
<1>f. \A s \in SearchIds :
        /\ searches'[s].status = IF searches[s].status = "running" THEN "failed"
                                 ELSE searches[s].status
        /\ searches'[s].rfq = searches[s].rfq /\ searches'[s].query = searches[s].query
        /\ searches'[s].results = searches[s].results
        /\ searches'[s].retries = searches[s].retries
  BY <1>a, <1>e DEF SearchRows
<1>1. /\ OneRow' /\ (OutreachIds \subseteq Rows)' /\ UNCHANGED OutreachIds
      /\ \A o \in Rows : Seen(o)'
      /\ \A o \in OutreachIds : Recorded(o)' /\ Delivers(o)'
  BY InquiriesStay DEF EchemiInv, WorksOn
<1>2. TypeOK'
  BY <1>1, <1>d, JobsDiffer DEF EchemiInv, TypeOK, SearchRows, Jobs
<1>3. \A s \in SearchIds : Searched(s)' /\ Runs(s)'
  BY <1>f, JobsDiffer DEF EchemiInv, Searched, Runs, Fresh, Active
<1>4. Ordered'
  BY <1>d, <1>f DEF EchemiInv, Ordered, Active
<1>5. WorksOn' /\ NothingOpen'
  BY <1>1, <1>d, <1>f DEF EchemiInv, WorksOn, NothingOpen
<1>. QED  BY <1>1, <1>2, <1>3, <1>4, <1>5, <1>d DEF EchemiInv, Rows, Listed

\* One search gets another state; s is the job of the worker, or becomes it.
LEMMA SearchMoves ==
  ASSUME EchemiInv, NEW s \in SearchIds, NEW row \in SearchRows,
         row.rfq = searches[s].rfq, row.query = searches[s].query,
         searches' = [searches EXCEPT ![s] = row],
         UNCHANGED <<outreach, wanted, checked, posted, browser, site, bounds>>,
         worker' \in [pc : {"loop", "post", "wait"}, job : {NoJob, Search(s)}],
         worker'.pc = "loop" <=> worker'.job = NoJob,
         worker.job \in {NoJob, Search(s)}, worker.pc \in {"loop", "wait"},
         reply' = NoReply,
         worker'.job \in {worker.job} \ {NoJob} => UNCHANGED <<worker, reply>>,
         searches[s].status \in Active,
         row.status \in Active => row.retries < BusyRetries,
         row.status = "running" <=> worker'.job = Search(s),
         row.status = "queued" \/ worker'.pc = "post" =>
          row.results = {} /\ Search(s) \notin posted /\ browser.job # Search(s),
         worker'.pc = "wait" /\ row.results # {} =>
           /\ browser.job = Search(s) /\ browser.stage = "listed" /\ browser.found = row.results
           /\ Search(s) \notin posted
  PROVE  EchemiInv'
<1>. USE DEF bounds
<1>a. /\ searches' \in Seq(SearchRows) /\ SameSearches
      /\ \A t \in SearchIds : searches'[t] = IF t = s THEN row ELSE searches[t]
  BY SearchSet DEF EchemiInv
<1>1. /\ OneRow' /\ (OutreachIds \subseteq Rows)' /\ UNCHANGED OutreachIds
      /\ \A o \in Rows : Seen(o)'
      /\ \A o \in OutreachIds : Recorded(o)' /\ Delivers(o)'
  BY InquiriesStay
<1>0. SearchIds' = SearchIds /\ Jobs' = Jobs
  BY <1>1, <1>a DEF SameSearches, Jobs
<1>2. TypeOK'
  <2>1. worker' \in [pc : {"loop", "post", "wait"}, job : Jobs']
    BY <1>0 DEF Jobs
  <2>2. NoReply \in [status : {"none"}, found : SUBSET Cards]
    BY DEF NoReply
  <2>. QED  BY <1>0, <1>a, <2>1, <2>2 DEF EchemiInv, TypeOK, SearchRows, site
<1>3. ASSUME NEW t \in SearchIds PROVE Searched(t)' /\ Runs(t)'
  <2>1. Searched(t) /\ Runs(t)
    BY DEF EchemiInv
  <2>2. t # s => worker'.job # Search(t)
    BY JobsDiffer
  <2>3. CASE t # s
    BY <1>a, <2>1, <2>2, <2>3 DEF Searched, Runs, Fresh
  <2>4. CASE t = s
    <3>1. Searched(s)'
      BY <1>a, <2>1, <2>4 DEF Searched, Fresh
    <3>2. reply'.status = "none"
      BY JobsDiffer
    <3>3. Search(s) \in posted' => row.results = {} \/ worker'.job = NoJob
      BY DEF EchemiInv
    <3>4. Runs(s)'
      BY <1>a, <3>2, <3>3, JobsDiffer DEF Runs, Fresh
    <3>. QED  BY <2>4, <3>1, <3>4
  <2>. QED  BY <2>3, <2>4
<1>4. Ordered'
  BY <1>0, <1>a DEF EchemiInv, Ordered, SameSearches
<1>5. WorksOn'
  BY JobsDiffer DEF WorksOn
<1>6. NothingOpen'
  <2>1. \A o \in OutreachIds : outreach[o].status # "sending"
    BY JobsDiffer DEF EchemiInv, NothingOpen
  <2>2. \A t \in SearchIds : t # s => searches[t].status # "running"
    BY JobsDiffer DEF EchemiInv, NothingOpen
  <2>. QED  BY <1>0, <1>1, <1>a, <2>1, <2>2 DEF NothingOpen
<1>. QED  BY <1>0, <1>1, <1>2, <1>3, <1>4, <1>5, <1>6 DEF EchemiInv, Rows, Listed

LEMMA ClaimSearchStep ==
  ASSUME EchemiInv, ClaimSearch, UNCHANGED bounds PROVE EchemiInv'
<1>a. PICK s \in SearchIds :
        /\ searches[s].status = "queued" /\ worker.pc = "loop"
        /\ searches' = [searches EXCEPT ![s].status = "running"]
        /\ worker' = [pc |-> "post", job |-> Search(s)]
        /\ UNCHANGED <<outreach, wanted, checked, reply, posted, browser, site>>
  BY DEF ClaimSearch, Earliest, QueuedSearches, Becomes
<1>. DEFINE row == [searches[s] EXCEPT !.status = "running"]
<1>b. searches[s] \in SearchRows /\ searches \in [SearchIds -> SearchRows]
  BY Shapes DEF EchemiInv
<1>c. /\ row \in SearchRows /\ row.rfq = searches[s].rfq /\ row.query = searches[s].query
      /\ row.status = "running" /\ row.results = searches[s].results
      /\ row.retries = searches[s].retries
  BY <1>b DEF SearchRows, Active
<1>d. searches' = [searches EXCEPT ![s] = row]
  BY <1>a, <1>b
<1>. HIDE DEF row
<1>e. Searched(s) /\ Fresh(s) /\ row.retries < BusyRetries /\ row.results = {}
  BY <1>a, <1>c DEF EchemiInv, Searched, Fresh, Active
<1>f. worker.job = NoJob /\ reply' = NoReply
  BY <1>a DEF EchemiInv, WorksOn
<1>g. /\ worker' \in [pc : {"loop", "post", "wait"}, job : {NoJob, Search(s)}]
      /\ worker'.pc = "post" /\ worker'.job = Search(s) /\ worker'.job # NoJob
  BY <1>a, JobsDiffer
<1>h. searches[s].status \in Active /\ Search(s) \notin posted /\ browser.job # Search(s)
  BY <1>a, <1>e DEF Fresh, Active
<1>. QED  BY <1>a, <1>c, <1>d, <1>e, <1>f, <1>g, <1>h, SearchMoves

LEMMA SaveProgressStep ==
  ASSUME EchemiInv, SaveProgress, UNCHANGED bounds PROVE EchemiInv'
<1>a. /\ worker.pc = "wait" /\ worker.job = browser.job /\ reply = NoReply
      /\ browser.job.kind = "search"
      /\ UNCHANGED <<outreach, wanted, checked, worker, reply, posted, browser, site>>
  BY DEF SaveProgress, Waiting
<1>b. PICK s \in SearchIds : browser.job = Search(s)
  BY <1>a, JobKinds DEF EchemiInv, TypeOK
<1>c. /\ searches[s].status = "running"
      /\ searches' = [searches EXCEPT ![s].results = browser.found]
  <2>1. browser.job.id = s
    BY <1>b, JobsDiffer
  <2>. QED  BY <2>1 DEF SaveProgress
<1>. DEFINE row == [searches[s] EXCEPT !.results = browser.found]
<1>d. searches[s] \in SearchRows /\ searches \in [SearchIds -> SearchRows]
      /\ browser.found \in SUBSET Cards
  BY Shapes DEF EchemiInv, TypeOK
<1>e. /\ row \in SearchRows /\ row.rfq = searches[s].rfq /\ row.query = searches[s].query
      /\ row.status = "running" /\ row.results = browser.found
      /\ row.retries = searches[s].retries
  BY <1>c, <1>d DEF SearchRows
<1>f. searches' = [searches EXCEPT ![s] = row]
  BY <1>c, <1>d
<1>. HIDE DEF row
<1>g. row.retries < BusyRetries /\ Search(s) \notin posted
  BY <1>b, <1>c, <1>e DEF EchemiInv, Searched, Active
<1>h. browser.found # {} => browser.stage = "listed"
  BY DEF EchemiInv, Listed
<1>i. worker' \in [pc : {"loop", "post", "wait"}, job : {NoJob, Search(s)}]
  BY <1>a, <1>b DEF EchemiInv, TypeOK
<1>j. worker'.job = Search(s) /\ worker'.job # NoJob /\ worker'.pc = "wait"
  BY <1>a, <1>b, JobsDiffer
<1>k. searches[s].status \in Active /\ row.status # "queued"
  BY <1>c, <1>e DEF Active
<1>l. /\ UNCHANGED <<worker, reply>> /\ reply' = NoReply
      /\ UNCHANGED <<outreach, wanted, checked, posted, browser, site, bounds>>
  BY <1>a
<1>m. worker'.pc = "wait" /\ row.results # {} =>
        /\ browser.job = Search(s) /\ browser.stage = "listed" /\ browser.found = row.results
        /\ Search(s) \notin posted
  BY <1>b, <1>e, <1>g, <1>h
<1>. QED  BY <1>a, <1>b, <1>c, <1>e, <1>f, <1>g, <1>i, <1>j, <1>k, <1>l, <1>m, SearchMoves

LEMMA RetrySearchStep ==
  ASSUME EchemiInv, RetrySearch, UNCHANGED bounds PROVE EchemiInv'
<1>a. /\ worker.pc = "wait" /\ worker.job.kind = "search" /\ reply.status = "busy"
      /\ worker' = [pc |-> "loop", job |-> NoJob] /\ reply' = NoReply
      /\ UNCHANGED <<outreach, wanted, checked, posted, browser, site>>
  BY DEF RetrySearch, Answered, Becomes
<1>b. PICK s \in SearchIds : worker.job = Search(s)
  BY <1>a, JobKinds DEF EchemiInv, TypeOK
<1>. DEFINE status == IF searches[s].retries + 1 >= BusyRetries THEN "failed" ELSE "queued"
            row == [searches[s] EXCEPT !.retries = searches[s].retries + 1, !.status = status]
<1>c. searches' = [searches EXCEPT ![s].retries = searches[s].retries + 1, ![s].status = status]
  <2>1. worker.job.id = s
    BY <1>b, JobsDiffer
  <2>. QED  BY <2>1 DEF RetrySearch
<1>d. searches[s] \in SearchRows /\ searches \in [SearchIds -> SearchRows]
  BY Shapes DEF EchemiInv
<1>e. /\ searches[s].status = "running" /\ Fresh(s)
      /\ searches[s].retries < BusyRetries
  BY <1>a, <1>b DEF EchemiInv, Runs, Searched, Active
<1>f. searches[s].retries \in Nat /\ BusyRetries \in Nat
  BY <1>d, EchemiAssumption DEF SearchRows
<1>g. /\ row \in SearchRows /\ row.rfq = searches[s].rfq /\ row.query = searches[s].query
      /\ row.status = status /\ row.results = searches[s].results
      /\ row.retries = searches[s].retries + 1
  <2>1. searches[s].retries + 1 \in 0 .. BusyRetries /\ status \in Active \cup Settled
    BY <1>e, <1>f DEF Active, Settled
  <2>. HIDE DEF status
  <2>. QED  BY <1>d, <2>1 DEF SearchRows
<1>h. searches' = [searches EXCEPT ![s] = row]
  BY <1>c, <1>d DEF SearchRows
<1>i. row.status \in {"failed", "queued"} /\ row.results = {}
      /\ (row.status \in Active => row.retries < BusyRetries)
  BY <1>e, <1>f, <1>g DEF Fresh, Active
<1>. HIDE DEF row
<1>j. /\ worker' \in [pc : {"loop", "post", "wait"}, job : {NoJob, Search(s)}]
      /\ worker'.pc = "loop" /\ worker'.job = NoJob /\ worker'.job # Search(s)
  BY <1>a, JobsDiffer
<1>k. searches[s].status \in Active /\ Search(s) \notin posted /\ browser.job # Search(s)
  BY <1>e DEF Fresh, Active
<1>. QED  BY <1>a, <1>b, <1>e, <1>g, <1>h, <1>i, <1>j, <1>k, SearchMoves

LEMMA RecordSearchStep ==
  ASSUME EchemiInv, RecordSearch, UNCHANGED bounds PROVE EchemiInv'
<1>a. /\ worker.pc = "wait" /\ worker.job.kind = "search"
      /\ reply # NoReply /\ reply.status # "busy"
      /\ worker' = [pc |-> "loop", job |-> NoJob] /\ reply' = NoReply
      /\ UNCHANGED <<outreach, wanted, checked, posted, browser, site>>
  BY DEF RecordSearch, Answered, Becomes
<1>b. PICK s \in SearchIds : worker.job = Search(s)
  BY <1>a, JobKinds DEF EchemiInv, TypeOK
<1>. DEFINE status == IF reply.status = "error" THEN "failed" ELSE reply.status
            keep == searches[s].results # {} /\ reply.found = {} /\ status \in {"failed", "blocked"}
            end == IF keep THEN "partial" ELSE status
            found == IF keep THEN searches[s].results ELSE reply.found
            row == [searches[s] EXCEPT !.status = end, !.results = found]
<1>d. searches[s] \in SearchRows /\ searches \in [SearchIds -> SearchRows]
  BY Shapes DEF EchemiInv
<1>c. searches' = [searches EXCEPT ![s].status = end, ![s].results = found]
  <2>1. worker.job.id = s
    BY <1>b, JobsDiffer
  <2>. QED  BY <1>d, <2>1 DEF RecordSearch
<1>e. searches[s].status = "running" /\ reply.status \in {"error"} \cup Settled
  BY <1>a, <1>b DEF EchemiInv, Runs, WorksOn
<1>f. end \in Settled /\ found \in SUBSET Cards
  BY <1>d, <1>e DEF Settled, SearchRows, EchemiInv, TypeOK
<1>. HIDE DEF end, found
<1>g. /\ row \in SearchRows /\ row.rfq = searches[s].rfq /\ row.query = searches[s].query
      /\ row.status = end
  BY <1>d, <1>f DEF SearchRows
<1>h. searches' = [searches EXCEPT ![s] = row]
  BY <1>c, <1>d DEF SearchRows
<1>i. row.status \notin Active
  BY <1>f, <1>g DEF Active, Settled
<1>. HIDE DEF row
<1>j. /\ worker' \in [pc : {"loop", "post", "wait"}, job : {NoJob, Search(s)}]
      /\ worker'.pc = "loop" /\ worker'.job = NoJob /\ worker'.job # Search(s)
  BY <1>a, JobsDiffer
<1>k. searches[s].status \in Active /\ row.status # "running" /\ row.status # "queued"
  BY <1>e, <1>i DEF Active
<1>. QED  BY <1>a, <1>b, <1>e, <1>g, <1>h, <1>i, <1>j, <1>k, SearchMoves

-----------------------------------------------------------------------------
(* The steps of the browser: the tables and the worker stay. *)

LEMMA TablesStay ==
  ASSUME EchemiInv, UNCHANGED <<tables, worker>>
  PROVE  /\ UNCHANGED <<OutreachIds, SearchIds, Jobs, Rows>>
         /\ OneRow' /\ (OutreachIds \subseteq Rows)' /\ Ordered' /\ NothingOpen'
<1>1. UNCHANGED <<OutreachIds, SearchIds, Jobs, Rows>>
  BY DEF tables, OutreachIds, SearchIds, Jobs, Rows
<1>2. OneRow' /\ (OutreachIds \subseteq Rows)'
  BY <1>1 DEF EchemiInv, OneRow, Same, tables
<1>3. Ordered' /\ NothingOpen'
  BY <1>1 DEF EchemiInv, Ordered, NothingOpen, tables
<1>. QED  BY <1>1, <1>2, <1>3

\* An answer reaches the worker that waits for it, or nobody.
LEMMA AnswerReaches ==
  ASSUME NEW job, NEW status, NEW found, Answer(job, status, found)
  PROVE  \/ UNCHANGED reply /\ ~Waiting(job)
         \/ /\ worker.pc = "wait" /\ worker.job = job /\ reply = NoReply
            /\ reply' = [status |-> status, found |-> found]
            /\ reply'.status = status /\ reply'.found = found
  BY DEF Answer, Waiting

LEMMA ArriveStep ==
  ASSUME EchemiInv, NEW job \in posted, Arrive(job), UNCHANGED bounds PROVE EchemiInv'
<1>. USE DEF Arrive, site, bounds
<1>0. /\ UNCHANGED <<OutreachIds, SearchIds, Jobs, Rows>>
      /\ OneRow' /\ (OutreachIds \subseteq Rows)' /\ Ordered' /\ NothingOpen'
  BY TablesStay
<1>t. UNCHANGED <<searches, outreach, wanted, checked, worker, clicks, confirmed, moves, deaths>>
      /\ posted' = posted \ {job}
  BY DEF tables
<1>j. job \in Jobs \ {NoJob}
  BY DEF EchemiInv, TypeOK
<1>a. CASE /\ browser = Idle /\ UNCHANGED reply
           /\ browser' = [Idle EXCEPT !.job = job, !.stage = "open"]
  <2>1. /\ browser'.job = job /\ browser'.stage = "open" /\ browser'.found = {}
        /\ browser' \in [job : Jobs, stage : {"open"}, found : {{}}]
        /\ browser.job = NoJob
    BY <1>a, <1>j DEF Idle
  <2>2. TypeOK'
    BY <1>0, <1>a, <1>t, <2>1 DEF EchemiInv, TypeOK
  <2>3. ASSUME NEW o \in Rows PROVE Seen(o)'
    <3>1. Seen(o)
      BY DEF EchemiInv
    <3>. QED  BY <1>0, <1>t, <2>1, <3>1, JobsDiffer DEF Seen
  <2>4. ASSUME NEW o \in OutreachIds PROVE Recorded(o)' /\ Delivers(o)'
    <3>1. Recorded(o) /\ Delivers(o)
      BY DEF EchemiInv
    <3>2. Untouched(o) => Untouched(o)'
      BY <1>t, <2>1 DEF Untouched
    <3>. QED  BY <1>a, <1>t, <3>1, <3>2 DEF Recorded, Delivers
  <2>5. ASSUME NEW s \in SearchIds PROVE Searched(s)' /\ Runs(s)'
    <3>1. Searched(s) /\ Runs(s)
      BY DEF EchemiInv
    <3>2. Fresh(s) => Fresh(s)'
      BY <1>t, <2>1 DEF Fresh
    <3>3. browser.job # Search(s)
      BY <2>1, JobsDiffer
    <3>. QED  BY <1>a, <1>t, <2>1, <3>1, <3>2, <3>3 DEF Searched, Runs
  <2>6. WorksOn' /\ Listed'
    BY <1>a, <1>t, <2>1 DEF EchemiInv, WorksOn, Listed
  <2>. QED  BY <1>0, <2>2, <2>3, <2>4, <2>5, <2>6 DEF EchemiInv
<1>b. CASE browser # Idle /\ Answer(job, "busy", {}) /\ UNCHANGED browser
  <2>1. \/ UNCHANGED reply
        \/ /\ worker.pc = "wait" /\ worker.job = job /\ reply = NoReply
           /\ reply' = [status |-> "busy", found |-> {}]
           /\ reply'.status = "busy" /\ reply'.found = {}
    BY <1>b, AnswerReaches
  <2>2. TypeOK'
    <3>1. reply' = reply \/ reply' = [status |-> "busy", found |-> {}]
      BY <2>1
    <3>. QED  BY <1>0, <1>b, <1>t, <3>1 DEF EchemiInv, TypeOK
  <2>3. ASSUME NEW o \in Rows PROVE Seen(o)'
    BY <1>0, <1>b, <1>t DEF EchemiInv, Seen
  <2>4. ASSUME NEW o \in OutreachIds PROVE Recorded(o)' /\ Delivers(o)'
    <3>1. Recorded(o) /\ Delivers(o) /\ Seen(o)
      BY DEF EchemiInv
    <3>2. Untouched(o) => Untouched(o)'
      BY <1>b, <1>t DEF Untouched
    <3>3. job = Inquiry(o) => Untouched(o)'
      BY <1>b, <1>t, <3>1 DEF Untouched, Seen
    <3>. QED  BY <1>t, <2>1, <3>1, <3>2, <3>3 DEF Recorded, Delivers
  <2>5. ASSUME NEW s \in SearchIds PROVE Searched(s)' /\ Runs(s)'
    <3>1. Searched(s) /\ Runs(s)
      BY DEF EchemiInv
    <3>2. Fresh(s) => Fresh(s)'
      BY <1>b, <1>t DEF Fresh
    <3>3. job = Search(s) /\ worker.job = job => Fresh(s)'
      BY <1>b, <1>t, <3>1 DEF Fresh, Searched, Runs
    <3>. QED  BY <1>b, <1>t, <2>1, <3>1, <3>2, <3>3 DEF Searched, Runs, Fresh
  <2>6. WorksOn' /\ Listed'
    BY <1>b, <1>t, <2>1 DEF EchemiInv, WorksOn, Listed
  <2>. QED  BY <1>0, <2>2, <2>3, <2>4, <2>5, <2>6 DEF EchemiInv
<1>. QED  BY <1>a, <1>b

\* The browser ends its job and answers.
LEMMA FinishStep ==
  ASSUME EchemiInv, NEW status \in {"sent", "unknown"} \cup Settled, NEW found \in SUBSET Cards,
         Finish(status, found), UNCHANGED <<tables, worker, posted, site, bounds>>,
         browser.job # NoJob,
         \A o \in OutreachIds : browser.job = Inquiry(o) =>
           /\ status \in {"sent", "unknown", "blocked"}
           /\ status = "blocked" => browser.stage = "open"
           /\ status = "sent" => o \in confirmed,
         browser.job.kind = "search" =>
           /\ status \in Settled
           /\ status \in {"blocked", "failed"} \/ (found = browser.found)
  PROVE  EchemiInv'
<1>. USE DEF bounds, site
<1>0. /\ UNCHANGED <<OutreachIds, SearchIds, Jobs, Rows>>
      /\ OneRow' /\ (OutreachIds \subseteq Rows)' /\ Ordered' /\ NothingOpen'
  BY TablesStay
<1>t. UNCHANGED <<searches, outreach, wanted, checked>>
  BY DEF tables
<1>a. /\ \/ UNCHANGED reply /\ ~Waiting(browser.job)
         \/ /\ worker.pc = "wait" /\ worker.job = browser.job /\ reply = NoReply
            /\ reply' = [status |-> status, found |-> found]
            /\ reply'.status = status /\ reply'.found = found
      /\ browser' = Idle /\ browser'.job = NoJob /\ browser'.stage = "none" /\ browser'.found = {}
  BY AnswerReaches, JobsDiffer DEF Finish
<1>1. TypeOK'
  <2>1. reply' = reply \/ reply' = [status |-> status, found |-> found]
    BY <1>a
  <2>2. Idle \in [job : Jobs, stage : {"none"}, found : SUBSET Cards]
    BY DEF Idle, Jobs
  <2>. QED  BY <1>0, <1>a, <1>t, <2>1, <2>2 DEF EchemiInv, TypeOK
<1>2. ASSUME NEW o \in Rows PROVE Seen(o)'
  BY <1>0, <1>a, JobsDiffer DEF EchemiInv, Seen
<1>3. ASSUME NEW o \in OutreachIds PROVE Recorded(o)' /\ Delivers(o)'
  <2>1. Recorded(o) /\ Delivers(o) /\ Seen(o)
    BY DEF EchemiInv
  <2>2. Untouched(o) => Untouched(o)'
    BY <1>a, JobsDiffer DEF Untouched
  <2>3. browser.job = Inquiry(o) /\ status = "blocked" => Untouched(o)'
    BY <1>a, <2>1, JobsDiffer DEF Untouched, Seen
  <2>4. Recorded(o)'
    BY <1>t, <2>1, <2>2 DEF Recorded
  <2>5. CASE UNCHANGED reply
    BY <1>t, <2>1, <2>2, <2>4, <2>5 DEF Delivers
  <2>6. CASE ~UNCHANGED reply /\ worker.job = Inquiry(o)
    BY <1>a, <1>t, <2>1, <2>3, <2>4, <2>6 DEF Delivers
  <2>. QED  BY <2>4, <2>5, <2>6 DEF Delivers
<1>4. ASSUME NEW s \in SearchIds PROVE Searched(s)' /\ Runs(s)'
  <2>1. Searched(s) /\ Runs(s)
    BY DEF EchemiInv
  <2>2. Fresh(s) => Fresh(s)'
    BY <1>a, <1>t, JobsDiffer DEF Fresh
  <2>3. Searched(s)'
    BY <1>a, <1>t, <2>1, <2>2, JobsDiffer DEF Searched
  <2>4. CASE worker.job # Search(s)
    BY <1>t, <2>3, <2>4 DEF Runs
  <2>5. CASE worker.job = Search(s) /\ UNCHANGED reply
    <3>1. worker.pc = "post" \/ worker.pc = "wait"
      BY <2>5, JobsDiffer DEF EchemiInv, TypeOK, WorksOn
    <3>2. worker.pc = "post" => searches[s].results = {}
      BY <2>1, <2>5 DEF Runs, Fresh
    <3>3. browser.job = Search(s) => reply # NoReply \/ searches[s].results = {}
      BY <1>a, <2>5, <3>1, <3>2, JobsDiffer DEF Settled, Waiting
    <3>. QED  BY <1>a, <1>t, <2>1, <2>2, <2>3, <2>5, <3>3 DEF Runs
  <2>6. CASE worker.job = Search(s) /\ ~UNCHANGED reply
    <3>1. browser.job = Search(s) /\ browser.job.kind = "search" /\ Search(s) \notin posted
      BY <1>a, <2>1, <2>6, JobsDiffer DEF Searched
    <3>2. searches[s].results # {} => browser.found = searches[s].results
      BY <1>a, <2>1, <2>6, JobsDiffer DEF Runs
    <3>. QED  BY <1>a, <1>t, <2>1, <2>3, <2>6, <3>1, <3>2 DEF Runs, Settled
  <2>. QED  BY <2>3, <2>4, <2>5, <2>6
<1>5. WorksOn' /\ Listed'
  <2>1. status # "none"
    BY DEF Settled
  <2>. QED  BY <1>a, <2>1 DEF EchemiInv, WorksOn, Listed
<1>. QED  BY <1>0, <1>1, <1>2, <1>3, <1>4, <1>5 DEF EchemiInv

LEMMA FinishSteps ==
  ASSUME EchemiInv, SubmitStops \/ SubmitEnds \/ CollectEnds, UNCHANGED bounds
  PROVE  EchemiInv'
<1>0. browser.job \in Jobs /\ browser.found \in SUBSET Cards /\ {} \in SUBSET Cards
  BY DEF EchemiInv, TypeOK
<1>1. CASE SubmitStops
  <2>1. PICK status \in {"blocked", "unknown"} : Finish(status, {})
    BY <1>1 DEF SubmitStops
  <2>2. /\ browser.job.kind = "inquiry" /\ browser.stage = "open"
        /\ UNCHANGED <<tables, worker, posted, site>>
    BY <1>1 DEF SubmitStops
  <2>3. browser.job # NoJob /\ browser.job.kind # "search"
    BY <2>2, JobsDiffer
  <2>. QED  BY <1>0, <2>1, <2>2, <2>3, FinishStep DEF Settled
<1>2. CASE SubmitEnds
  <2>1. PICK status \in {"sent", "unknown"} :
          Finish(status, {}) /\ (status = "sent" => browser.job.id \in confirmed)
    BY <1>2 DEF SubmitEnds
  <2>2. browser.job.kind = "inquiry" /\ UNCHANGED <<tables, worker, posted, site>>
    BY <1>2 DEF SubmitEnds
  <2>3. browser.job # NoJob /\ browser.job.kind # "search"
    BY <2>2, JobsDiffer
  <2>4. \A o \in OutreachIds : browser.job = Inquiry(o) /\ status = "sent" => o \in confirmed
    BY <2>1, JobsDiffer
  <2>. QED  BY <1>0, <2>1, <2>2, <2>3, <2>4, FinishStep
<1>3. CASE CollectEnds
  <2>1. PICK status \in Settled, found \in {{}, browser.found} :
          /\ Finish(status, found)
          /\ status \in {"blocked", "failed"} \/ found = browser.found
    BY <1>3 DEF CollectEnds, Settled
  <2>2. browser.job.kind = "search" /\ UNCHANGED <<tables, worker, posted, site>>
    BY <1>3 DEF CollectEnds
  <2>3. browser.job # NoJob /\ \A o : browser.job # Inquiry(o)
    BY <2>2, JobsDiffer
  <2>. QED  BY <1>0, <2>1, <2>2, <2>3, FinishStep
<1>. QED  BY <1>1, <1>2, <1>3

LEMMA SubmitClicksStep ==
  ASSUME EchemiInv, SubmitClicks, UNCHANGED bounds PROVE EchemiInv'
<1>. USE DEF bounds
<1>0. /\ UNCHANGED <<OutreachIds, SearchIds, Jobs, Rows>>
      /\ OneRow' /\ (OutreachIds \subseteq Rows)' /\ Ordered' /\ NothingOpen'
  BY TablesStay DEF SubmitClicks
<1>t. /\ UNCHANGED <<searches, outreach, wanted, checked, worker, reply, posted>>
      /\ browser.job.kind = "inquiry" /\ browser.stage = "open"
      /\ browser' = [browser EXCEPT !.stage = "clicked"]
  BY DEF SubmitClicks, tables
<1>a. PICK o \in OutreachIds : browser.job = Inquiry(o)
  BY <1>t, JobKinds DEF EchemiInv, TypeOK
<1>b. /\ o \in Rows /\ clicks \in [Rows -> Nat] /\ confirmed \subseteq Rows
      /\ clicks[o] = 0 /\ o \notin confirmed
  BY <1>a, <1>t DEF EchemiInv, TypeOK, Seen
<1>c. /\ clicks' \in [Rows -> Nat] /\ confirmed' \subseteq Rows
      /\ \A p \in Rows : p # o => clicks'[p] = clicks[p] /\ (p \in confirmed' <=> p \in confirmed)
      /\ clicks'[o] \in {0, 1} /\ (clicks'[o] = 0 => o \notin confirmed')
      /\ o \in confirmed => o \in confirmed'
  <2>1. browser.job.id = o
    BY <1>a, JobsDiffer
  <2>. QED  BY <1>b, <2>1 DEF SubmitClicks, site
<1>d. /\ browser'.job = browser.job /\ browser'.stage = "clicked" /\ browser'.found = browser.found
      /\ browser' \in [job : Jobs, stage : {"clicked"}, found : SUBSET Cards]
  BY <1>t DEF EchemiInv, TypeOK
<1>1. TypeOK'
  BY <1>0, <1>b, <1>c, <1>d, <1>t DEF EchemiInv, TypeOK
<1>2. ASSUME NEW p \in Rows PROVE Seen(p)'
  <2>1. Seen(p) /\ (p # o => browser.job # Inquiry(p)) /\ Inquiry(o) \notin posted
    BY <1>a, <1>b, JobsDiffer DEF EchemiInv, Seen
  <2>. QED  BY <1>0, <1>a, <1>b, <1>c, <1>d, <1>t, <2>1 DEF Seen
<1>3. ASSUME NEW p \in OutreachIds PROVE Recorded(p)' /\ Delivers(p)'
  <2>1. Recorded(p) /\ Delivers(p) /\ p \in Rows
    BY DEF EchemiInv
  <2>2. ~Untouched(o)
    BY <1>a DEF Untouched
  <2>3. Untouched(p) => Untouched(p)'
    BY <1>c, <1>d, <1>t, <2>1, <2>2 DEF Untouched
  <2>4. p \in confirmed => p \in confirmed'
    BY <1>c, <2>1
  <2>. QED  BY <1>t, <2>1, <2>3, <2>4 DEF Recorded, Delivers
<1>4. ASSUME NEW s \in SearchIds PROVE Searched(s)' /\ Runs(s)'
  <2>1. Searched(s) /\ Runs(s) /\ browser.job # Search(s)
    BY <1>a, JobsDiffer DEF EchemiInv
  <2>. QED  BY <1>d, <1>t, <2>1 DEF Searched, Runs, Fresh
<1>5. WorksOn' /\ Listed'
  BY <1>d, <1>t DEF EchemiInv, WorksOn, Listed
<1>. QED  BY <1>0, <1>1, <1>2, <1>3, <1>4, <1>5 DEF EchemiInv

\* The page of a search: its cards are read, or the worker is gone.
LEMMA CollectSteps ==
  ASSUME EchemiInv, CollectFinds \/ CollectCancelled, UNCHANGED bounds PROVE EchemiInv'
<1>. USE DEF bounds, site
<1>0. /\ UNCHANGED <<OutreachIds, SearchIds, Jobs, Rows>>
      /\ OneRow' /\ (OutreachIds \subseteq Rows)' /\ Ordered' /\ NothingOpen'
  BY TablesStay DEF CollectFinds, CollectCancelled
<1>t. /\ UNCHANGED <<searches, outreach, wanted, checked, worker, reply, posted, clicks, confirmed>>
      /\ browser.job.kind = "search"
  BY DEF CollectFinds, CollectCancelled, tables
<1>a. /\ \/ browser' = Idle /\ ~Waiting(browser.job)
         \/ /\ browser.stage = "open" /\ browser'.job = browser.job /\ browser'.stage = "listed"
      /\ browser'.job \in {browser.job, NoJob}
      /\ browser' \in [job : Jobs, stage : {"none", "listed"}, found : SUBSET Cards]
      /\ browser'.found # {} => browser'.stage = "listed"
      /\ browser'.stage = "listed" => browser'.job = browser.job
  <2>1. CASE CollectCancelled
    BY <2>1, JobsDiffer DEF CollectCancelled, Idle, Jobs
  <2>2. CASE CollectFinds
    <3>1. PICK found \in SUBSET Cards :
            browser' = [browser EXCEPT !.found = found, !.stage = "listed"]
      BY <2>2 DEF CollectFinds
    <3>. QED  BY <2>2, <3>1 DEF CollectFinds, EchemiInv, TypeOK
  <2>. QED  BY <2>1, <2>2
<1>b. \A o : browser'.job # Inquiry(o) /\ browser.job # Inquiry(o)
  BY <1>a, <1>t, JobsDiffer
<1>1. TypeOK'
  BY <1>0, <1>a, <1>t DEF EchemiInv, TypeOK
<1>2. \A o \in Rows : Seen(o)'
  BY <1>0, <1>b, <1>t DEF EchemiInv, Seen
<1>3. \A o \in OutreachIds : Recorded(o)' /\ Delivers(o)'
  BY <1>b, <1>t DEF EchemiInv, Recorded, Delivers, Untouched
<1>4. ASSUME NEW s \in SearchIds PROVE Searched(s)' /\ Runs(s)'
  <2>1. Searched(s) /\ Runs(s)
    BY DEF EchemiInv
  <2>2. Searched(s)'
    BY <1>a, <1>t, <2>1, JobsDiffer DEF Searched, Fresh
  <2>3. Fresh(s) => Fresh(s)'
    BY <1>a, <1>t, JobsDiffer DEF Fresh
  <2>4. ASSUME worker.job = Search(s), searches[s].results # {}, reply = NoReply
        PROVE  browser' # Idle /\ browser.stage = "listed"
    <3>1. worker.pc = "post" \/ worker.pc = "wait"
      BY <2>4, JobsDiffer DEF EchemiInv, TypeOK, WorksOn
    <3>2. /\ worker.pc = "wait" /\ browser.job = Search(s) /\ browser.stage = "listed"
          /\ browser.found # {}
      BY <2>1, <2>4, <3>1, JobsDiffer DEF Runs, Fresh
    <3>. QED  BY <1>a, <2>4, <3>2 DEF Waiting
  <2>5. Runs(s)'
    BY <1>a, <1>t, <2>1, <2>3, <2>4 DEF Runs
  <2>. QED  BY <2>2, <2>5
<1>5. WorksOn' /\ Listed'
  BY <1>a, <1>t DEF EchemiInv, WorksOn, Listed
<1>. QED  BY <1>0, <1>1, <1>2, <1>3, <1>4, <1>5 DEF EchemiInv

LEMMA BrowserDiesStep ==
  ASSUME EchemiInv, BrowserDies, moves' = moves, deaths' \in 0 .. MaxDeaths PROVE EchemiInv'
<1>0. /\ UNCHANGED <<OutreachIds, SearchIds, Jobs, Rows>>
      /\ OneRow' /\ (OutreachIds \subseteq Rows)' /\ Ordered' /\ NothingOpen'
  BY TablesStay DEF BrowserDies
<1>t. /\ UNCHANGED <<searches, outreach, wanted, checked, worker, clicks, confirmed>>
      /\ posted' = {} /\ browser' = Idle
  BY DEF BrowserDies, tables, site
<1>a. /\ browser'.job = NoJob /\ browser'.stage = "none" /\ browser'.found = {}
      /\ browser' \in [job : Jobs, stage : {"none"}, found : SUBSET Cards]
  BY <1>t, JobsDiffer DEF Idle, Jobs
<1>b. \/ UNCHANGED reply /\ \A job \in posted \cup {browser.job} : ~Waiting(job)
      \/ /\ reply = NoReply /\ worker.pc = "wait" /\ reply' \in [status : {"error"}, found : {{}}]
         /\ reply'.status = "error" /\ reply'.found = {}
  BY DEF BrowserDies, Waiting, NoReply
<1>1. TypeOK'
  <2>1. reply' \in [status : {"error"}, found : SUBSET Cards] \/ reply' = reply
    BY <1>b
  <2>. QED  BY <1>0, <1>a, <1>t, <2>1 DEF EchemiInv, TypeOK
<1>2. \A o \in Rows : Seen(o)'
  BY <1>0, <1>a, <1>t, JobsDiffer DEF EchemiInv, Seen
<1>3. ASSUME NEW o \in OutreachIds PROVE Recorded(o)' /\ Delivers(o)'
  <2>1. Recorded(o) /\ Delivers(o)
    BY DEF EchemiInv
  <2>2. Untouched(o) => Untouched(o)'
    BY <1>a, <1>t, JobsDiffer DEF Untouched
  <2>. QED  BY <1>b, <1>t, <2>1, <2>2 DEF Recorded, Delivers
<1>4. ASSUME NEW s \in SearchIds PROVE Searched(s)' /\ Runs(s)'
  <2>1. Searched(s) /\ Runs(s)
    BY DEF EchemiInv
  <2>2. Fresh(s) => Fresh(s)'
    BY <1>a, <1>t, JobsDiffer DEF Fresh
  <2>3. Searched(s)'
    BY <1>a, <1>t, <2>1, <2>2 DEF Searched
  <2>4. worker.job = Search(s) /\ reply = NoReply /\ UNCHANGED reply => searches[s].results = {}
    <3>1. worker.job = Search(s) => worker.pc = "post" \/ worker.pc = "wait"
      BY JobsDiffer DEF EchemiInv, TypeOK, WorksOn
    <3>2. worker.job = Search(s) /\ worker.pc = "post" => searches[s].results = {}
      BY <2>1 DEF Runs, Fresh
    <3>. QED  BY <1>b, <2>1, <3>1, <3>2, JobsDiffer DEF Runs, Waiting
  <2>5. Runs(s)'
    BY <1>b, <1>t, <2>1, <2>2, <2>4 DEF Runs
  <2>. QED  BY <2>3, <2>5
<1>5. WorksOn' /\ Listed'
  BY <1>a, <1>b, <1>t DEF EchemiInv, WorksOn, Listed
<1>. QED  BY <1>0, <1>1, <1>2, <1>3, <1>4, <1>5 DEF EchemiInv

-----------------------------------------------------------------------------
(* The steps of people. *)

\* Another search, that nothing knows of yet.
LEMMA SearchAddedStep ==
  ASSUME EchemiInv, NEW row \in SearchRows, searches' = Append(searches, row),
         row.status \in {"queued", "failed"}, row.results = {}, row.retries = 0,
         row.rfq = NoRfq \/ \A s \in SearchIds :
           searches[s].rfq = row.rfq /\ searches[s].query = row.query
             => searches[s].status \notin Active,
         UNCHANGED <<outreach, wanted, worker, reply, posted, browser, site, deaths>>,
         checked' \in Nat, moves' \in 0 .. MaxMoves
  PROVE  EchemiInv'
<1>. USE DEF site
<1>n. PICK new : new = Len(searches) + 1
  OBVIOUS
<1>a. /\ searches' \in Seq(SearchRows)
      /\ SearchIds' = SearchIds \cup {new} /\ new \notin SearchIds
      /\ \A t \in SearchIds : searches'[t] = searches[t] /\ t < new
      /\ searches'[new] = row
  BY <1>n, SearchAdded DEF EchemiInv
<1>m. SearchIds \subseteq Nat /\ new \in Nat
  BY <1>n, Shapes DEF EchemiInv
<1>b. Search(new) \notin Jobs
  BY <1>a, JobsDiffer DEF Jobs
<1>0. OutreachIds' = OutreachIds /\ Jobs \subseteq Jobs' /\ SameRows
  BY <1>a DEF OutreachIds, Jobs, SameRows
<1>c. Search(new) \notin posted /\ browser.job # Search(new) /\ worker.job # Search(new)
  BY <1>b DEF EchemiInv, TypeOK
<1>1. TypeOK'
  BY <1>0, <1>a DEF EchemiInv, TypeOK, SearchRows
<1>2. OneRow' /\ (OutreachIds \subseteq Rows)'
  BY <1>0, RowsStay DEF EchemiInv
<1>3. \A o \in Rows : Seen(o)'
  BY <1>0 DEF EchemiInv, Seen
<1>4. \A o \in OutreachIds : Recorded(o)' /\ Delivers(o)'
  BY <1>0 DEF EchemiInv, Recorded, Delivers, Untouched
<1>5. ASSUME NEW s \in SearchIds' PROVE Searched(s)' /\ Runs(s)'
  <2>1. CASE s \in SearchIds
    BY <1>a, <2>1 DEF EchemiInv, Searched, Runs, Fresh
  <2>2. CASE s = new
    <3>1. 0 < BusyRetries
      BY EchemiAssumption
    <3>2. Searched(new)'
      BY <1>a, <1>c, <3>1 DEF Searched, Fresh
    <3>3. Runs(new)'
      BY <1>c DEF Runs
    <3>. QED  BY <2>2, <3>2, <3>3
  <2>. QED  BY <1>a, <2>1, <2>2
<1>6. Ordered'
  <2>. SUFFICES ASSUME NEW s \in SearchIds', NEW t \in SearchIds', s < t,
                       searches'[s].rfq = searches'[t].rfq, searches'[s].rfq # NoRfq,
                       searches'[s].query = searches'[t].query
                PROVE  searches'[s].status \notin Active
    BY DEF Ordered
  <2>1. CASE s \in SearchIds /\ t \in SearchIds
    BY <1>a, <2>1 DEF EchemiInv, Ordered
  <2>2. CASE s \in SearchIds /\ t = new
    BY <1>a, <2>2
  <2>3. CASE s = new
    BY <1>a, <1>m, <2>3
  <2>. QED  BY <1>a, <2>1, <2>2, <2>3
<1>7. WorksOn' /\ NothingOpen' /\ Listed'
  BY <1>0, <1>a DEF EchemiInv, WorksOn, NothingOpen, Listed
<1>. QED  BY <1>0, <1>1, <1>2, <1>3, <1>4, <1>5, <1>6, <1>7 DEF EchemiInv, Rows

LEMMA NewSearches ==
  ASSUME NEW r \in Rfqs \cup {NoRfq}, NEW q \in Queries, NEW status \in {"queued", "failed"},
         NEW row,
         row = [status |-> status, rfq |-> r, query |-> q, results |-> {}, retries |-> 0]
  PROVE  /\ row \in SearchRows /\ row.rfq = r /\ row.query = q /\ row.status = status
         /\ row.results = {} /\ row.retries = 0
<1>1. 0 \in 0 .. BusyRetries
  BY EchemiAssumption
<1>2. status \in Active \cup Settled /\ {} \in SUBSET Cards
  BY DEF Active, Settled
<1>. QED  BY <1>1, <1>2 DEF SearchRows

LEMMA CreateInsertsStep ==
  ASSUME EchemiInv, NEW q \in Queries, CreateInserts(q),
         UNCHANGED <<worker, reply, posted, browser, site, bounds>>
  PROVE  EchemiInv'
<1>. DEFINE row == NewSearch(NoRfq, q)
<1>1. row = [status |-> "queued", rfq |-> NoRfq, query |-> q, results |-> {}, retries |-> 0]
  BY DEF NewSearch
<1>2. searches' = Append(searches, row) /\ UNCHANGED <<outreach, wanted>> /\ checked' \in Nat
  BY DEF CreateInserts, EchemiInv, TypeOK
<1>3. moves' \in 0 .. MaxMoves /\ deaths' = deaths
  BY DEF bounds, EchemiInv, TypeOK
<1>. HIDE DEF row
<1>4. /\ row \in SearchRows /\ row.rfq = NoRfq /\ row.status = "queued"
      /\ row.results = {} /\ row.retries = 0
  BY <1>1, NewSearches
<1>. QED  BY <1>2, <1>3, <1>4, SearchAddedStep

LEMMA EnsureStep ==
  ASSUME EchemiInv, NEW r \in Rfqs, EnsureRfqSearch(r),
         UNCHANGED <<worker, reply, posted, browser, site, deaths>>, moves' \in 0 .. MaxMoves
  PROVE  EchemiInv'
<1>1. PICK status \in {"queued", "failed"} :
        searches' = Append(searches, [NewSearch(r, wanted[r]) EXCEPT !.status = status])
  BY DEF EnsureRfqSearch
<1>2. UNCHANGED <<outreach, wanted>> /\ checked' \in Nat /\ wanted[r] \in Queries
  BY DEF EnsureRfqSearch, EchemiInv, TypeOK
<1>3. ASSUME NEW s \in SearchIds, searches[s].rfq = r, searches[s].query = wanted[r],
             searches[s].status \in Active
      PROVE  FALSE
  <2>1. s \in Previous(r) /\ SearchIds \subseteq Nat
    BY <1>3, Shapes DEF Previous, EchemiInv
  <2>2. ASSUME NEW t \in Previous(r) PROVE t <= s
    <3>1. ~(s < t)
      BY <1>3, <2>2, EchemiAssumption DEF EchemiInv, Ordered, Previous
    <3>. QED  BY <2>1, <3>1 DEF Previous
  <2>3. s \in Latest(Previous(r))
    BY <2>1, <2>2 DEF Latest
  <2>. QED  BY <1>3, <2>3 DEF EnsureRfqSearch
<1>. DEFINE row == [NewSearch(r, wanted[r]) EXCEPT !.status = status]
<1>4. row = [status |-> status, rfq |-> r, query |-> wanted[r], results |-> {}, retries |-> 0]
  BY DEF NewSearch
<1>5. searches' = Append(searches, row)
  BY <1>1
<1>. HIDE DEF row
<1>6. /\ row \in SearchRows /\ row.rfq = r /\ row.query = wanted[r] /\ row.status = status
      /\ row.results = {} /\ row.retries = 0
  BY <1>2, <1>4, NewSearches
<1>. QED  BY <1>2, <1>3, <1>5, <1>6, SearchAddedStep

LEMMA EditStep ==
  ASSUME EchemiInv, UNCHANGED <<searches, outreach, worker, reply, posted, browser, site, deaths>>,
         wanted' \in [Rfqs -> Queries], checked' \in Nat, moves' \in 0 .. MaxMoves
  PROVE  EchemiInv'
<1>. USE DEF site
<1>0. UNCHANGED <<OutreachIds, SearchIds, Jobs>>
  BY DEF OutreachIds, SearchIds, Jobs
<1>1. TypeOK'
  BY <1>0 DEF EchemiInv, TypeOK
<1>2. OneRow' /\ (OutreachIds \subseteq Rows)' /\ \A o \in Rows : Seen(o)'
  BY <1>0 DEF EchemiInv, Seen, OneRow, Same, Rows
<1>3. \A o \in OutreachIds : Recorded(o)' /\ Delivers(o)'
  BY DEF EchemiInv, Recorded, Delivers, Untouched
<1>4. \A s \in SearchIds : Searched(s)' /\ Runs(s)'
  BY DEF EchemiInv, Searched, Runs, Fresh
<1>5. Ordered' /\ WorksOn' /\ NothingOpen' /\ Listed'
  BY <1>0 DEF EchemiInv, Ordered, WorksOn, NothingOpen, Listed
<1>. QED  BY <1>0, <1>1, <1>2, <1>3, <1>4, <1>5 DEF EchemiInv, Rows

\* A table with one row for an RFQ and a card has no more rows than there are
\* targets: Rows are enough ids.
LEMMA FewRows ==
  ASSUME NEW table \in Seq(OutreachRows),
         \A o, p \in DOMAIN table :
           table[o].rfq = table[p].rfq /\ table[o].card = table[p].card => o = p
  PROVE  DOMAIN table \subseteq Rows
<1>. DEFINE ids == 1 .. Len(table)
            targets == Rfqs \X Cards
            f == [o \in ids |-> <<table[o].rfq, table[o].card>>]
<1>1. Len(table) \in Nat /\ DOMAIN table = ids /\ \A o \in ids : table[o] \in OutreachRows
  BY LenProperties, ElementOfSeq
<1>2. f \in Injection(ids, targets)
  <2>1. f \in [ids -> targets]
    BY <1>1 DEF OutreachRows
  <2>2. \A o, p \in ids : f[o] = f[p] => o = p
    BY <1>1
  <2>. QED  BY <2>1, <2>2 DEF Injection, IsInjective
<1>3. IsFiniteSet(targets) /\ Cardinality(targets) = Cardinality(Rfqs) * Cardinality(Cards)
  BY FS_Product, EchemiAssumption
<1>4. Cardinality(ids) <= Cardinality(targets)
  BY <1>2, <1>3, FS_Injection
<1>5. Cardinality(ids) = Len(table)
  BY <1>1, FS_Interval
<1>6. Cardinality(targets) \in Nat
  BY <1>3, FS_CardinalityType
<1>. QED  BY <1>1, <1>3, <1>4, <1>5, <1>6 DEF Rows

LEMMA OrdersAreInjective ==
  ASSUME NEW S, IsFiniteSet(S), NEW f \in Orders(S)
  PROVE  /\ Cardinality(S) \in Nat /\ f \in [1 .. Cardinality(S) -> S]
         /\ \A i, j \in 1 .. Cardinality(S) : f[i] = f[j] => i = j
<1>. DEFINE n == Cardinality(S)
<1>1. n \in Nat
  BY FS_CardinalityType
<1>2. f \in [1 .. n -> S] /\ \A c \in S : \E i \in 1 .. n : f[i] = c
  BY DEF Orders
<1>3. f \in Surjection(1 .. n, S)
  BY <1>2 DEF Surjection
<1>4. IsFiniteSet(1 .. n) /\ Cardinality(1 .. n) = n
  BY <1>1, FS_Interval
<1>5. f \in Injection(1 .. n, S)
  BY <1>3, <1>4, FS_SurjSameCardinalityImpliesInj
<1>. QED  BY <1>1, <1>2, <1>5 DEF Injection, IsInjective

LEMMA EnqueueStep ==
  ASSUME EchemiInv, NEW r \in Rfqs, NEW U \in SUBSET Cards, Enqueue(r, U),
         UNCHANGED <<worker, reply, posted, browser, site, deaths>>, moves' \in 0 .. MaxMoves
  PROVE  EchemiInv'
<1>. USE DEF site
<1>0. /\ Len(outreach) \in Nat /\ OutreachIds = 1 .. Len(outreach)
      /\ \A o \in OutreachIds : outreach[o] \in OutreachRows
      /\ UNCHANGED <<searches, wanted, checked>>
  BY Shapes DEF EchemiInv, Enqueue
<1>a. PICK New \in SUBSET {c \in U \ CardsOf(r) : CompanyOf[c] \notin CompaniesOf(r)} :
        /\ \A c, d \in New : CompanyOf[c] = CompanyOf[d] => c = d
        /\ \E order \in Orders(New) : outreach' =
             [o \in OutreachIds |->
                IF o \in RowsOf(r) /\ outreach[o].card \in U /\ outreach[o].status = "blocked"
                THEN [outreach[o] EXCEPT !.status = "queued"] ELSE outreach[o]]
             \o [i \in DOMAIN order |-> [rfq |-> r, card |-> order[i], status |-> "queued"]]
  BY DEF Enqueue
<1>1. PICK order \in Orders(New) :
        outreach' =
             [o \in OutreachIds |->
                IF o \in RowsOf(r) /\ outreach[o].card \in U /\ outreach[o].status = "blocked"
                THEN [outreach[o] EXCEPT !.status = "queued"] ELSE outreach[o]]
             \o [i \in DOMAIN order |-> [rfq |-> r, card |-> order[i], status |-> "queued"]]
  BY <1>a
<1>2. PICK n \in Nat, k \in Nat : n = Len(outreach) /\ k = Cardinality(New)
  <2>1. IsFiniteSet(New)
    BY FS_Subset, EchemiAssumption
  <2>. QED  BY <1>0, <2>1, FS_CardinalityType
<1>3. /\ order \in [1 .. k -> New] /\ DOMAIN order = 1 .. k
      /\ \A i, j \in 1 .. k : order[i] = order[j] => i = j
  <2>1. IsFiniteSet(New)
    BY FS_Subset, EchemiAssumption
  <2>. QED  BY <1>2, <2>1, OrdersAreInjective
<1>. DEFINE back(o) == o \in RowsOf(r) /\ outreach[o].card \in U /\ outreach[o].status = "blocked"
            kept(o) == IF back(o) THEN [outreach[o] EXCEPT !.status = "queued"] ELSE outreach[o]
            added(i) == [rfq |-> r, card |-> order[i], status |-> "queued"]
            old == [o \in 1 .. n |-> kept(o)]
            new == [i \in 1 .. k |-> added(i)]
<1>4. outreach' = old \o new
  BY <1>0, <1>1, <1>2, <1>3
<1>5. old \in Seq(OutreachRows) /\ Len(old) = n
  <2>1. \A o \in 1 .. n : kept(o) \in OutreachRows
    BY <1>0, <1>2 DEF OutreachRows, RowStatuses
  <2>. HIDE DEF kept
  <2>2. old \in [1 .. n -> OutreachRows]
    BY <2>1
  <2>. QED  BY <2>2, SequenceOf
<1>6. new \in Seq(OutreachRows) /\ Len(new) = k
  <2>1. \A i \in 1 .. k : added(i) \in OutreachRows
    BY <1>3 DEF OutreachRows, RowStatuses
  <2>. QED  BY <2>1, SequenceOf
<1>7. /\ old \o new \in Seq(OutreachRows) /\ Len(old \o new) = n + k
      /\ \A o \in 1 .. n + k : (old \o new)[o] = IF o <= n THEN old[o] ELSE new[o - n]
  BY <1>5, <1>6, ConcatProperties
<1>8. /\ \A o \in 1 .. n : old[o].rfq = outreach[o].rfq /\ old[o].card = outreach[o].card
      /\ \A o \in 1 .. n : old[o].status = outreach[o].status
                             \/ (outreach[o].status = "blocked" /\ old[o].status = "queued")
      /\ \A i \in 1 .. k : new[i].rfq = r /\ new[i].card = order[i] /\ new[i].status = "queued"
  BY <1>0, <1>2 DEF OutreachRows
<1>. HIDE DEF old, new
<1>9. /\ outreach' \in Seq(OutreachRows) /\ OutreachIds' = 1 .. n + k
      /\ OutreachIds = 1 .. n /\ OutreachIds \subseteq OutreachIds'
  BY <1>0, <1>2, <1>4, <1>7, LenProperties DEF OutreachIds
<1>10. \A o \in 1 .. n :
         /\ outreach'[o].rfq = outreach[o].rfq /\ outreach'[o].card = outreach[o].card
         /\ outreach'[o].status = outreach[o].status
              \/ (outreach[o].status = "blocked" /\ outreach'[o].status = "queued")
  BY <1>4, <1>7, <1>8
<1>11. \A o \in 1 .. n + k : o \notin 1 .. n =>
         /\ o - n \in 1 .. k /\ outreach'[o].rfq = r
         /\ outreach'[o].card = order[o - n] /\ outreach'[o].status = "queued"
  <2>1. ASSUME NEW o \in 1 .. n + k, o \notin 1 .. n
        PROVE  o - n \in 1 .. k /\ outreach'[o] = new[o - n]
    BY <1>4, <1>7, <2>1
  <2>. QED  BY <1>8, <2>1
<1>12. OneRow'
  <2>. SUFFICES ASSUME NEW o \in 1 .. n + k, NEW p \in 1 .. n + k, Same(o, p)' PROVE o = p
    BY <1>9 DEF OneRow
  <2>1. ASSUME NEW a \in 1 .. n, NEW b \in 1 .. n + k, b \notin 1 .. n,
               outreach'[a].rfq = outreach'[b].rfq,
               CompanyOf[outreach'[a].card] = CompanyOf[outreach'[b].card]
        PROVE  FALSE
    <3>1. a \in RowsOf(r)
      BY <1>9, <1>10, <1>11, <2>1 DEF RowsOf
    <3>2. CompanyOf[outreach[a].card] \in CompaniesOf(r)
      BY <3>1 DEF CompaniesOf, CardsOf
    <3>3. CompanyOf[order[b - n]] \notin CompaniesOf(r)
      BY <1>a, <1>3, <1>11, <2>1
    <3>. QED  BY <1>10, <1>11, <2>1, <3>2, <3>3
  <2>2. CASE o \in 1 .. n /\ p \in 1 .. n
    <3>1. Same(o, p)
      BY <1>10, <2>2 DEF Same
    <3>. QED  BY <1>9, <2>2, <3>1 DEF EchemiInv, OneRow
  <2>3. CASE o \notin 1 .. n /\ p \notin 1 .. n
    <3>1. order[o - n] \in New /\ order[p - n] \in New
      BY <1>3, <1>11, <2>3
    <3>2. order[o - n] = order[p - n]
      BY <1>a, <1>11, <2>3, <3>1 DEF Same
    <3>3. o - n = p - n
      BY <1>3, <1>11, <2>3, <3>2
    <3>. QED  BY <3>3
  <2>. QED  BY <2>1, <2>2, <2>3 DEF Same
<1>13. (OutreachIds \subseteq Rows)'
  <2>1. \A o, p \in DOMAIN outreach' :
          outreach'[o].rfq = outreach'[p].rfq /\ outreach'[o].card = outreach'[p].card => o = p
    BY <1>12 DEF OneRow, Same, OutreachIds
  <2>2. DOMAIN outreach' \subseteq Rows
    BY <1>9, <2>1, FewRows
  <2>. QED  BY <2>2 DEF OutreachIds, Rows
<1>14. TypeOK'
  <2>1. Jobs \subseteq Jobs'
    BY <1>0, <1>9 DEF Jobs, SearchIds
  <2>. QED  BY <1>0, <1>9, <2>1 DEF EchemiInv, TypeOK, OutreachRows, RowStatuses
<1>15. \A o \in Rows : Seen(o)'
  BY <1>9 DEF EchemiInv, Seen
<1>16. ASSUME NEW o \in 1 .. n + k PROVE Recorded(o)' /\ Delivers(o)'
  <2>1. CASE o \in 1 .. n
    <3>1. Recorded(o) /\ Delivers(o)
      BY <1>9, <2>1 DEF EchemiInv
    <3>. QED  BY <1>10, <2>1, <3>1 DEF Recorded, Delivers, Untouched
  <2>2. CASE o \notin 1 .. n
    <3>1. Inquiry(o) \notin Jobs
      BY <1>9, <2>2, JobsDiffer DEF Jobs
    <3>2. Inquiry(o) \notin posted /\ browser.job # Inquiry(o) /\ worker.job # Inquiry(o)
      BY <3>1 DEF EchemiInv, TypeOK
    <3>3. o \in Rows
      BY <1>9, <1>13 DEF Rows
    <3>4. clicks[o] = 0 /\ o \notin confirmed
      BY <1>9, <2>2, <3>3 DEF EchemiInv, Seen
    <3>. QED  BY <1>11, <2>2, <3>2, <3>4 DEF Recorded, Delivers, Untouched
  <2>. QED  BY <2>1, <2>2
<1>17. SearchIds' = SearchIds /\ \A s \in SearchIds : Searched(s)' /\ Runs(s)'
  BY <1>0 DEF EchemiInv, Searched, Runs, Fresh, SearchIds
<1>18. Ordered' /\ WorksOn' /\ Listed'
  BY <1>0, <1>17 DEF EchemiInv, Ordered, WorksOn, Listed
<1>19. NothingOpen'
  BY <1>0, <1>9, <1>10, <1>11, <1>17 DEF EchemiInv, NothingOpen
<1>. QED  BY <1>9, <1>12, <1>13, <1>14, <1>15, <1>16, <1>17, <1>18, <1>19 DEF EchemiInv, Rows

-----------------------------------------------------------------------------
(* The theorems. *)

LEMMA FinishedRow ==
  ASSUME NEW r \in Rfqs, NEW q \in Queries
  PROVE  Finished(r, q) \in SearchRows /\ Finished(r, q).status = "completed"
<1>1. Finished(r, q) = [status |-> "completed", rfq |-> r, query |-> q, results |-> Cards,
                        retries |-> 0]
  BY DEF Finished
<1>2. 0 \in 0 .. BusyRetries /\ "completed" \in Active \cup Settled
  BY EchemiAssumption DEF Settled
<1>. QED  BY <1>1, <1>2 DEF SearchRows

LEMMA EchemiInit == Init => EchemiInv
<1>. SUFFICES ASSUME Init PROVE EchemiInv
  OBVIOUS
<1>. USE DEF Init
<1>1. /\ outreach = <<>> /\ OutreachIds = {}
      /\ Len(searches) \in {0, 1} /\ SearchIds = 1 .. Len(searches)
      /\ searches \in Seq(SearchRows)
      /\ \A s \in SearchIds : searches[s].status = "completed"
  <2>1. ASSUME searches = <<>>
        PROVE  /\ searches \in Seq(SearchRows) /\ Len(searches) = 0 /\ SearchIds = 1 .. 0
               /\ \A s \in SearchIds : searches[s].status = "completed"
    BY <2>1 DEF SearchIds
  <2>2. ASSUME NEW r \in Rfqs, NEW q \in Queries, searches = <<Finished(r, q)>>
        PROVE  /\ searches \in Seq(SearchRows) /\ Len(searches) = 1 /\ SearchIds = 1 .. 1
               /\ \A s \in SearchIds : searches[s].status = "completed"
    <3>1. Finished(r, q) \in SearchRows /\ Finished(r, q).status = "completed"
      BY FinishedRow
    <3>2. searches \in Seq(SearchRows) /\ Len(searches) = 1 /\ searches[1] = Finished(r, q)
      BY <2>2, <3>1
    <3>. QED  BY <3>1, <3>2, LenProperties DEF SearchIds
  <2>3. searches = <<>> \/ \E r \in Rfqs, q \in Queries : searches = <<Finished(r, q)>>
    OBVIOUS
  <2>4. outreach = <<>> /\ OutreachIds = {}
    BY DEF OutreachIds
  <2>. QED  BY <2>1, <2>2, <2>3, <2>4
<1>2. NoJob \in Jobs /\ {} \in SUBSET Cards
  BY DEF Jobs
<1>3. TypeOK
  <2>1. reply \in [status : {"none"}, found : SUBSET Cards]
    BY <1>2 DEF NoReply
  <2>2. browser \in [job : Jobs, stage : {"none"}, found : SUBSET Cards]
    BY <1>2 DEF Idle
  <2>3. outreach \in Seq(OutreachRows)
    BY <1>1
  <2>. QED  BY <1>1, <1>2, <2>1, <2>2, <2>3, EchemiAssumption
            DEF TypeOK, SearchRows, OutreachRows, RowStatuses
<1>4. OneRow /\ OutreachIds \subseteq Rows /\ \A o \in OutreachIds : Recorded(o) /\ Delivers(o)
  BY <1>1 DEF OneRow
<1>5. \A o \in Rows : Seen(o)
  BY <1>1, JobsDiffer DEF Seen
<1>6. \A s \in SearchIds : Searched(s) /\ Runs(s)
  BY <1>1, JobsDiffer DEF Searched, Runs, Active
<1>7. Ordered /\ WorksOn /\ NothingOpen /\ Listed
  BY <1>1, JobsDiffer DEF Ordered, WorksOn, NothingOpen, Listed, Active
<1>. QED  BY <1>1, <1>3, <1>4, <1>5, <1>6, <1>7 DEF EchemiInv

LEMMA EchemiStep == EchemiInv /\ [Next]_vars => EchemiInv'
<1>. SUFFICES ASSUME EchemiInv, [Next]_vars PROVE EchemiInv'
  OBVIOUS
<1>0. moves \in 0 .. MaxMoves /\ deaths \in 0 .. MaxDeaths /\ MaxMoves \in Nat /\ MaxDeaths \in Nat
  BY EchemiAssumption DEF EchemiInv, TypeOK
<1>1. CASE /\ moves < MaxMoves /\ moves' = moves + 1 /\ People
           /\ UNCHANGED <<worker, reply, posted, browser, site, deaths>>
  <2>1. moves' \in 0 .. MaxMoves
    BY <1>0, <1>1
  <2>2. CASE CreateChecks
    BY <1>1, <2>1, <2>2, EditStep DEF CreateChecks, EchemiInv, TypeOK
  <2>3. ASSUME NEW r \in Rfqs, EnsureRfqSearch(r) PROVE EchemiInv'
    BY <1>1, <2>1, <2>3, EnsureStep
  <2>4. ASSUME NEW r \in Rfqs, NEW q \in Queries, EditRfq(r, q) PROVE EchemiInv'
    BY <1>1, <2>1, <2>4, EditStep DEF EditRfq, EchemiInv, TypeOK
  <2>5. ASSUME NEW r \in Rfqs, NEW U \in SUBSET Cards, Enqueue(r, U) PROVE EchemiInv'
    BY <1>1, <2>1, <2>5, EnqueueStep
  <2>. QED  BY <1>1, <2>2, <2>3, <2>4, <2>5 DEF People
<1>2. ASSUME NEW q \in Queries, CreateInserts(q),
             UNCHANGED <<worker, reply, posted, browser, site, bounds>>
      PROVE  EchemiInv'
  BY <1>2, CreateInsertsStep
<1>3. CASE Worker /\ UNCHANGED bounds
  BY <1>3, RecoverDeliveriesStep, RecoverSearchesStep, ClaimOutreachStep, ClaimSearchStep,
     PostStep, GiveUpStep, SaveProgressStep, RecordInquiryStep, RetrySearchStep, RecordSearchStep
  DEF Worker
<1>4. CASE Browser /\ UNCHANGED bounds
  BY <1>4, ArriveStep, FinishSteps, SubmitClicksStep, CollectSteps DEF Browser
<1>5. CASE deaths < MaxDeaths /\ deaths' = deaths + 1 /\ (WorkerDies \/ BrowserDies) /\ UNCHANGED moves
  BY <1>0, <1>5, WorkerDiesStep, BrowserDiesStep
<1>6. CASE UNCHANGED vars
  BY <1>6, EditStep DEF vars, tables, bounds, EchemiInv, TypeOK
<1>. QED  BY <1>1, <1>2, <1>3, <1>4, <1>5, <1>6 DEF Next

LEMMA EchemiInvariant == Spec => []EchemiInv
  BY EchemiInit, EchemiStep, PTL DEF Spec

\* The rows of the two tables, the worker and the browser keep their types.
THEOREM EchemiTyped == Spec => []TypeOK
<1>1. EchemiInv => TypeOK
  BY DEF EchemiInv
<1>. QED  BY <1>1, EchemiInvariant, PTL

\* The button of a form is pressed once at most for a row (echemi_worker.py
\* marks what was interrupted as unknown and never asks for it again).
THEOREM SubmittedAtMostOnce == Spec => []SubmittedOnce
<1>1. EchemiInv => SubmittedOnce
  BY DEF EchemiInv, SubmittedOnce, Seen
<1>. QED  BY <1>1, EchemiInvariant, PTL

\* A row that may be asked for again was not submitted, and what is called
\* sent the site has confirmed.
THEOREM BlockedWasNotSubmitted == Spec => []BlockedNotSubmitted
<1>1. EchemiInv => BlockedNotSubmitted
  BY DEF EchemiInv, BlockedNotSubmitted, Recorded, Untouched
<1>. QED  BY <1>1, EchemiInvariant, PTL

\* Two rows of an RFQ are never of one company, so that no company is asked
\* twice (enqueue, under the lock of the RFQ).
THEOREM CompanyIsAskedOnce == Spec => []CompanyAskedOnce
<1>1. EchemiInv => CompanyAskedOnce
  BY DEF EchemiInv, CompanyAskedOnce, OneRow, Same
<1>. QED  BY <1>1, EchemiInvariant, PTL

\* A worker in its loop has closed what the one before it left open.
THEOREM NothingIsOrphaned == Spec => []NoOrphans
<1>1. EchemiInv => NoOrphans
  BY DEF EchemiInv, NoOrphans, NothingOpen
<1>. QED  BY <1>1, EchemiInvariant, PTL

\* One unfinished search at most for an RFQ and what it is searched by.
THEOREM SearchesAreSingle == Spec => []OneActiveSearch
<1>1. EchemiInv => OneActiveSearch
  <2>. SUFFICES ASSUME EchemiInv, NEW s \in SearchIds, NEW t \in SearchIds,
                       searches[s].rfq = searches[t].rfq, searches[s].rfq # NoRfq,
                       searches[s].query = searches[t].query,
                       searches[s].status \in Active, searches[t].status \in Active
                PROVE  s = t
    BY DEF OneActiveSearch
  <2>1. ~(s < t) /\ ~(t < s) /\ SearchIds \subseteq Nat
    BY Shapes DEF EchemiInv, Ordered
  <2>. QED  BY <2>1
<1>. QED  BY <1>1, EchemiInvariant, PTL

-----------------------------------------------------------------------------
(* What a search has found. *)

Kept(s) ==
  /\ searches[s].results # {} => searches'[s].results # {}
  /\ searches[s].status \in Settled => searches'[s] = searches[s]

LEMMA RunningKept ==
  ASSUME EchemiInv, NEW s \in SearchIds, worker.job = Search(s), worker.pc = "wait",
         NEW row, searches' = [searches EXCEPT ![s] = row],
         searches[s].results # {} => row.results # {}
  PROVE  \A t \in SearchIds : Kept(t)
<1>1. searches[s].status = "running"
  BY DEF EchemiInv, Runs
<1>2. searches \in [SearchIds -> SearchRows]
  BY Shapes DEF EchemiInv
<1>3. \A t \in SearchIds : searches'[t] = IF t = s THEN row ELSE searches[t]
  BY <1>2
<1>. QED  BY <1>1, <1>3 DEF Kept, Settled

LEMMA WorkerKeeps ==
  ASSUME EchemiInv, Worker PROVE \A s \in SearchIds : Kept(s)
<1>0. /\ searches \in [SearchIds -> SearchRows]
      /\ SearchIds = 1 .. Len(searches)
  BY Shapes DEF EchemiInv
<1>1. CASE UNCHANGED searches
  BY <1>1 DEF Kept
<1>2. CASE RecoverSearches
  <2>1. \A s \in SearchIds :
          searches'[s] = IF searches[s].status = "running"
                         THEN [searches[s] EXCEPT !.status = "failed"] ELSE searches[s]
    BY <1>2 DEF RecoverSearches
  <2>. QED  BY <1>0, <2>1 DEF Kept, SearchRows, Settled
<1>3. CASE ClaimSearch
  <2>1. PICK s \in SearchIds : /\ searches[s].status = "queued"
                               /\ searches' = [searches EXCEPT ![s].status = "running"]
    BY <1>3 DEF ClaimSearch, Earliest, QueuedSearches
  <2>2. searches[s].results = {}
    BY <2>1 DEF EchemiInv, Searched, Fresh
  <2>. QED  BY <1>0, <2>1, <2>2 DEF Kept, Settled
<1>4. CASE SaveProgress
  <2>1. /\ worker.pc = "wait" /\ worker.job = browser.job /\ reply = NoReply
        /\ browser.job.kind = "search"
    BY <1>4 DEF SaveProgress, Waiting
  <2>2. PICK s \in SearchIds : browser.job = Search(s)
    BY <2>1, JobKinds DEF EchemiInv, TypeOK
  <2>3. searches' = [searches EXCEPT ![s].results = browser.found]
    <3>1. browser.job.id = s
      BY <2>2, JobsDiffer
    <3>. QED  BY <1>4, <3>1 DEF SaveProgress
  <2>4. searches[s].results # {} => browser.found # {}
    BY <2>1, <2>2, JobsDiffer DEF EchemiInv, Runs
  <2>5. searches[s] \in SearchRows
    BY <1>0
  <2>. DEFINE row == [searches[s] EXCEPT !.results = browser.found]
  <2>6. searches' = [searches EXCEPT ![s] = row] /\ row.results = browser.found
    BY <1>0, <2>3, <2>5 DEF SearchRows
  <2>. HIDE DEF row
  <2>. QED  BY <2>1, <2>2, <2>4, <2>6, RunningKept
<1>5. CASE RetrySearch
  <2>1. worker.pc = "wait" /\ worker.job.kind = "search" /\ reply.status = "busy"
    BY <1>5 DEF RetrySearch, Answered
  <2>2. PICK s \in SearchIds : worker.job = Search(s)
    BY <2>1, JobKinds DEF EchemiInv, TypeOK
  <2>3. searches[s].results = {} /\ searches[s].status = "running"
    BY <2>1, <2>2 DEF EchemiInv, Runs, Fresh
  <2>4. \A t \in SearchIds : t # s => searches'[t] = searches[t]
    <3>1. worker.job.id = s
      BY <2>2, JobsDiffer
    <3>. QED  BY <1>0, <1>5, <3>1 DEF RetrySearch
  <2>. QED  BY <2>3, <2>4 DEF Kept, Settled
<1>6. CASE RecordSearch
  <2>1. /\ worker.pc = "wait" /\ worker.job.kind = "search"
        /\ reply # NoReply /\ reply.status # "busy"
    BY <1>6 DEF RecordSearch, Answered
  <2>2. PICK s \in SearchIds : worker.job = Search(s)
    BY <2>1, JobKinds DEF EchemiInv, TypeOK
  <2>. DEFINE status == IF reply.status = "error" THEN "failed" ELSE reply.status
              keep == searches[s].results # {} /\ reply.found = {} /\ status \in {"failed", "blocked"}
              end == IF keep THEN "partial" ELSE status
              found == IF keep THEN searches[s].results ELSE reply.found
              row == [searches[s] EXCEPT !.status = end, !.results = found]
  <2>3. searches' = [searches EXCEPT ![s].status = end, ![s].results = found]
    <3>1. worker.job.id = s
      BY <2>2, JobsDiffer
    <3>. QED  BY <1>0, <1>6, <3>1 DEF RecordSearch
  <2>4. searches[s].results # {} => found # {}
    BY <2>1, <2>2 DEF EchemiInv, Runs
  <2>5. searches[s] \in SearchRows
    BY <1>0
  <2>. HIDE DEF end, found
  <2>6. searches' = [searches EXCEPT ![s] = row] /\ row.results = found
    BY <1>0, <2>3, <2>5 DEF SearchRows
  <2>. HIDE DEF row
  <2>. QED  BY <2>1, <2>2, <2>4, <2>6, RunningKept
<1>. QED  BY <1>1, <1>2, <1>3, <1>4, <1>5, <1>6
          DEF Worker, RecoverDeliveries, ClaimOutreach, Post, GiveUp, RecordInquiry, tables

LEMMA StepKeeps == EchemiInv /\ [Next]_vars => \A s \in SearchIds : Kept(s)
<1>. SUFFICES ASSUME EchemiInv, [Next]_vars PROVE \A s \in SearchIds : Kept(s)
  OBVIOUS
<1>1. CASE UNCHANGED searches
  BY <1>1 DEF Kept
<1>2. ASSUME NEW row, searches' = Append(searches, row) PROVE \A s \in SearchIds : Kept(s)
  <2>1. \A s \in SearchIds : searches'[s] = searches[s]
    BY <1>2, Shapes DEF EchemiInv
  <2>. QED  BY <2>1 DEF Kept
<1>3. ASSUME NEW q \in Queries, CreateInserts(q) PROVE \A s \in SearchIds : Kept(s)
  BY <1>2, <1>3 DEF CreateInserts
<1>4. CASE People
  BY <1>1, <1>2, <1>4 DEF People, CreateChecks, EnsureRfqSearch, EditRfq, Enqueue
<1>5. CASE Worker
  BY <1>5, WorkerKeeps
<1>6. CASE Browser \/ WorkerDies \/ BrowserDies
  BY <1>1, <1>6
  DEF Browser, Arrive, SubmitStops, SubmitClicks, SubmitEnds, CollectFinds, CollectEnds,
      CollectCancelled, WorkerDies, BrowserDies, tables
<1>. QED  BY <1>1, <1>3, <1>4, <1>5, <1>6 DEF Next, vars, tables

\* What a search has found survives its failure, and its end is final (the end
\* of run_one and recover in echemi_worker.py).
THEOREM WhatIsFoundIsKept == Spec => FoundIsKept
<1>1. EchemiInv /\ [Next]_vars =>
        [\A s \in SearchIds :
           /\ searches[s].results # {} => searches'[s].results # {}
           /\ searches[s].status \in Settled => searches'[s] = searches[s]]_vars
  BY StepKeeps DEF Kept
<1>. QED  BY <1>1, EchemiInvariant, PTL DEF Spec, FoundIsKept

=============================================================================
