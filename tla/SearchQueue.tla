---------------------------- MODULE SearchQueue ----------------------------
(***************************************************************************)
(* The supplier-search queue: rows of the search_runs table, the worker    *)
(* processes that execute them under a lease with a fencing generation,    *)
(* and the API handlers that create, cancel, resume and restart them.      *)
(*                                                                         *)
(* Sources: backend/app/search_worker.py, services/search_lease.py,        *)
(* services/search_trace.py, api/search_runs.py, api/supplier_search.py,   *)
(* services/rfq_service.py.                                                *)
(*                                                                         *)
(* One row is one run.  A worker keeps the row in a SQLAlchemy session     *)
(* (expire_on_commit and autoflush are off): seen[w] is the status its     *)
(* session remembers, and a commit writes the status column only when the  *)
(* assigned value differs from seen[w] (operator Flush).  Every commit of  *)
(* the executor and of the qualifier is a step of its own, so the other    *)
(* workers, the API and the sweep run between any two of them.             *)
(***************************************************************************)
EXTENDS Naturals, FiniteSets

CONSTANTS
  Workers,        \* worker slots; a slot runs one process at a time
  Groups,         \* (RFQ, country) pairs a search can be enqueued for
  NoRfq,          \* the group of the searches that belong to no RFQ
  SubstanceOf,    \* the substance key of each group
  NoOwner,        \* lease_owner IS NULL
  MaxRuns,        \* bound: rows of search_runs
  MaxRestarts,    \* bound: process restarts of one worker slot
  MaxClaims,      \* bound: lease generations of one run
  MaxResumes,     \* bound: successful calls of POST .../resume
  MaxLlmRetries,  \* _MAX_LLM_AUTO_RETRIES
  LateHeartbeats  \* TRUE: a lease may lapse while its worker is executing the job

Runs == 1 .. MaxRuns
AllGroups == Groups \cup {NoRfq}

\* worker_identity(): host, pid and a random suffix, so a restarted process
\* of the same slot never has the identity of its predecessor.
Identities == Workers \X (0 .. MaxRestarts)

ASSUME BoundsAssumption ==
  /\ MaxRuns \in Nat /\ MaxRestarts \in Nat /\ MaxClaims \in Nat
  /\ MaxResumes \in Nat /\ MaxLlmRetries \in Nat
  /\ LateHeartbeats \in BOOLEAN
ASSUME NamesAssumption ==
  /\ NoRfq \notin Groups
  /\ NoOwner \notin Identities
  /\ DOMAIN SubstanceOf = AllGroups

----------------------------------------------------------------------------
(* Statuses.  Settled is the API's set, Terminal the worker's.             *)

Settled == {"completed", "failed", "cancelled"}
Terminal == Settled \cup {"search_completed"}
Processing == {"identifying", "planning", "searching",
               "fetching_sources", "qualifying", "verifying"}
Statuses == {"absent", "queued"} \cup Processing \cup Terminal

VARIABLES
  (* columns of search_runs *)
  status, group, owner, gen, exp, resultBy, found, retries,
  archived,       \* RFQs with deleted_at set
  resumes,        \* number of resumes so far, for MaxResumes
  (* one process per worker slot *)
  pc, stage, err, job, token, seen, tries, epoch, swept

rows == <<status, group, owner, gen, exp, resultBy, found, retries>>
lease == <<owner, gen, exp>>
result == <<resultBy, found>>
api == <<archived, resumes>>
proc == <<pc, stage, err, job, token, seen, tries>>
vars == <<status, group, owner, gen, exp, resultBy, found, retries,
          archived, resumes,
          pc, stage, err, job, token, seen, tries, epoch, swept>>

Identity(w) == <<w, epoch[w]>>

NoRun == 0

Init ==
  /\ status = [r \in Runs |-> "absent"]
  /\ group = [r \in Runs |-> NoRfq]
  /\ owner = [r \in Runs |-> NoOwner]
  /\ gen = [r \in Runs |-> 0]
  /\ exp = [r \in Runs |-> "none"]
  /\ resultBy = [r \in Runs |-> 0]
  /\ found = [r \in Runs |-> FALSE]
  /\ retries = [r \in Runs |-> 0]
  /\ archived = {}
  /\ resumes = 0
  /\ pc = [w \in Workers |-> "start"]
  /\ stage = [w \in Workers |-> "none"]
  /\ err = [w \in Workers |-> "none"]
  /\ job = [w \in Workers |-> NoRun]
  /\ token = [w \in Workers |-> 0]
  /\ seen = [w \in Workers |-> "absent"]
  /\ tries = [w \in Workers |-> 0]
  /\ epoch = [w \in Workers |-> 0]
  /\ swept = [w \in Workers |-> {}]

----------------------------------------------------------------------------
(* The lease primitives of search_lease.py.                                *)

\* Mutant: the generation does not grow.
GrantWithoutFence(r, w) ==
  /\ owner' = [owner EXCEPT ![r] = Identity(w)]
  /\ gen' = gen
  /\ exp' = [exp EXCEPT ![r] = "live"]

GrantLease(r, w) ==
  /\ owner' = [owner EXCEPT ![r] = Identity(w)]
  /\ gen' = [gen EXCEPT ![r] = @ + 1]
  /\ exp' = [exp EXCEPT ![r] = "live"]

\* Mutant: the deadline of the finished job stays.
ReleaseOwnerOnly(r) ==
  /\ owner' = [owner EXCEPT ![r] = NoOwner]
  /\ UNCHANGED <<exp, gen>>

ReleaseLease(r) ==
  /\ owner' = [owner EXCEPT ![r] = NoOwner]
  /\ exp' = [exp EXCEPT ![r] = "none"]
  /\ gen' = gen

HoldsLease(r, w) == owner[r] = Identity(w) /\ gen[r] = token[w]

\* Mutants: the deadline is not looked at; only one's own leases count.
RecoverableAnyway(r, w) == owner[r] # NoOwner
RecoverableIfOwn(r, w) == owner[r] = Identity(w)

LeaseIsRecoverable(r, w) ==
  \/ owner[r] \in {NoOwner, Identity(w)}
  \/ exp[r] # "live"

\* Assigning s to the status of a row the session of w remembers as seen[w].
Flush(w, s) == IF seen[w] = s THEN status[job[w]] ELSE s

Goto(w, p) == pc' = [pc EXCEPT ![w] = p]

\* _execute_claimed_job has returned; the heartbeat thread ends with it.
BackToLoop(w) ==
  /\ Goto(w, "idle")
  /\ job' = [job EXCEPT ![w] = NoRun]
  /\ token' = [token EXCEPT ![w] = 0]
  /\ stage' = [stage EXCEPT ![w] = "none"]
  /\ err' = [err EXCEPT ![w] = "none"]
  /\ seen' = [seen EXCEPT ![w] = "absent"]
  /\ tries' = [tries EXCEPT ![w] = 0]

----------------------------------------------------------------------------
(* API handlers.  Each is one transaction.                                 *)

Unused == {r \in Runs : status[r] = "absent"}
IsNextId(r) == r \in Unused /\ \A q \in Unused : r <= q

\* POST /supplier-search/jobs
Enqueue(g) ==
  /\ g \notin archived
  /\ \E r \in Runs :
       /\ IsNextId(r)
       /\ status' = [status EXCEPT ![r] = "queued"]
       /\ group' = [group EXCEPT ![r] = g]
  /\ UNCHANGED <<lease, result, retries, api, proc, epoch, swept>>

\* A newer unfinished run of the same RFQ and country: both handlers answer 409.
NewerActive(r) ==
  /\ group[r] # NoRfq
  /\ \E q \in Runs : /\ q > r /\ group[q] = group[r]
                     /\ status[q] \notin Settled \cup {"absent"}

\* POST /search-runs/{id}/restart.  A run that is neither failed nor cancelled
\* must have shown no activity for 30 minutes; that may be so in any status.
Restart(r) ==
  /\ status[r] \notin {"absent", "completed"}
  /\ ~NewerActive(r)
  /\ \E q \in Runs :
       /\ IsNextId(q)
       /\ status' = [status EXCEPT
            ![r] = IF @ \in Settled THEN @ ELSE "cancelled",
            ![q] = "queued"]
       /\ group' = [group EXCEPT ![q] = group[r]]
  /\ UNCHANGED <<lease, result, retries, api, proc, epoch, swept>>

\* Mutant: resuming is offered whenever restarting is.
CanResumeCancelled(r) ==
  status[r] \in {"failed", "cancelled"} /\ group[r] # NoRfq

CanResume(r) == status[r] = "failed" /\ group[r] # NoRfq /\ found[r]

\* POST /search-runs/{id}/resume.  The lease columns are left as they are.
Resume(r) ==
  /\ resumes < MaxResumes
  /\ CanResume(r)
  /\ ~NewerActive(r)
  /\ status' = [status EXCEPT ![r] = "search_completed"]
  /\ resumes' = resumes + 1
  /\ UNCHANGED <<group, lease, result, retries, archived, proc, epoch, swept>>

\* DELETE /rfq/{id}: archive_rfq cancels every unfinished run of the RFQ.
Archive(g) ==
  /\ g \in Groups \ archived
  /\ archived' = archived \cup {g}
  /\ status' = [r \in Runs |->
       IF group[r] = g /\ status[r] \notin Settled \cup {"absent"}
         THEN "cancelled" ELSE status[r]]
  /\ UNCHANGED <<group, lease, result, retries, resumes, proc, epoch, swept>>

----------------------------------------------------------------------------
(* Taking a job: claim_next_job, serialised by an advisory lock.           *)

\* Mutant: the WHERE clause on the lease is missing.
ClaimableLeased(r, w) ==
  \/ status[r] = "queued"
  \/ status[r] = "search_completed" /\ group[r] # NoRfq

Claimable(r, w) ==
  /\ \/ status[r] = "queued"
     \/ status[r] = "search_completed" /\ group[r] # NoRfq
  /\ exp[r] # "live" \/ owner[r] = Identity(w)

\* The coalesce of _substance_queue_key: two runs without an RFQ are grouped
\* by their CAS only, which SubstanceOf[NoRfq] stands for.
SameSubstance(r, q) == SubstanceOf[group[r]] = SubstanceOf[group[q]]

ActiveForSubstance(r) ==
  Cardinality({q \in Runs : /\ status[q] \notin Settled
                            /\ owner[q] # NoOwner /\ exp[q] = "live"
                            /\ SameSubstance(q, r)})

ServedBefore(r, q) ==
  \/ ActiveForSubstance(r) < ActiveForSubstance(q)
  \/ ActiveForSubstance(r) = ActiveForSubstance(q) /\ r <= q

Claim(w) ==
  /\ pc[w] = "idle"
  /\ \E r \in Runs :
       /\ gen[r] < MaxClaims
       /\ Claimable(r, w)
       /\ \A q \in Runs : Claimable(q, w) => ServedBefore(r, q)
       /\ status' = [status EXCEPT ![r] =
            IF @ = "search_completed" THEN "fetching_sources" ELSE "identifying"]
       /\ GrantLease(r, w)
       /\ job' = [job EXCEPT ![w] = r]
       /\ token' = [token EXCEPT ![w] = gen[r] + 1]
  /\ Goto(w, "load")
  /\ UNCHANGED <<group, result, retries, api, stage, err, seen, tries, epoch, swept>>

\* The second session reads the row; a saved result skips the web search.
Load(w) ==
  /\ pc[w] = "load"
  /\ LET r == job[w]
         persisted == status[r] = "fetching_sources" /\ resultBy[r] # 0
     IN /\ seen' = [seen EXCEPT ![w] = status[r]]
        /\ IF persisted
             THEN /\ Goto(w, "fence_result")
                  /\ stage' = [stage EXCEPT ![w] = IF found[r] THEN "results" ELSE "empty"]
             ELSE /\ Goto(w, "write")
                  /\ stage' = [stage EXCEPT ![w] = "identifying"]
  /\ UNCHANGED <<rows, api, err, job, token, tries, epoch, swept>>

----------------------------------------------------------------------------
(* The stages of execute_supplier_search and execute_supplier_qualification. *)

\* `search_run.status = <stage>; db.commit()`: no lease is consulted.
StageWrite(w) ==
  /\ pc[w] = "write"
  /\ status' = [status EXCEPT ![job[w]] = Flush(w, stage[w])]
  /\ seen' = [seen EXCEPT ![w] = stage[w]]
  /\ Goto(w, "call")
  /\ UNCHANGED <<group, lease, result, retries, api, stage, err, job, token,
                 tries, epoch, swept>>

\* Where the code goes after the external calls of a stage.
After(s) ==
  CASE s = "identifying" -> {<<"write", "planning">>}
    [] s = "planning" -> {<<"write", "searching">>}
    [] s = "searching" -> {<<"found", "searching">>}
    [] s = "fetching_sources" -> {<<"write", "qualifying">>}
    [] s = "qualifying" -> {<<"write", "verifying">>, <<"finish", "qualifying">>}
    [] OTHER -> {<<"finish", s>>}

Advance(w) ==
  \E n \in After(stage[w]) :
    /\ Goto(w, n[1])
    /\ stage' = [stage EXCEPT ![w] = n[2]]

\* The call answers and _raise_if_cancelled rereads the status column.
StageReturns(w) ==
  /\ pc[w] = "call"
  /\ status[job[w]] # "cancelled"
  /\ seen' = [seen EXCEPT ![w] = status[job[w]]]
  /\ Advance(w)
  /\ UNCHANGED <<rows, api, err, job, token, tries, epoch, swept>>

\* The same reread finds the run cancelled: SearchRunCancelled reaches the
\* worker, which writes nothing and does not release the lease.
StageCancelled(w) ==
  /\ pc[w] = "call"
  /\ status[job[w]] = "cancelled"
  /\ BackToLoop(w)
  /\ UNCHANGED <<rows, api, epoch, swept>>

\* A failing call that the stage tolerates skips the cancellation check.
\* identifying always checks once, after the PubChem lookup.
StageTolerates(w) ==
  /\ pc[w] = "call"
  /\ stage[w] # "identifying"
  /\ Advance(w)
  /\ UNCHANGED <<rows, api, err, job, token, seen, tries, epoch, swept>>

\* finish_search_run(error), commit, raise HTTPException: the run is failed
\* before the worker's handler sees the exception.
FailsWith(w, e) ==
  /\ status' = [status EXCEPT ![job[w]] = Flush(w, "failed")]
  /\ err' = [err EXCEPT ![w] = e]
  /\ Goto(w, "error")
  /\ UNCHANGED <<group, lease, result, retries, api, stage, job, token, seen,
                 tries, epoch, swept>>

\* 502: the source of results is blocked or unavailable.  (The 422 of a bad CAS
\* is out of reach: enqueue has refused it.)
SourceFails(w) ==
  pc[w] = "call" /\ stage[w] = "searching" /\ FailsWith(w, "other")

\* 503: the model is out.  An overflowing context is a 503 too but no outage.
ModelFails(w) ==
  /\ pc[w] = "call" /\ stage[w] = "qualifying"
  /\ FailsWith(w, "llm") \/ FailsWith(w, "other")

\* Any other exception leaves the stage without a commit.
StageRaises(w) ==
  /\ pc[w] = "call"
  /\ err' = [err EXCEPT ![w] = "other"]
  /\ Goto(w, "error")
  /\ UNCHANGED <<rows, api, stage, job, token, seen, tries, epoch, swept>>

\* The end of execute_supplier_search: result_payload and the status go out
\* in one commit.  The generation of the writer stands for the payload.
Found(w) ==
  /\ pc[w] = "found"
  /\ \E some \in BOOLEAN :
       /\ found' = [found EXCEPT ![job[w]] = some]
       /\ stage' = [stage EXCEPT ![w] = IF some THEN "results" ELSE "empty"]
  /\ resultBy' = [resultBy EXCEPT ![job[w]] = token[w]]
  /\ status' = [status EXCEPT ![job[w]] = Flush(w, "search_completed")]
  /\ seen' = [seen EXCEPT ![w] = "search_completed"]
  /\ Goto(w, "fence_result")
  /\ UNCHANGED <<group, lease, retries, api, err, job, token, tries, epoch, swept>>

----------------------------------------------------------------------------
(* The fencing checks of _execute_claimed_job.                             *)

LoseLease(w) == ~HoldsLease(job[w], w) /\ BackToLoop(w)

\* The payload assigned after the first check is the object the session
\* already holds, so this commit writes no column.  Without candidates the
\* run is complete: the status stays pending until the last commit.  There is a
\* reserve only behind a full list of results, which has one at least.
FenceResult(w) ==
  /\ pc[w] = "fence_result"
  /\ \/ LoseLease(w)
     \/ /\ HoldsLease(job[w], w)
        /\ IF stage[w] = "results"
             THEN /\ Goto(w, "write")
                  /\ stage' = [stage EXCEPT ![w] = "fetching_sources"]
             ELSE /\ Goto(w, "fence_final")
                  /\ UNCHANGED stage
        /\ UNCHANGED <<err, job, token, seen, tries>>
  /\ UNCHANGED <<rows, api, epoch, swept>>

\* finish_search_run at the end of the qualification: completed, or failed
\* when there are fewer sources than requested.  Committed before any check.
Finish(w) ==
  /\ pc[w] = "finish"
  /\ \E s \in {"completed", "failed"} :
       /\ status' = [status EXCEPT ![job[w]] = Flush(w, s)]
       /\ seen' = [seen EXCEPT ![w] = s]
  /\ stage' = [stage EXCEPT ![w] = "none"]
  /\ Goto(w, "fence_final")
  /\ UNCHANGED <<group, lease, result, retries, api, err, job, token, tries, epoch, swept>>

FenceFinal(w) ==
  /\ pc[w] = "fence_final"
  /\ \/ LoseLease(w)
     \/ /\ HoldsLease(job[w], w)
        /\ Goto(w, "release")
        /\ UNCHANGED <<stage, err, job, token, seen, tries>>
  /\ UNCHANGED <<rows, api, epoch, swept>>

\* The last commit.  Its UPDATE names the row only, not the generation.
Release(w) ==
  /\ pc[w] = "release"
  /\ status' = IF stage[w] = "empty"
                 THEN [status EXCEPT ![job[w]] = Flush(w, "completed")] ELSE status
  /\ ReleaseLease(job[w])
  /\ BackToLoop(w)
  /\ UNCHANGED <<group, result, retries, api, epoch, swept>>

----------------------------------------------------------------------------
(* The exception handler: rollback, reread the row, then decide.           *)

\* Mutant: one attempt too many.
RetriesLeftInclusive(r) == retries[r] <= MaxLlmRetries

RetriesLeft(r) == retries[r] < MaxLlmRetries

ErrorRead(w) ==
  /\ pc[w] = "error"
  /\ LET r == job[w]
         outage == err[w] = "llm" /\ RetriesLeft(r)
     IN IF HoldsLease(r, w) /\ status[r] # "cancelled"
          THEN /\ seen' = [seen EXCEPT ![w] = status[r]]
               /\ tries' = [tries EXCEPT ![w] = retries[r]]
               /\ Goto(w, IF outage THEN "requeue" ELSE "fail")
               /\ stage' = [stage EXCEPT ![w] = IF group[r] # NoRfq /\ found[r]
                                                  THEN "results" ELSE "none"]
               /\ UNCHANGED <<err, job, token>>
          ELSE BackToLoop(w)
  /\ UNCHANGED <<rows, api, epoch, swept>>

\* requeue_after_llm_outage: the counter and the saved results are those of
\* the row as it was reread.
Requeue(w) ==
  /\ pc[w] = "requeue"
  /\ LET s == IF stage[w] = "results" THEN "search_completed" ELSE "queued"
     IN status' = [status EXCEPT ![job[w]] = Flush(w, s)]
  /\ retries' = [retries EXCEPT ![job[w]] = tries[w] + 1]
  /\ ReleaseLease(job[w])
  /\ BackToLoop(w)
  /\ UNCHANGED <<group, result, api, epoch, swept>>

FailJob(w) ==
  /\ pc[w] = "fail"
  /\ status' = [status EXCEPT ![job[w]] = Flush(w, "failed")]
  /\ ReleaseLease(job[w])
  /\ BackToLoop(w)
  /\ UNCHANGED <<group, result, retries, api, epoch, swept>>

----------------------------------------------------------------------------
(* recover_interrupted_jobs: at the start of the process and every minute  *)
(* between jobs.  It selects, decides in memory and writes by row id.      *)

SweepRead(w) ==
  /\ pc[w] \in {"start", "idle"}
  /\ LET interrupted == {r \in Runs : /\ status[r] \in Processing
                                      /\ LeaseIsRecoverable(r, w)}
     IN /\ swept' = [swept EXCEPT ![w] =
                       {<<r, owner[r] # NoOwner>> : r \in interrupted}]
        /\ Goto(w, IF interrupted = {} THEN "idle" ELSE "sweep")
  /\ UNCHANGED <<rows, api, stage, err, job, token, seen, tries, epoch>>

\* A lease column that was NULL when read is not part of the UPDATE.
SweepWrite(w) ==
  /\ pc[w] = "sweep"
  /\ LET hit(r) == \E leased \in BOOLEAN : <<r, leased>> \in swept[w]
         freed(r) == <<r, TRUE>> \in swept[w]
     IN /\ status' = [r \in Runs |-> IF hit(r) THEN "failed" ELSE status[r]]
        /\ owner' = [r \in Runs |-> IF freed(r) THEN NoOwner ELSE owner[r]]
        /\ exp' = [r \in Runs |-> IF freed(r) THEN "none" ELSE exp[r]]
  /\ swept' = [swept EXCEPT ![w] = {}]
  /\ Goto(w, "idle")
  /\ UNCHANGED <<group, gen, result, retries, api, stage, err, job, token, seen,
                 tries, epoch>>

----------------------------------------------------------------------------
(* The heartbeat thread, time and crashes.                                 *)

\* renew_lease matches owner and generation only: an expired lease that
\* nobody took is revived.  A renewal before the expiry shows in KeptAlive; one
\* that matches no row ends the thread, which could not match again later.
HeartbeatRenews(w) ==
  /\ job[w] # NoRun
  /\ HoldsLease(job[w], w)
  /\ exp[job[w]] = "past"
  /\ exp' = [exp EXCEPT ![job[w]] = "live"]
  /\ UNCHANGED <<status, group, owner, gen, result, retries, api, proc, epoch, swept>>

KeptAlive(r) == \E w \in Workers : job[w] = r /\ HoldsLease(r, w)

\* search_lease_ttl_s seconds without a renewal: the worker is gone, or (with
\* LateHeartbeats) its process stalls or its heartbeat thread has died of a
\* database error, which _loop does not catch.
LeaseExpires(r) ==
  /\ exp[r] = "live"
  /\ LateHeartbeats \/ ~KeptAlive(r)
  /\ exp' = [exp EXCEPT ![r] = "past"]
  /\ UNCHANGED <<status, group, owner, gen, result, retries, api, proc, epoch, swept>>

\* The process dies and is started again: main() begins with a sweep.
Crash(w) ==
  /\ epoch[w] < MaxRestarts
  /\ epoch' = [epoch EXCEPT ![w] = @ + 1]
  /\ pc' = [pc EXCEPT ![w] = "start"]
  /\ job' = [job EXCEPT ![w] = NoRun]
  /\ token' = [token EXCEPT ![w] = 0]
  /\ stage' = [stage EXCEPT ![w] = "none"]
  /\ err' = [err EXCEPT ![w] = "none"]
  /\ seen' = [seen EXCEPT ![w] = "absent"]
  /\ tries' = [tries EXCEPT ![w] = 0]
  /\ swept' = [swept EXCEPT ![w] = {}]
  /\ UNCHANGED <<rows, api>>

----------------------------------------------------------------------------
(* The next-state relation and the specification.                          *)

Call(w) == \/ StageReturns(w) \/ StageCancelled(w) \/ StageTolerates(w)
           \/ SourceFails(w) \/ ModelFails(w) \/ StageRaises(w)

\* The steps of the job a worker has taken.
JobStep(w) ==
  \/ Load(w) \/ StageWrite(w) \/ Call(w) \/ Found(w) \/ FenceResult(w)
  \/ Finish(w) \/ FenceFinal(w) \/ Release(w)
  \/ ErrorRead(w) \/ Requeue(w) \/ FailJob(w)

ApiStep ==
  \/ \E g \in AllGroups : Enqueue(g)
  \/ \E g \in Groups : Archive(g)
  \/ \E r \in Runs : Restart(r) \/ Resume(r)

Next ==
  \/ ApiStep
  \/ \E w \in Workers : \/ Claim(w) \/ JobStep(w) \/ SweepRead(w) \/ SweepWrite(w)
                        \/ HeartbeatRenews(w) \/ Crash(w)
  \/ \E r \in Runs : LeaseExpires(r)

Spec == Init /\ [][Next]_vars

\* A live process keeps executing its loop and its job, and clocks advance.
\* Users, crashes and the heartbeat are under no obligation.
Fairness ==
  /\ \A w \in Workers : /\ WF_vars(Claim(w)) /\ WF_vars(JobStep(w))
                        /\ WF_vars(SweepRead(w)) /\ WF_vars(SweepWrite(w))
  /\ \A r \in Runs : WF_vars(LeaseExpires(r))

FairSpec == Spec /\ Fairness

----------------------------------------------------------------------------
(* Properties.                                                             *)

Positions == {"start", "idle", "sweep", "load", "write", "call", "found",
              "fence_result", "finish", "fence_final", "release",
              "error", "requeue", "fail"}
Stages == {"none", "results", "empty"} \cup Processing

RowsTyped ==
  /\ status \in [Runs -> Statuses]
  /\ group \in [Runs -> AllGroups]
  /\ owner \in [Runs -> Identities \cup {NoOwner}]
  /\ gen \in [Runs -> Nat]
  /\ exp \in [Runs -> {"none", "live", "past"}]
  /\ resultBy \in [Runs -> Nat]
  /\ found \in [Runs -> BOOLEAN]
  /\ retries \in [Runs -> 0 .. MaxLlmRetries]
  /\ archived \subseteq Groups
  /\ resumes \in 0 .. MaxResumes

ProcsTyped ==
  /\ pc \in [Workers -> Positions]
  /\ stage \in [Workers -> Stages]
  /\ err \in [Workers -> {"none", "llm", "other"}]
  /\ job \in [Workers -> Runs \cup {NoRun}]
  /\ token \in [Workers -> Nat]
  /\ seen \in [Workers -> Statuses]
  /\ tries \in [Workers -> 0 .. MaxLlmRetries]
  /\ epoch \in [Workers -> 0 .. MaxRestarts]
  /\ swept \in [Workers -> SUBSET (Runs \X BOOLEAN)]

\* Every variable has its type; in particular the count of LLM outages of a run
\* never passes MaxLlmRetries, though it is written from a stale read.
TypeOK == RowsTyped /\ ProcsTyped

\* Two workers that both believe they execute a run carry different
\* generations, none newer than the row's: at most one of them passes a
\* fencing check, however often leases lapse and revive.
TokensUnique ==
  /\ \A w \in Workers : job[w] # NoRun => token[w] <= gen[job[w]]
  /\ \A v, w \in Workers :
       v # w /\ job[v] # NoRun /\ job[v] = job[w] => token[v] # token[w]

\* A queued run carries no trace of a lease, so it never waits for the
\* deadline of somebody who has given it back; and an owner without a
\* deadline, or a deadline without an owner, never appears.
LeaseColumnsAgree ==
  \A r \in Runs :
    /\ owner[r] = NoOwner <=> exp[r] = "none"
    /\ status[r] \in {"absent", "queued"} => owner[r] = NoOwner

\* The lease columns behave as a register of fenced leases: a foreign lease
\* that has not lapsed is never taken over by a grant, and no grant reuses
\* a generation.
Register == INSTANCE LeaseRegister WITH
  Jobs <- Runs, Holders <- Identities, Nobody <- NoOwner,
  holder <- owner, fence <- gen, valid <- [r \in Runs |-> exp[r] = "live"]
ImplementsRegister == Register!Spec

\* No worker has the run in hand, neither as its job nor in a sweep.
AtRest(r) == \A w \in Workers : job[w] # r /\ swept[w] \cap ({r} \X BOOLEAN) = {}

\* A cancelled run that no worker has in hand is never started again:
\* neither the queue, nor resume, nor restart picks it up.
CancelledAtRestIsFinal ==
  [][\A r \in Runs : status[r] = "cancelled" /\ AtRest(r)
                       => status'[r] = "cancelled"]_vars

\* While heartbeats are on time, a run is executed by one worker at a time.
OneExecutor ==
  \A v, w \in Workers : v # w /\ job[v] # NoRun => job[v] # job[w]

\* While heartbeats are on time, every status a worker writes for its job,
\* fenced or not, is written under the current lease.
WritesUnderLease ==
  [][\A w \in Workers :
       LET r == job[w] IN
       r # NoRun /\ pc'[w] # pc[w] /\ epoch'[w] = epoch[w] /\ status'[r] # status[r]
         => HoldsLease(r, w)]_vars

\* A queued run of an RFQ ends completed, failed or cancelled, although
\* processes crash, models fail and users interfere.
QueuedIsServed ==
  \A r \in Runs : status[r] = "queued" /\ group[r] # NoRfq ~> status[r] \in Settled

----------------------------------------------------------------------------
(* What comments and tests of the repository say and the code does not do. *)

\* test_worker_does_not_resurrect_a_cancelled_search: a cancelled run stays
\* cancelled.
CancelledIsFinal ==
  [][\A r \in Runs : status[r] = "cancelled" => status'[r] = "cancelled"]_vars

\* search_lease.py, rule 3: only the owner of the current generation writes
\* the result.
ResultIsFenced ==
  [][\A r \in Runs : resultBy'[r] # resultBy[r]
                       => resultBy'[r] = gen[r] /\ owner[r] # NoOwner]_vars

\* recover_interrupted_jobs: a live lease of another worker is not touched.
SweepSparesLiveLeases ==
  [][\A w \in Workers : pc[w] = "sweep" /\ pc'[w] = "idle" =>
       \A r \in Runs : exp[r] = "live" /\ owner[r] # Identity(w)
                          => status'[r] = status[r] /\ owner'[r] = owner[r]]_vars

\* _WORKER_ID: a restarted worker recognises its own abandoned jobs.
RestartFindsOwnJobs ==
  [][\A w \in Workers : pc[w] = "start" /\ SweepRead(w) =>
       \A r \in Runs : status[r] \in Processing /\ (\E e \in 0 .. epoch[w] : owner[r] = <<w, e>>)
                          => <<r, TRUE>> \in swept'[w]]_vars

\* sweep_expired_leases: with the periodic sweep no abandoned run stays in an
\* intermediate status for ever.
NothingStaysIntermediate ==
  \A r \in Runs : status[r] = "search_completed" ~> status[r] # "search_completed"
=============================================================================
