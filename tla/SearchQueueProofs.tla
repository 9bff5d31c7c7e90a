------------------------- MODULE SearchQueueProofs -------------------------
(***************************************************************************)
(* Proofs about SearchQueue for any number of workers, runs, restarts,     *)
(* resumes and retries, with punctual and with late heartbeats.            *)
(***************************************************************************)
EXTENDS SearchQueue, TLAPS

\* Where the control of a worker is, its job and its stage fit: it has a job
\* exactly while it executes one, a status it is about to write is a
\* processing status, and it requeues only a run with attempts left.
ControlOf(w) ==
  /\ pc[w] \in {"start", "idle", "sweep"} <=> job[w] = NoRun
  /\ pc[w] \in {"write", "call", "found", "finish"} => stage[w] \in Processing
  /\ pc[w] = "requeue" => tries[w] < MaxLlmRetries

ControlOK == \A w \in Workers : ControlOf(w)

TypeInv == TypeOK /\ ControlOK

\* The steps of the job a worker has taken, and its other steps.
WorkerStep(w) ==
  \/ Claim(w) \/ Load(w) \/ StageWrite(w)
  \/ StageReturns(w) \/ StageCancelled(w) \/ StageTolerates(w)
  \/ SourceFails(w) \/ ModelFails(w) \/ StageRaises(w) \/ Found(w) \/ FenceResult(w)
  \/ Finish(w) \/ FenceFinal(w) \/ Release(w)
  \/ ErrorRead(w) \/ Requeue(w) \/ FailJob(w)
  \/ SweepRead(w) \/ SweepWrite(w) \/ HeartbeatRenews(w) \/ Crash(w)

SystemStep ==
  \/ \E g \in AllGroups : Enqueue(g)
  \/ \E g \in Groups : Archive(g)
  \/ \E r \in Runs : Restart(r) \/ Resume(r) \/ LeaseExpires(r)

\* Next is the steps of the API and of the clock, and those of the workers.
LEMMA NextSplit == Next <=> SystemStep \/ \E w \in Workers : WorkerStep(w)
  BY DEF Next, ApiStep, JobStep, Call, WorkerStep, SystemStep

----------------------------------------------------------------------------
(* Types and control.                                                      *)

\* A step of w leaves the other processes alone.
Bystanders(w) ==
  \A u \in Workers \ {w} : /\ pc'[u] = pc[u] /\ stage'[u] = stage[u]
                           /\ job'[u] = job[u] /\ token'[u] = token[u]
                           /\ tries'[u] = tries[u]

LEMMA BystandersSuffice ==
  ASSUME ControlOK, NEW w \in Workers, ControlOf(w)', Bystanders(w)
  PROVE  ControlOK'
  BY DEF ControlOK, ControlOf, Bystanders, NoRun

LEMMA SystemKeepsTypes ==
  ASSUME TypeInv, SystemStep PROVE TypeInv'
<1> USE BoundsAssumption, NamesAssumption
        DEF TypeInv, TypeOK, Statuses, Terminal, Settled, Processing, NoRun,
            AllGroups, rows, lease, result, api, proc
<1>1. ASSUME NEW g \in AllGroups, Enqueue(g) PROVE RowsTyped' /\ UNCHANGED <<proc, epoch, swept>>
  BY <1>1 DEF Enqueue, RowsTyped
<1>2. ASSUME NEW g \in Groups, Archive(g) PROVE RowsTyped' /\ UNCHANGED <<proc, epoch, swept>>
  BY <1>2 DEF Archive, RowsTyped
<1>3. ASSUME NEW r \in Runs, Restart(r) PROVE RowsTyped' /\ UNCHANGED <<proc, epoch, swept>>
  BY <1>3 DEF Restart, RowsTyped
<1>4. ASSUME NEW r \in Runs, Resume(r) PROVE RowsTyped' /\ UNCHANGED <<proc, epoch, swept>>
  BY <1>4 DEF Resume, RowsTyped
<1>5. ASSUME NEW r \in Runs, LeaseExpires(r) PROVE RowsTyped' /\ UNCHANGED <<proc, epoch, swept>>
  BY <1>5 DEF LeaseExpires, RowsTyped
<1>6. RowsTyped' /\ UNCHANGED <<proc, epoch, swept>>
  BY <1>1, <1>2, <1>3, <1>4, <1>5 DEF SystemStep
<1>. QED  BY <1>6 DEF ProcsTyped, ControlOK, ControlOf

\* The names the steps of a worker assign, so that the sets stay opaque.
LEMMA Names ==
  /\ {"start", "idle", "sweep", "load", "write", "call", "found", "fence_result",
      "finish", "fence_final", "release", "error", "requeue", "fail"} \subseteq Positions
  /\ {"none", "results", "empty", "identifying", "fetching_sources"} \subseteq Stages
  /\ Processing \subseteq Stages /\ Processing \subseteq Statuses
  /\ {"absent", "queued", "search_completed", "completed", "failed", "cancelled"}
       \subseteq Statuses
  /\ {"identifying", "fetching_sources"} \subseteq Processing
  /\ NoRun \notin Runs
  BY BoundsAssumption
     DEF Positions, Stages, Statuses, Processing, Terminal, Settled, Runs, NoRun

LEMMA AfterProcessing ==
  ASSUME NEW s \in Processing, NEW n \in After(s)
  PROVE  n[1] \in {"write", "found", "finish"} /\ n[2] \in Processing
  BY DEF After, Processing

\* Returning to the loop puts the process in a typed state.
LEMMA LoopTyped ==
  ASSUME TypeInv, NEW w \in Workers, BackToLoop(w), UNCHANGED <<epoch, swept>>
  PROVE  ProcsTyped' /\ ControlOf(w)' /\ Bystanders(w)
<1>. USE BoundsAssumption, Names
         DEF TypeInv, TypeOK, ProcsTyped, BackToLoop, Goto
<1>1. ProcsTyped'
  OBVIOUS
<1>2. ControlOf(w)'
  BY DEF ControlOf
<1>3. Bystanders(w)
  BY DEF Bystanders
<1>. QED  BY <1>1, <1>2, <1>3

LEMMA WorkerKeepsTypes ==
  ASSUME TypeInv, NEW w \in Workers, WorkerStep(w)
  PROVE  TypeInv' /\ Bystanders(w)
<1> USE BoundsAssumption, NamesAssumption, Names, LoopTyped
        DEF TypeInv, rows, lease, result, api, proc
<1>0. /\ RowsTyped /\ ProcsTyped /\ ControlOf(w)
      /\ pc[w] \notin {"start", "idle", "sweep"} => job[w] \in Runs
      /\ Identity(w) \in Identities
  BY DEF TypeOK, ProcsTyped, ControlOK, ControlOf, Identity, Identities
<1>1. CASE Claim(w)
  <2>1. RowsTyped'
    BY <1>0, <1>1 DEF RowsTyped, ProcsTyped, Claim, Goto, GrantLease
  <2>2. ProcsTyped'
    BY <1>0, <1>1 DEF RowsTyped, ProcsTyped, ControlOf, Claim, Goto, GrantLease
  <2>3. ControlOf(w)'
    BY <1>0, <1>1 DEF ProcsTyped, ControlOf, Claim, Goto, GrantLease
  <2>4. Bystanders(w)
    BY <1>0, <1>1 DEF Bystanders, ProcsTyped, Claim, Goto, GrantLease
  <2>. QED  BY <2>1, <2>2, <2>3, <2>4, BystandersSuffice DEF TypeOK
<1>2. CASE Load(w)
  <2>1. RowsTyped'
    BY <1>0, <1>2 DEF RowsTyped, ProcsTyped, Load, Goto
  <2>2. ProcsTyped'
    BY <1>0, <1>2 DEF RowsTyped, ProcsTyped, ControlOf, Load, Goto
  <2>3. ControlOf(w)'
    BY <1>0, <1>2 DEF ProcsTyped, ControlOf, Load, Goto
  <2>4. Bystanders(w)
    BY <1>0, <1>2 DEF Bystanders, ProcsTyped, Load, Goto
  <2>. QED  BY <2>1, <2>2, <2>3, <2>4, BystandersSuffice DEF TypeOK
<1>3. CASE StageWrite(w)
  <2>1. RowsTyped'
    BY <1>0, <1>3 DEF RowsTyped, ProcsTyped, ControlOf, StageWrite, Goto, Flush
  <2>2. ProcsTyped'
    BY <1>0, <1>3 DEF RowsTyped, ProcsTyped, ControlOf, StageWrite, Goto, Flush
  <2>3. ControlOf(w)'
    BY <1>0, <1>3 DEF ProcsTyped, ControlOf, StageWrite, Goto, Flush
  <2>4. Bystanders(w)
    BY <1>0, <1>3 DEF Bystanders, ProcsTyped, StageWrite, Goto, Flush
  <2>. QED  BY <2>1, <2>2, <2>3, <2>4, BystandersSuffice DEF TypeOK
<1>4. CASE StageReturns(w)
  <2>1. RowsTyped'
    BY <1>0, <1>4, AfterProcessing DEF RowsTyped, ProcsTyped, StageReturns, Goto, Advance
  <2>2. ProcsTyped'
    BY <1>0, <1>4, AfterProcessing DEF RowsTyped, ProcsTyped, ControlOf, StageReturns, Goto, Advance
  <2>3. ControlOf(w)'
    BY <1>0, <1>4, AfterProcessing DEF ProcsTyped, ControlOf, StageReturns, Goto, Advance
  <2>4. Bystanders(w)
    BY <1>0, <1>4, AfterProcessing DEF Bystanders, ProcsTyped, StageReturns, Goto, Advance
  <2>. QED  BY <2>1, <2>2, <2>3, <2>4, BystandersSuffice DEF TypeOK
<1>5. CASE StageCancelled(w)
  <2>1. RowsTyped'
    BY <1>0, <1>5 DEF RowsTyped, ProcsTyped, StageCancelled, Goto, BackToLoop
  <2>2. ProcsTyped'
    BY <1>0, <1>5 DEF RowsTyped, ProcsTyped, ControlOf, StageCancelled, Goto, BackToLoop
  <2>3. ControlOf(w)'
    BY <1>0, <1>5 DEF ProcsTyped, ControlOf, StageCancelled, Goto, BackToLoop
  <2>4. Bystanders(w)
    BY <1>0, <1>5 DEF Bystanders, ProcsTyped, StageCancelled, Goto, BackToLoop
  <2>. QED  BY <2>1, <2>2, <2>3, <2>4, BystandersSuffice DEF TypeOK
<1>6. CASE StageTolerates(w)
  <2>1. RowsTyped'
    BY <1>0, <1>6, AfterProcessing DEF RowsTyped, ProcsTyped, StageTolerates, Goto, Advance
  <2>2. ProcsTyped'
    BY <1>0, <1>6, AfterProcessing DEF RowsTyped, ProcsTyped, ControlOf, StageTolerates, Goto, Advance
  <2>3. ControlOf(w)'
    BY <1>0, <1>6, AfterProcessing DEF ProcsTyped, ControlOf, StageTolerates, Goto, Advance
  <2>4. Bystanders(w)
    BY <1>0, <1>6, AfterProcessing DEF Bystanders, ProcsTyped, StageTolerates, Goto, Advance
  <2>. QED  BY <2>1, <2>2, <2>3, <2>4, BystandersSuffice DEF TypeOK
<1>7. CASE SourceFails(w) \/ ModelFails(w)
  <2>1. RowsTyped'
    BY <1>0, <1>7 DEF RowsTyped, ProcsTyped, SourceFails, ModelFails, FailsWith, Goto, Flush
  <2>2. ProcsTyped'
    BY <1>0, <1>7 DEF RowsTyped, ProcsTyped, ControlOf, SourceFails, ModelFails, FailsWith, Goto, Flush
  <2>3. ControlOf(w)'
    BY <1>0, <1>7 DEF ProcsTyped, ControlOf, SourceFails, ModelFails, FailsWith, Goto, Flush
  <2>4. Bystanders(w)
    BY <1>0, <1>7 DEF Bystanders, ProcsTyped, SourceFails, ModelFails, FailsWith, Goto, Flush
  <2>. QED  BY <2>1, <2>2, <2>3, <2>4, BystandersSuffice DEF TypeOK
<1>8. CASE StageRaises(w)
  <2>1. RowsTyped'
    BY <1>0, <1>8 DEF RowsTyped, ProcsTyped, StageRaises, Goto
  <2>2. ProcsTyped'
    BY <1>0, <1>8 DEF RowsTyped, ProcsTyped, ControlOf, StageRaises, Goto
  <2>3. ControlOf(w)'
    BY <1>0, <1>8 DEF ProcsTyped, ControlOf, StageRaises, Goto
  <2>4. Bystanders(w)
    BY <1>0, <1>8 DEF Bystanders, ProcsTyped, StageRaises, Goto
  <2>. QED  BY <2>1, <2>2, <2>3, <2>4, BystandersSuffice DEF TypeOK
<1>9. CASE Found(w)
  <2>1. RowsTyped'
    BY <1>0, <1>9 DEF RowsTyped, ProcsTyped, Found, Goto, Flush
  <2>2. ProcsTyped'
    BY <1>0, <1>9 DEF RowsTyped, ProcsTyped, ControlOf, Found, Goto, Flush
  <2>3. ControlOf(w)'
    BY <1>0, <1>9 DEF ProcsTyped, ControlOf, Found, Goto, Flush
  <2>4. Bystanders(w)
    BY <1>0, <1>9 DEF Bystanders, ProcsTyped, Found, Goto, Flush
  <2>. QED  BY <2>1, <2>2, <2>3, <2>4, BystandersSuffice DEF TypeOK
<1>10. CASE FenceResult(w)
  <2>1. RowsTyped'
    BY <1>0, <1>10 DEF RowsTyped, ProcsTyped, FenceResult, Goto, LoseLease, BackToLoop
  <2>2. ProcsTyped'
    BY <1>0, <1>10 DEF RowsTyped, ProcsTyped, ControlOf, FenceResult, Goto, LoseLease, BackToLoop
  <2>3. ControlOf(w)'
    BY <1>0, <1>10 DEF ProcsTyped, ControlOf, FenceResult, Goto, LoseLease, BackToLoop
  <2>4. Bystanders(w)
    BY <1>0, <1>10 DEF Bystanders, ProcsTyped, FenceResult, Goto, LoseLease, BackToLoop
  <2>. QED  BY <2>1, <2>2, <2>3, <2>4, BystandersSuffice DEF TypeOK
<1>11. CASE Finish(w)
  <2>1. RowsTyped'
    BY <1>0, <1>11 DEF RowsTyped, ProcsTyped, Finish, Goto, Flush
  <2>2. ProcsTyped'
    BY <1>0, <1>11 DEF RowsTyped, ProcsTyped, ControlOf, Finish, Goto, Flush
  <2>3. ControlOf(w)'
    BY <1>0, <1>11 DEF ProcsTyped, ControlOf, Finish, Goto, Flush
  <2>4. Bystanders(w)
    BY <1>0, <1>11 DEF Bystanders, ProcsTyped, Finish, Goto, Flush
  <2>. QED  BY <2>1, <2>2, <2>3, <2>4, BystandersSuffice DEF TypeOK
<1>12. CASE FenceFinal(w)
  <2>1. RowsTyped'
    BY <1>0, <1>12 DEF RowsTyped, ProcsTyped, FenceFinal, Goto, LoseLease, BackToLoop
  <2>2. ProcsTyped'
    BY <1>0, <1>12 DEF RowsTyped, ProcsTyped, ControlOf, FenceFinal, Goto, LoseLease, BackToLoop
  <2>3. ControlOf(w)'
    BY <1>0, <1>12 DEF ProcsTyped, ControlOf, FenceFinal, Goto, LoseLease, BackToLoop
  <2>4. Bystanders(w)
    BY <1>0, <1>12 DEF Bystanders, ProcsTyped, FenceFinal, Goto, LoseLease, BackToLoop
  <2>. QED  BY <2>1, <2>2, <2>3, <2>4, BystandersSuffice DEF TypeOK
<1>13. CASE Release(w)
  <2>1. RowsTyped'
    BY <1>0, <1>13 DEF RowsTyped, ProcsTyped, Release, Goto, Flush, ReleaseLease, BackToLoop
  <2>2. ProcsTyped'
    BY <1>0, <1>13 DEF RowsTyped, ProcsTyped, ControlOf, Release, Goto, Flush, ReleaseLease, BackToLoop
  <2>3. ControlOf(w)'
    BY <1>0, <1>13 DEF ProcsTyped, ControlOf, Release, Goto, Flush, ReleaseLease, BackToLoop
  <2>4. Bystanders(w)
    BY <1>0, <1>13 DEF Bystanders, ProcsTyped, Release, Goto, Flush, ReleaseLease, BackToLoop
  <2>. QED  BY <2>1, <2>2, <2>3, <2>4, BystandersSuffice DEF TypeOK
<1>14. CASE ErrorRead(w)
  <2>1. RowsTyped'
    BY <1>0, <1>14 DEF RowsTyped, ProcsTyped, ErrorRead, Goto, RetriesLeft, BackToLoop
  <2>2. ProcsTyped'
    BY <1>0, <1>14 DEF RowsTyped, ProcsTyped, ControlOf, ErrorRead, Goto, RetriesLeft, BackToLoop
  <2>3. ControlOf(w)'
    BY <1>0, <1>14 DEF ProcsTyped, ControlOf, ErrorRead, Goto, RetriesLeft, BackToLoop
  <2>4. Bystanders(w)
    BY <1>0, <1>14 DEF Bystanders, ProcsTyped, ErrorRead, Goto, RetriesLeft, BackToLoop
  <2>. QED  BY <2>1, <2>2, <2>3, <2>4, BystandersSuffice DEF TypeOK
<1>15. CASE Requeue(w)
  <2>0. job[w] \in Runs /\ tries[w] + 1 \in 0 .. MaxLlmRetries
    BY <1>0, <1>15 DEF ProcsTyped, ControlOf, Requeue
  <2>1. RowsTyped'
    BY <1>0, <1>15, <2>0 DEF RowsTyped, ProcsTyped, Requeue, Goto, Flush, ReleaseLease, BackToLoop
  <2>2. ProcsTyped'
    BY <1>0, <1>15 DEF RowsTyped, ProcsTyped, ControlOf, Requeue, Goto, Flush, ReleaseLease, BackToLoop
  <2>3. ControlOf(w)'
    BY <1>0, <1>15 DEF ProcsTyped, ControlOf, Requeue, Goto, Flush, ReleaseLease, BackToLoop
  <2>4. Bystanders(w)
    BY <1>0, <1>15 DEF Bystanders, ProcsTyped, Requeue, Goto, Flush, ReleaseLease, BackToLoop
  <2>. QED  BY <2>1, <2>2, <2>3, <2>4, BystandersSuffice DEF TypeOK
<1>16. CASE FailJob(w)
  <2>1. RowsTyped'
    BY <1>0, <1>16 DEF RowsTyped, ProcsTyped, FailJob, Goto, Flush, ReleaseLease, BackToLoop
  <2>2. ProcsTyped'
    BY <1>0, <1>16 DEF RowsTyped, ProcsTyped, ControlOf, FailJob, Goto, Flush, ReleaseLease, BackToLoop
  <2>3. ControlOf(w)'
    BY <1>0, <1>16 DEF ProcsTyped, ControlOf, FailJob, Goto, Flush, ReleaseLease, BackToLoop
  <2>4. Bystanders(w)
    BY <1>0, <1>16 DEF Bystanders, ProcsTyped, FailJob, Goto, Flush, ReleaseLease, BackToLoop
  <2>. QED  BY <2>1, <2>2, <2>3, <2>4, BystandersSuffice DEF TypeOK
<1>17. CASE SweepRead(w)
  <2>1. RowsTyped'
    BY <1>0, <1>17 DEF RowsTyped, ProcsTyped, SweepRead, Goto
  <2>0. swept' \in [Workers -> SUBSET (Runs \X BOOLEAN)]
    <3> DEFINE hits == {r \in Runs : status[r] \in Processing /\ LeaseIsRecoverable(r, w)}
               marks == {<<r, owner[r] # NoOwner>> : r \in hits}
    <3>1. marks \in SUBSET (Runs \X BOOLEAN)
      <4>1. ASSUME NEW m \in marks PROVE m \in Runs \X BOOLEAN
        <5>1. PICK r \in Runs : m = <<r, owner[r] # NoOwner>>
          BY <4>1
        <5>2. (owner[r] # NoOwner) \in BOOLEAN
          OBVIOUS
        <5>. QED  BY <5>1, <5>2
      <4>. QED  BY <4>1
    <3>2. swept' = [swept EXCEPT ![w] = marks]
      BY <1>17 DEF SweepRead
    <3>3. swept \in [Workers -> SUBSET (Runs \X BOOLEAN)]
      BY <1>0 DEF ProcsTyped
    <3> HIDE DEF marks
    <3>. QED  BY <3>1, <3>2, <3>3
  <2>2. ProcsTyped'
    BY <1>0, <1>17, <2>0 DEF ProcsTyped, SweepRead, Goto
  <2>3. ControlOf(w)'
    BY <1>0, <1>17 DEF ProcsTyped, ControlOf, SweepRead, Goto
  <2>4. Bystanders(w)
    BY <1>0, <1>17 DEF Bystanders, ProcsTyped, SweepRead, Goto
  <2>. QED  BY <2>1, <2>2, <2>3, <2>4, BystandersSuffice DEF TypeOK
<1>18. CASE SweepWrite(w)
  <2>1. RowsTyped'
    BY <1>0, <1>18 DEF RowsTyped, ProcsTyped, SweepWrite, Goto
  <2>2. ProcsTyped'
    BY <1>0, <1>18 DEF RowsTyped, ProcsTyped, ControlOf, SweepWrite, Goto
  <2>3. ControlOf(w)'
    BY <1>0, <1>18 DEF ProcsTyped, ControlOf, SweepWrite, Goto
  <2>4. Bystanders(w)
    BY <1>0, <1>18 DEF Bystanders, ProcsTyped, SweepWrite, Goto
  <2>. QED  BY <2>1, <2>2, <2>3, <2>4, BystandersSuffice DEF TypeOK
<1>19. CASE HeartbeatRenews(w)
  <2>1. RowsTyped'
    BY <1>0, <1>19 DEF RowsTyped, ProcsTyped, HeartbeatRenews
  <2>2. ProcsTyped'
    BY <1>0, <1>19 DEF RowsTyped, ProcsTyped, ControlOf, HeartbeatRenews
  <2>3. ControlOf(w)'
    BY <1>0, <1>19 DEF ProcsTyped, ControlOf, HeartbeatRenews
  <2>4. Bystanders(w)
    BY <1>0, <1>19 DEF Bystanders, ProcsTyped, HeartbeatRenews
  <2>. QED  BY <2>1, <2>2, <2>3, <2>4, BystandersSuffice DEF TypeOK
<1>20. CASE Crash(w)
  <2>1. RowsTyped'
    BY <1>0, <1>20 DEF RowsTyped, ProcsTyped, Crash
  <2>2. ProcsTyped'
    BY <1>0, <1>20 DEF RowsTyped, ProcsTyped, ControlOf, Crash
  <2>3. ControlOf(w)'
    BY <1>0, <1>20 DEF ProcsTyped, ControlOf, Crash
  <2>4. Bystanders(w)
    BY <1>0, <1>20 DEF Bystanders, ProcsTyped, Crash
  <2>. QED  BY <2>1, <2>2, <2>3, <2>4, BystandersSuffice DEF TypeOK
<1>. QED
  BY <1>1, <1>2, <1>3, <1>4, <1>5, <1>6, <1>7, <1>8, <1>9, <1>10, <1>11, <1>12,
     <1>13, <1>14, <1>15, <1>16, <1>17, <1>18, <1>19, <1>20 DEF WorkerStep

LEMMA TypesKept ==
  ASSUME TypeInv, [Next]_vars PROVE TypeInv'
<1>1. CASE UNCHANGED vars
  BY <1>1 DEF vars, TypeInv, TypeOK, RowsTyped, ProcsTyped, ControlOK, ControlOf
<1>2. CASE Next
  BY <1>2, NextSplit, SystemKeepsTypes, WorkerKeepsTypes
<1>. QED  BY <1>1, <1>2

LEMMA TypeInvariant == Spec => []TypeInv
<1>1. Init => TypeInv
  BY BoundsAssumption, NamesAssumption
     DEF Init, TypeInv, TypeOK, RowsTyped, ProcsTyped, Positions, Stages, ControlOK,
         ControlOf, Statuses, Terminal, Settled, Processing, Runs, NoRun, AllGroups
<1>. QED  BY <1>1, TypesKept, PTL DEF Spec

\* Every variable has its type in every reachable state; in particular the count
\* of LLM outages of a run never passes MaxLlmRetries.
THEOREM TypeCorrect == Spec => []TypeOK
<1>1. TypeInv => TypeOK
  BY DEF TypeInv
<1>. QED  BY <1>1, TypeInvariant, PTL

----------------------------------------------------------------------------
(* The fencing tokens.                                                     *)

\* What a step may do to generations and tokens: a worker that keeps its job
\* keeps its token, and one that takes a job gets the generation it has just
\* created, larger than any token handed out before.
TokenStep ==
  /\ \A r \in Runs : gen'[r] >= gen[r]
  /\ \A v \in Workers :
       \/ job'[v] = NoRun
       \/ job'[v] = job[v] /\ token'[v] = token[v]
       \/ /\ job'[v] \in Runs
          /\ token'[v] = gen[job'[v]] + 1 /\ gen'[job'[v]] = gen[job'[v]] + 1
          /\ \A u \in Workers \ {v} : job'[u] = job[u] /\ token'[u] = token[u]

LEMMA StepsKeepTokens ==
  ASSUME TypeInv, Next PROVE TokenStep
<1>. USE DEF TypeInv, TypeOK, rows, lease, result, api, proc
<1>1. CASE SystemStep
  BY <1>1 DEF SystemStep, Enqueue, Archive, Restart, Resume, LeaseExpires, TokenStep,
              RowsTyped
<1>2. ASSUME NEW w \in Workers, WorkerStep(w) PROVE TokenStep
  <2>1. Bystanders(w)
    BY <1>2, WorkerKeepsTypes
  <2>2. CASE Claim(w)
    BY <2>1, <2>2 DEF Claim, GrantLease, Bystanders, TokenStep, RowsTyped, ProcsTyped
  <2>3. CASE ~Claim(w)
    <3>1. gen' = gen
      BY <1>2, <2>3 DEF WorkerStep, Load, StageWrite, StageReturns, StageCancelled,
         StageTolerates, SourceFails, ModelFails, FailsWith, StageRaises, Found, FenceResult, Finish,
         FenceFinal, Release, ReleaseLease, ErrorRead, Requeue, FailJob,
         SweepRead, SweepWrite, HeartbeatRenews, Crash
    <3>2. job'[w] = NoRun \/ (job'[w] = job[w] /\ token'[w] = token[w])
      <4>0. job \in [Workers -> Runs \cup {NoRun}]
        BY DEF ProcsTyped
      <4>1. CASE BackToLoop(w) \/ Crash(w)
        <5>1. job' = [job EXCEPT ![w] = NoRun]
          BY <4>1 DEF BackToLoop, Crash
        <5>. QED  BY <1>2, <4>0, <5>1
      <4>2. CASE ~BackToLoop(w) /\ ~Crash(w)
        BY <1>2, <2>3, <4>2 DEF WorkerStep, Load, StageWrite, StageReturns,
           StageCancelled, StageTolerates, SourceFails, ModelFails, FailsWith, StageRaises, Found,
           FenceResult, Finish, FenceFinal, Release, ErrorRead, Requeue, FailJob,
           SweepRead, SweepWrite, HeartbeatRenews, LoseLease
      <4>. QED  BY <4>1, <4>2
    <3>. QED  BY <2>1, <3>1, <3>2 DEF Bystanders, TokenStep, RowsTyped
  <2>. QED  BY <2>2, <2>3
<1>. QED  BY <1>1, <1>2, NextSplit

\* No two workers that believe they execute the same run hold the same
\* generation, and no token is newer than the row: a fencing check admits at
\* most one of them, however often leases lapse, revive and are taken over.
THEOREM TokensAreUnique == Spec => []TokensUnique
<1>1. Init => TokensUnique
  BY DEF Init, TokensUnique
<1>2. TypeInv /\ TokensUnique /\ [Next]_vars => TokensUnique'
  <2>1. CASE UNCHANGED vars
    BY <2>1 DEF vars, TokensUnique
  <2>2. ASSUME TypeInv, TypeInv', TokensUnique, TokenStep PROVE TokensUnique'
    <3> DEFINE Keeps(v) == job'[v] = job[v] /\ token'[v] = token[v]
               Takes(v) == /\ token'[v] = gen[job'[v]] + 1
                           /\ gen'[job'[v]] = gen[job'[v]] + 1
                           /\ \A u \in Workers \ {v} : Keeps(u)
    <3>1. \A r \in Runs : gen[r] \in Nat /\ gen'[r] \in Nat /\ gen[r] <= gen'[r]
      BY <2>2 DEF TypeInv, TypeOK, RowsTyped, TokenStep
    <3>2. \A v \in Workers : /\ token[v] \in Nat /\ token'[v] \in Nat
                             /\ job'[v] # NoRun => job'[v] \in Runs
                             /\ job'[v] # NoRun => Keeps(v) \/ Takes(v)
      BY <2>2 DEF TypeInv, TypeOK, ProcsTyped, TokenStep
    <3>3. /\ \A w \in Workers : job[w] # NoRun => token[w] <= gen[job[w]]
          /\ \A v, w \in Workers :
               v # w /\ job[v] # NoRun /\ job[v] = job[w] => token[v] # token[w]
      BY <2>2 DEF TokensUnique
    <3>4. ASSUME NEW w \in Workers, job'[w] # NoRun
          PROVE  token'[w] <= gen'[job'[w]]
      BY <3>1, <3>2, <3>3, <3>4
    <3>5. ASSUME NEW v \in Workers, NEW w \in Workers, v # w, job'[v] # NoRun,
                 job'[v] = job'[w]
          PROVE  token'[v] # token'[w]
      <4>1. job'[v] \in Runs /\ (Keeps(v) \/ Takes(v)) /\ (Keeps(w) \/ Takes(w))
        BY <3>2, <3>5
      <4>2. CASE Keeps(v) /\ Keeps(w)
        BY <3>3, <3>5, <4>2
      <4>3. CASE Takes(v)
        BY <3>1, <3>2, <3>3, <3>5, <4>1, <4>3
      <4>4. CASE Takes(w)
        BY <3>1, <3>2, <3>3, <3>5, <4>1, <4>4
      <4>. QED  BY <4>1, <4>2, <4>3, <4>4
    <3>. QED  BY <3>4, <3>5 DEF TokensUnique
  <2>. QED  BY <2>1, <2>2, StepsKeepTokens, TypesKept
<1>. QED  BY <1>1, <1>2, TypeInvariant, PTL DEF Spec

----------------------------------------------------------------------------
(* The lease columns.                                                      *)

\* What a step does to the lease of one run: nothing that shows, a renewal or
\* a lapse, a release, or a grant; and what it does to the status beside it.
ColumnStep(r) ==
  /\ \/ owner'[r] = owner[r] /\ exp'[r] = exp[r]
     \/ owner'[r] = owner[r] /\ exp[r] # "none" /\ exp'[r] # "none"
     \/ owner'[r] = NoOwner /\ exp'[r] = "none"
     \/ owner'[r] # NoOwner /\ exp'[r] # "none"
  /\ \/ status'[r] \notin {"absent", "queued"}
     \/ owner'[r] = NoOwner
     \/ status'[r] = status[r] /\ owner'[r] = owner[r]
     \/ status[r] = "absent" /\ owner'[r] = owner[r]

LEMMA SystemColumns ==
  ASSUME TypeInv, SystemStep, NEW r \in Runs PROVE ColumnStep(r)
<1>. USE DEF TypeInv, TypeOK, RowsTyped, ColumnStep, lease, result, api, proc
<1>1. ASSUME NEW g \in AllGroups, Enqueue(g) PROVE ColumnStep(r)
  BY <1>1 DEF Enqueue, IsNextId, Unused
<1>2. ASSUME NEW g \in Groups, Archive(g) PROVE ColumnStep(r)
  BY <1>2 DEF Archive
<1>3. ASSUME NEW s \in Runs, Restart(s) PROVE ColumnStep(r)
  BY <1>3 DEF Restart, IsNextId, Unused, Settled
<1>4. ASSUME NEW s \in Runs, Resume(s) PROVE ColumnStep(r)
  BY <1>4 DEF Resume
<1>5. ASSUME NEW s \in Runs, LeaseExpires(s) PROVE ColumnStep(r)
  BY <1>5 DEF LeaseExpires
<1>. QED  BY <1>1, <1>2, <1>3, <1>4, <1>5 DEF SystemStep

LEMMA WorkerColumns ==
  ASSUME TypeInv, NEW w \in Workers, WorkerStep(w), NEW r \in Runs PROVE ColumnStep(r)
<1>. USE NamesAssumption
         DEF TypeInv, TypeOK, RowsTyped, ProcsTyped, ColumnStep, rows, lease, result, api, proc
<1>0. /\ pc[w] \in {"write", "call", "found", "finish"} => stage[w] \in Processing
      /\ Identity(w) # NoOwner
      /\ "absent" \notin Processing /\ "queued" \notin Processing
  BY DEF ControlOK, ControlOf, Identity, Identities, Processing
<1>1. CASE Claim(w)
  BY <1>0, <1>1 DEF Claim, GrantLease
<1>2. CASE StageWrite(w)
  BY <1>0, <1>2 DEF StageWrite, Flush
<1>3. CASE SourceFails(w) \/ ModelFails(w) \/ Found(w) \/ Finish(w)
  BY <1>3 DEF SourceFails, ModelFails, FailsWith, Found, Finish, Flush
<1>4. CASE Release(w) \/ Requeue(w) \/ FailJob(w)
  BY <1>4 DEF Release, Requeue, FailJob, ReleaseLease, Flush
<1>5. CASE SweepWrite(w)
  BY <1>5 DEF SweepWrite
<1>6. CASE HeartbeatRenews(w)
  BY <1>6 DEF HeartbeatRenews
<1>7. CASE UNCHANGED rows
  BY <1>7
<1>8. \/ Claim(w) \/ StageWrite(w) \/ SourceFails(w) \/ ModelFails(w)
      \/ Found(w) \/ Finish(w)
      \/ Release(w) \/ Requeue(w) \/ FailJob(w) \/ SweepWrite(w)
      \/ HeartbeatRenews(w) \/ UNCHANGED rows
  BY DEF WorkerStep, Load, StageReturns, StageCancelled, StageTolerates, StageRaises,
         FenceResult, FenceFinal, ErrorRead, SweepRead, Crash
<1>. QED  BY <1>1, <1>2, <1>3, <1>4, <1>5, <1>6, <1>7, <1>8

\* The owner and the deadline of a lease appear and disappear together, and a
\* run that waits in the queue carries neither.
THEOREM LeaseColumnsAlwaysAgree == Spec => []LeaseColumnsAgree
<1>1. Init => LeaseColumnsAgree
  BY DEF Init, LeaseColumnsAgree
<1>2. TypeInv /\ LeaseColumnsAgree /\ [Next]_vars => LeaseColumnsAgree'
  <2>1. CASE UNCHANGED vars
    BY <2>1 DEF vars, LeaseColumnsAgree
  <2>2. ASSUME LeaseColumnsAgree, \A r \in Runs : ColumnStep(r) PROVE LeaseColumnsAgree'
    BY <2>2 DEF LeaseColumnsAgree, ColumnStep
  <2>. QED  BY <2>1, <2>2, NextSplit, SystemColumns, WorkerColumns
<1>. QED  BY <1>1, <1>2, TypeInvariant, PTL DEF Spec

----------------------------------------------------------------------------
(* The queue implements the register of fenced leases.                     *)

LEMMA RegisterStep ==
  ASSUME TypeInv, Next PROVE [Register!Next]_(Register!regVars)
<1>. USE NamesAssumption
         DEF TypeInv, TypeOK, RowsTyped, rows, lease, result, api, proc
<1>1. UNCHANGED lease => UNCHANGED Register!regVars
  BY DEF Register!regVars
<1>2. CASE SystemStep
  <2>1. ASSUME NEW r \in Runs, LeaseExpires(r) PROVE Register!Lapse(r)
    BY <2>1 DEF LeaseExpires, Register!Lapse
  <2>2. ASSUME ~\E r \in Runs : LeaseExpires(r) PROVE UNCHANGED lease
    BY <1>2, <2>2 DEF SystemStep, Enqueue, Archive, Restart, Resume
  <2>. QED  BY <1>1, <2>1, <2>2 DEF Register!Next
<1>3. ASSUME NEW w \in Workers, WorkerStep(w) PROVE [Register!Next]_(Register!regVars)
  <2>0. /\ Identity(w) \in Identities /\ Identity(w) # NoOwner
        /\ pc[w] \notin {"start", "idle", "sweep"} => job[w] \in Runs
    BY <1>3, Names DEF ProcsTyped, ControlOK, ControlOf, Identity, Identities
  <2>1. CASE Claim(w)
    <3>1. PICK r \in Runs : Claimable(r, w) /\ GrantLease(r, w)
      BY <2>1 DEF Claim
    <3>2. PICK h \in Identities : h = Identity(w)
      BY <2>0
    <3>3. Register!Grant(r, h)
      BY <3>1, <3>2 DEF Claimable, GrantLease, Register!Grant
    <3>. QED  BY <3>1, <3>2, <3>3 DEF Register!Next
  <2>2. CASE HeartbeatRenews(w)
    <3>1. PICK r \in Runs : r = job[w]
      BY <1>3, <2>2 DEF HeartbeatRenews, ProcsTyped
    <3>2. Register!Renew(r)
      BY <2>0, <2>2, <3>1 DEF HeartbeatRenews, HoldsLease, Register!Renew
    <3>. QED  BY <3>1, <3>2 DEF Register!Next
  <2>3. CASE Release(w) \/ Requeue(w) \/ FailJob(w)
    <3>1. PICK r \in Runs : r = job[w] /\ ReleaseLease(r)
      BY <2>0, <2>3 DEF Release, Requeue, FailJob, ReleaseLease
    <3>2. Register!Relieve({r})
      BY <3>1 DEF ReleaseLease, Register!Relieve
    <3>. QED  BY <3>1, <3>2 DEF Register!Next
  <2>4. CASE SweepWrite(w)
    <3>1. PICK freed \in SUBSET Runs : freed = {r \in Runs : <<r, TRUE>> \in swept[w]}
      OBVIOUS
    <3>2. Register!Relieve(freed)
      BY <2>4, <3>1 DEF SweepWrite, Register!Relieve
    <3>. QED  BY <3>1, <3>2 DEF Register!Next
  <2>5. CASE UNCHANGED lease
    BY <1>1, <2>5
  <2>6. \/ Claim(w) \/ HeartbeatRenews(w) \/ Release(w) \/ Requeue(w) \/ FailJob(w)
        \/ SweepWrite(w) \/ UNCHANGED lease
    BY <1>3 DEF WorkerStep, Load, StageWrite, StageReturns, StageCancelled,
       StageTolerates, SourceFails, ModelFails, FailsWith, StageRaises, Found, FenceResult, Finish,
       FenceFinal, ErrorRead, SweepRead, Crash
  <2>. QED  BY <2>1, <2>2, <2>3, <2>4, <2>5, <2>6
<1>. QED  BY <1>2, <1>3, NextSplit

\* The lease columns refine LeaseRegister: no grant takes over a foreign lease
\* that has not lapsed, and none reuses a generation.
THEOREM LeasesRefineRegister == Spec => ImplementsRegister
<1>1. Init => Register!Init
  BY DEF Init, Register!Init
<1>2. TypeInv /\ [Next]_vars => [Register!Next]_(Register!regVars)
  <2>1. CASE UNCHANGED vars
    BY <2>1 DEF vars, Register!regVars
  <2>. QED  BY <2>1, RegisterStep
<1>. QED  BY <1>1, <1>2, TypeInvariant, PTL DEF Spec, ImplementsRegister, Register!Spec

----------------------------------------------------------------------------
(* Cancellation.                                                           *)

LEMMA CancelledRests ==
  ASSUME TypeInv, [Next]_vars, NEW r \in Runs, status[r] = "cancelled", AtRest(r)
  PROVE  status'[r] = "cancelled"
<1>. USE DEF TypeInv, TypeOK, RowsTyped, rows, lease, result, api, proc
<1>1. CASE UNCHANGED vars
  BY <1>1 DEF vars
<1>2. CASE SystemStep
  BY <1>2 DEF SystemStep, Enqueue, Archive, Restart, Resume, CanResume, LeaseExpires,
              IsNextId, Unused, Settled
<1>3. ASSUME NEW w \in Workers, WorkerStep(w) PROVE status'[r] = "cancelled"
  <2>1. job[w] # r /\ \A leased \in BOOLEAN : <<r, leased>> \notin swept[w]
    BY <1>3 DEF AtRest
  <2>2. CASE Claim(w)
    BY <2>2 DEF Claim, Claimable
  <2>3. CASE SweepWrite(w)
    BY <2>1, <2>3 DEF SweepWrite
  <2>4. CASE ~Claim(w) /\ ~SweepWrite(w)
    BY <1>3, <2>1, <2>4 DEF WorkerStep, Load, StageWrite, StageReturns, StageCancelled,
       StageTolerates, SourceFails, ModelFails, FailsWith, StageRaises, Found, FenceResult, Finish, FenceFinal,
       Release, ErrorRead, Requeue, FailJob, SweepRead, HeartbeatRenews, Crash
  <2>. QED  BY <2>2, <2>3, <2>4
<1>. QED  BY <1>1, <1>2, <1>3, NextSplit

\* A cancelled run that no worker has in hand stays cancelled: the queue,
\* resume and restart never start it again.
THEOREM CancelledStaysAtRest == Spec => CancelledAtRestIsFinal
<1>1. TypeInv /\ [Next]_vars
        => [\A r \in Runs : status[r] = "cancelled" /\ AtRest(r)
                              => status'[r] = "cancelled"]_vars
  BY CancelledRests
<1>. QED  BY <1>1, TypeInvariant, PTL DEF Spec, CancelledAtRestIsFinal

-----------------------------------------------------------------------------
(* While heartbeats are on time, the lease excludes: one executor per run, *)
(* and every status it writes is written under its current lease, although *)
(* the writes themselves check nothing.  The proof is for any number of    *)
(* workers, runs and restarts, and for searches that are not resumed: two  *)
(* overlapping sweeps with a resume between them take a lease that is live. *)

Punctual == ~LateHeartbeats /\ MaxResumes = 0

\* An executor holds a live lease.
Held ==
  \A w \in Workers : job[w] # NoRun => HoldsLease(job[w], w) /\ exp[job[w]] = "live"

\* A run that a sweep has selected has no executor and cannot get one.
SweptIsAbandoned ==
  \A w \in Workers, r \in Runs, leased \in BOOLEAN :
    <<r, leased>> \in swept[w] =>
      /\ \A v \in Workers : job[v] # r
      /\ status[r] \in Processing \cup {"failed", "cancelled"}

ExclusionInv == Held /\ SweptIsAbandoned

LEMMA HeldExcludes ==
  ASSUME TypeInv, Held PROVE OneExecutor
  BY DEF Held, OneExecutor, HoldsLease, Identity

\* No step grants a resume.
LEMMA NoResume ==
  ASSUME Punctual, TypeInv, NEW r \in Runs PROVE ~Resume(r)
  BY DEF Punctual, TypeInv, TypeOK, RowsTyped, Resume

LEMMA SystemKeepsExclusion ==
  ASSUME Punctual, TypeInv, ExclusionInv, SystemStep PROVE ExclusionInv'
<1>. USE DEF TypeInv, TypeOK, RowsTyped, ProcsTyped, lease, result, api, proc
<1>1. UNCHANGED <<owner, gen, proc, epoch, swept>>
  BY DEF SystemStep, Enqueue, Archive, Restart, Resume, LeaseExpires
<1>2. Held'
  <2>1. ASSUME NEW w \in Workers, job[w] # NoRun PROVE exp'[job[w]] = "live"
    <3>1. KeptAlive(job[w]) /\ exp[job[w]] = "live"
      BY <2>1 DEF ExclusionInv, Held, KeptAlive
    <3>. QED
      BY <2>1, <3>1 DEF SystemStep, Enqueue, Archive, Restart, Resume, LeaseExpires, Punctual
  <2>. QED  BY <1>1, <2>1 DEF ExclusionInv, Held, HoldsLease, Identity
<1>3. SweptIsAbandoned'
  <2>1. ASSUME NEW r \in Runs, status[r] \in Processing \cup {"failed", "cancelled"}
        PROVE  status'[r] \in Processing \cup {"failed", "cancelled"}
    BY <2>1, NoResume DEF SystemStep, Enqueue, Archive, Restart, LeaseExpires, IsNextId,
       Unused, Settled, Processing
  <2>. QED  BY <1>1, <2>1 DEF ExclusionInv, SweptIsAbandoned
<1>. QED  BY <1>2, <1>3 DEF ExclusionInv

\* The steps of a worker that leave the lease columns and all jobs alone, but
\* for a job that is dropped.
Quiet(w) ==
  /\ UNCHANGED lease
  /\ \/ job' = job /\ token' = token /\ epoch' = epoch
     \/ job' = [job EXCEPT ![w] = NoRun]

LEMMA WorkerMoves ==
  ASSUME TypeInv, NEW w \in Workers, WorkerStep(w)
  PROVE  \/ Claim(w) \/ Release(w) \/ Requeue(w) \/ FailJob(w)
         \/ SweepRead(w) \/ SweepWrite(w) \/ HeartbeatRenews(w)
         \/ Quiet(w) /\ \A u \in Workers : swept'[u] \subseteq swept[u]
<1>. USE DEF TypeInv, TypeOK, ProcsTyped, rows, lease, result, api, proc
<1>1. CASE Crash(w)
  BY <1>1 DEF Crash, Quiet
<1>2. CASE \/ Load(w) \/ StageWrite(w) \/ StageReturns(w) \/ StageTolerates(w)
           \/ SourceFails(w) \/ ModelFails(w) \/ StageRaises(w) \/ Found(w) \/ Finish(w)
  BY <1>2 DEF Load, StageWrite, StageReturns, StageTolerates, SourceFails, ModelFails,
     FailsWith, StageRaises, Found, Finish, Quiet
<1>3. CASE StageCancelled(w) \/ FenceResult(w) \/ FenceFinal(w) \/ ErrorRead(w)
  BY <1>3 DEF StageCancelled, FenceResult, FenceFinal, ErrorRead, LoseLease, BackToLoop,
     Quiet
<1>. QED  BY <1>1, <1>2, <1>3 DEF WorkerStep

LEMMA WorkerKeepsHeld ==
  ASSUME Punctual, TypeInv, ExclusionInv, NEW w \in Workers, WorkerStep(w)
  PROVE  Held'
<1>. USE DEF TypeInv, TypeOK, RowsTyped, ProcsTyped, lease, result, api, proc
<1>1. /\ Bystanders(w)
      /\ \A u \in Workers \ {w} : epoch'[u] = epoch[u]
      /\ TypeInv'
  <2>1. epoch' = epoch \/ epoch' = [epoch EXCEPT ![w] = @ + 1]
    BY DEF WorkerStep, Claim, Load, StageWrite, StageReturns, StageCancelled,
       StageTolerates, SourceFails, ModelFails, FailsWith, StageRaises, Found, FenceResult,
       Finish, FenceFinal, Release, ErrorRead, Requeue, FailJob, SweepRead, SweepWrite,
       HeartbeatRenews, Crash
  <2>. QED  BY <2>1, WorkerKeepsTypes
<1>2. ASSUME NEW u \in Workers \ {w}, job[u] # NoRun
      PROVE  /\ owner'[job[u]] = owner[job[u]] /\ gen'[job[u]] = gen[job[u]]
             /\ exp'[job[u]] = exp[job[u]]
  <2>0. /\ HoldsLease(job[u], u) /\ exp[job[u]] = "live" /\ job[u] \in Runs
        /\ job[w] # job[u] /\ Identity(u) # Identity(w)
    BY <1>2, HeldExcludes DEF ExclusionInv, Held, OneExecutor, Identity
  <2>1. CASE Claim(w)
    BY <2>0, <2>1 DEF Claim, Claimable, GrantLease, HoldsLease
  <2>2. CASE Release(w) \/ Requeue(w) \/ FailJob(w)
    BY <2>0, <2>2 DEF Release, Requeue, FailJob, ReleaseLease
  <2>3. CASE SweepWrite(w)
    <3>1. <<job[u], TRUE>> \notin swept[w]
      BY <2>0, <1>2 DEF ExclusionInv, SweptIsAbandoned
    <3>. QED  BY <2>0, <2>3, <3>1 DEF SweepWrite
  <2>4. CASE HeartbeatRenews(w)
    BY <2>0, <2>4 DEF HeartbeatRenews
  <2>5. CASE SweepRead(w) \/ Quiet(w)
    BY <2>5 DEF SweepRead, Quiet, rows
  <2>. QED  BY <2>1, <2>2, <2>3, <2>4, <2>5, WorkerMoves
<1>3. ASSUME NEW u \in Workers \ {w}, job'[u] # NoRun
      PROVE  HoldsLease(job[u], u)' /\ exp'[job'[u]] = "live"
  BY <1>1, <1>2, <1>3 DEF Bystanders, ExclusionInv, Held, HoldsLease, Identity
<1>4. ASSUME job'[w] # NoRun
      PROVE  HoldsLease(job[w], w)' /\ exp'[job'[w]] = "live"
  <2>1. CASE Claim(w)
    BY <2>1 DEF Claim, GrantLease, HoldsLease, Identity
  <2>2. CASE Release(w) \/ Requeue(w) \/ FailJob(w)
    BY <1>4, <2>2 DEF Release, Requeue, FailJob, BackToLoop
  <2>3. CASE SweepRead(w) \/ Quiet(w)
    BY <1>4, <2>3 DEF SweepRead, Quiet, rows, ExclusionInv, Held, HoldsLease, Identity
  <2>4. CASE HeartbeatRenews(w)
    BY <1>4, <2>4 DEF HeartbeatRenews, ExclusionInv, Held
  <2>5. CASE SweepWrite(w)
    BY <1>4, <2>5 DEF SweepWrite, ControlOK, ControlOf
  <2>. QED  BY <2>1, <2>2, <2>3, <2>4, <2>5, WorkerMoves
<1>. QED  BY <1>3, <1>4 DEF Held

LEMMA WorkerKeepsSwept ==
  ASSUME Punctual, TypeInv, ExclusionInv, NEW w \in Workers, WorkerStep(w)
  PROVE  SweptIsAbandoned'
<1>. USE DEF TypeInv, TypeOK, RowsTyped, ProcsTyped, rows, lease, result, api, proc
<1> DEFINE Abandoned(r) == /\ \A v \in Workers : job[v] # r
                           /\ status[r] \in Processing \cup {"failed", "cancelled"}
<1>1. ASSUME NEW r \in Runs, Abandoned(r) PROVE Abandoned(r)'
  <2>0. status[r] \notin {"absent", "queued", "search_completed"}
    BY <1>1 DEF Processing
  <2>1. \A v \in Workers : job'[v] # r
    <3>1. CASE Claim(w)
      BY <1>1, <2>0, <3>1 DEF Claim, Claimable
    <3>2. CASE ~Claim(w)
      BY <1>1, <3>2, WorkerMoves, Names DEF Release, Requeue, FailJob, BackToLoop,
         SweepRead, SweepWrite, HeartbeatRenews, Quiet
    <3>. QED  BY <3>1, <3>2
  <2>2. status'[r] = status[r] \/ status'[r] = "failed"
    <3>1. CASE Claim(w)
      BY <1>1, <2>0, <3>1 DEF Claim, Claimable
    <3>2. CASE SweepWrite(w)
      BY <3>2 DEF SweepWrite
    <3>3. CASE ~Claim(w) /\ ~SweepWrite(w)
      BY <1>1, <3>3 DEF WorkerStep, Load, StageWrite, StageReturns, StageCancelled,
         StageTolerates, SourceFails, ModelFails, FailsWith, StageRaises, Found,
         FenceResult, Finish, FenceFinal, Release, ErrorRead, Requeue, FailJob,
         SweepRead, HeartbeatRenews, Crash
    <3>. QED  BY <3>1, <3>2, <3>3
  <2>. QED  BY <1>1, <2>1, <2>2
<1>2. ASSUME NEW u \in Workers, NEW r \in Runs, NEW leased \in BOOLEAN,
             <<r, leased>> \in swept'[u]
      PROVE  Abandoned(r)
  <2>1. CASE <<r, leased>> \in swept[u]
    BY <2>1 DEF ExclusionInv, SweptIsAbandoned
  <2>2. CASE <<r, leased>> \notin swept[u]
    <3>1. SweepRead(w) /\ u = w
      BY <1>2, <2>2, WorkerMoves DEF Claim, Release, Requeue, FailJob, SweepRead, SweepWrite,
         HeartbeatRenews
    <3>2. status[r] \in Processing /\ LeaseIsRecoverable(r, w)
      BY <1>2, <3>1 DEF SweepRead
    <3>3. job[w] = NoRun
      BY <3>1 DEF SweepRead, ControlOK, ControlOf
    <3>4. ASSUME NEW v \in Workers, job[v] = r PROVE FALSE
      <4>1. owner[r] = Identity(v) /\ exp[r] = "live"
        BY <3>4, Names DEF ExclusionInv, Held, HoldsLease
      <4>2. Identity(v) # NoOwner
        BY <3>4, NamesAssumption DEF Identity, Identities
      <4>3. Identity(v) = Identity(w)
        BY <3>2, <4>1, <4>2 DEF LeaseIsRecoverable
      <4>. QED  BY <3>3, <3>4, <4>3, Names DEF Identity
    <3>. QED  BY <3>2, <3>4
  <2>. QED  BY <2>1, <2>2
<1>. QED  BY <1>1, <1>2 DEF SweptIsAbandoned

LEMMA ExclusionInvariant ==
  ASSUME Punctual PROVE Spec => [](ExclusionInv /\ TypeInv)
<1>1. Init => ExclusionInv
  BY DEF Init, ExclusionInv, Held, SweptIsAbandoned
<1>2. TypeInv /\ ExclusionInv /\ [Next]_vars => ExclusionInv'
  <2>1. CASE UNCHANGED vars
    BY <2>1 DEF vars, ExclusionInv, Held, SweptIsAbandoned, HoldsLease, Identity
  <2>. QED
    BY <2>1, NextSplit, SystemKeepsExclusion, WorkerKeepsHeld, WorkerKeepsSwept
       DEF ExclusionInv
<1>. QED  BY <1>1, <1>2, TypeInvariant, PTL DEF Spec

\* With punctual heartbeats no two workers ever execute the same run.
THEOREM OneExecutorPerRun ==
  ASSUME Punctual PROVE Spec => []OneExecutor
<1>1. ExclusionInv /\ TypeInv => OneExecutor
  BY HeldExcludes DEF ExclusionInv
<1>. QED  BY <1>1, ExclusionInvariant, PTL

\* With punctual heartbeats every status that a worker writes for its job is
\* written while it holds the current lease of the run.
THEOREM StatusWrittenUnderLease ==
  ASSUME Punctual PROVE Spec => WritesUnderLease
<1>1. ExclusionInv => [\A w \in Workers :
           LET r == job[w] IN
           r # NoRun /\ pc'[w] # pc[w] /\ epoch'[w] = epoch[w] /\ status'[r] # status[r]
             => HoldsLease(r, w)]_vars
  BY DEF ExclusionInv, Held
<1>. QED  BY <1>1, ExclusionInvariant, PTL DEF WritesUnderLease
=============================================================================
