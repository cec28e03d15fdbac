------------------------ MODULE ExecutionJobsProofs ------------------------
(***************************************************************************)
(* Proofs about ExecutionJobs, for every number of jobs, monitors,         *)
(* executors and slots and every bound on the failures.                    *)
(***************************************************************************)
EXTENDS ExecutionJobs, TLAPS

\* A goroutine that holds a slot knows its job, and has no error to report
\* before ExecuteQueued returned.
SessionsSound ==
    \A s \in Sessions : /\ pc[s] # "idle" => at[s] \in Jobs
                        /\ pc[s] # "returned" => result[s] # "ERROR"

\* A job that is not recovery-safe and may still be claimed was never leased,
\* and one that a goroutine executes was.
AttemptsAccounted ==
    /\ \A j \in Jobs : Kind(j).recovery = "abort" =>
         /\ attempts[j] <= 1
         /\ status[j] \in {"NONE", "QUEUED"} => attempts[j] = 0
    /\ \A s \in Sessions : pc[s] \in Executing => attempts[at[s]] > 0

\* The inductive invariant.
IInv ==
    /\ TypeOK
    /\ SessionsSound
    /\ LeaseOwnerIffLeased
    /\ AttemptsAccounted
    /\ NonIdempotentNotReplayed
    /\ OneLeasePerMonitor
    /\ TerminalEffectsOnce

\* Goroutines belong to executors.
LEMMA WorkerOfType == \A s \in Sessions : WorkerOf(s) \in Workers
BY DEF Sessions, WorkerOf

\* The program starts in a state that satisfies the inductive invariant.
LEMMA InitIInv == Init => IInv
<1> SUFFICES ASSUME Init PROVE IInv
  OBVIOUS
<1> USE ConstantsAssumption DEF Init
<1>1. TypeOK
  BY DEF TypeOK, SessionPC, JobStatus, RunStatus
<1>2. SessionsSound /\ AttemptsAccounted
  BY DEF SessionsSound, AttemptsAccounted, Executing
<1>3. LeaseOwnerIffLeased /\ OneLeasePerMonitor
  BY DEF LeaseOwnerIffLeased, OneLeasePerMonitor
<1>4. NonIdempotentNotReplayed
  BY DEF NonIdempotentNotReplayed, Executes, Executing
<1>5. TerminalEffectsOnce
  BY DEF TerminalEffectsOnce
<1>6. QED
  BY <1>1, <1>2, <1>3, <1>4, <1>5 DEF IInv

-----------------------------------------------------------------------------
(* Types.                                                                  *)

\* A save of a run keeps the types of the run's row.
LEMMA SaveRunType ==
    ASSUME TypeOK, NEW j \in Jobs, NEW st \in RunStatus, SaveRun(j, st)
    PROVE  /\ runStatus' \in [Jobs -> RunStatus]
           /\ effects' \in [Jobs -> Seq(RunTerminal)]
BY DEF SaveRun, TypeOK

\* Every step of a job row keeps the types.
LEMMA JobStepType ==
    ASSUME TypeOK, NEW j \in Jobs, JobStep(j)
    PROVE  TypeOK'
<1> USE ConstantsAssumption DEF TypeOK, jobVars, runVars, sessionVars, JobStatus, JobTerminal
<1>1. CASE Enqueue(j)
  BY <1>1 DEF Enqueue, RunStatus
<1>2. CASE RequestCancel(j)
  BY <1>2 DEF RequestCancel, RunStatus, RunTerminal
<1>3. CASE BecomeAvailable(j)
  BY <1>3 DEF BecomeAvailable
<1>4. CASE Expire(j)
  BY <1>4 DEF Expire, Spend
<1>5. CASE ReclaimAbort(j)
  BY <1>5 DEF ReclaimAbort, Settle, RunStatus, RunTerminal
<1>6. CASE ReclaimReplay(j)
  BY <1>6 DEF ReclaimReplay, Settle
<1>7. QED
  BY <1>1, <1>2, <1>3, <1>4, <1>5, <1>6 DEF JobStep

\* Every claim keeps the types.
LEMMA ClaimStepType ==
    ASSUME TypeOK, NEW s \in Sessions, NEW j \in Jobs,
           Dispatch(s, j) \/ ClaimFails(s, j) \/ Claim(s, j)
    PROVE  TypeOK'
<1> USE ConstantsAssumption, WorkerOfType
    DEF TypeOK, jobVars, runVars, sessionVars, JobStatus, JobTerminal
<1>1. CASE Dispatch(s, j)
  BY <1>1 DEF Dispatch, Goto, SessionPC
<1>2. CASE ClaimFails(s, j)
  <2>1. budget' \in [{"crash", "stall", "db"} -> Nat]
    BY <1>2 DEF ClaimFails, Spend
  <2>2. CASE UNCHANGED jobVars
    BY <1>2, <2>1, <2>2 DEF ClaimFails, Free, SessionPC
  <2>3. CASE Lease(s, j)
    BY <1>2, <2>1, <2>3 DEF ClaimFails, Lease, Free, SessionPC
  <2>4. QED
    BY <1>2, <2>2, <2>3 DEF ClaimFails
<1>3. CASE ClaimUnavailable(s, j)
  BY <1>3 DEF ClaimUnavailable, Free, SessionPC
<1>4. CASE ClaimSkip(s, j)
  BY <1>4 DEF ClaimSkip, Free, SessionPC, RunStatus
<1>5. CASE ClaimDefer(s, j)
  BY <1>5 DEF ClaimDefer, Free, SessionPC
<1>6. CASE ClaimReady(s, j)
  BY <1>6 DEF ClaimReady, Lease, Goto, SessionPC, Executing
<1>7. QED
  BY <1>1, <1>2, <1>3, <1>4, <1>5, <1>6 DEF Claim

\* Every step of an execution keeps the types: only terminal statuses and
\* RUNNING are saved.
LEMMA ExecutionStepType ==
    ASSUME TypeOK, SessionsSound, NEW s \in Sessions,
           \/ StartFails(s) \/ SaveStarted(s) \/ ResolutionFails(s) \/ SetupFails(s)
           \/ Resolved(s) \/ StepDone(s) \/ SaveStep(s) \/ SaveLastStep(s) \/ SaveResult(s) \/ SaveFails(s)
           \/ \E res \in {"SUCCESS", "FAILED", "CANCELLED"} : EndLoop(s, res)
    PROVE  TypeOK'
<1> DEFINE RunRows == /\ runStatus' \in [Jobs -> RunStatus]
                      /\ effects' \in [Jobs -> Seq(RunTerminal)]
<1> USE DEF TypeOK, jobVars, runVars, sessionVars
<1>1. pc[s] # "idle" => at[s] \in Jobs
  BY DEF SessionsSound
<1>2. "RUNNING" \in RunStatus /\ "FAILED" \in RunStatus
  BY DEF RunStatus, RunTerminal
<1>3. pc[s] # "returned" => result[s] \in RunStatus
  BY DEF SessionsSound, RunStatus
<1>4. CASE StartFails(s)
  BY <1>4 DEF StartFails, Return, SessionPC, Executing
<1>5. CASE SaveStarted(s)
  <2>1. RunRows
    BY <1>1, <1>2, <1>5, SaveRunType DEF SaveStarted, Goto
  <2>2. QED
    BY <1>5, <2>1 DEF SaveStarted, Goto, SessionPC, Executing
<1>6. CASE ResolutionFails(s)
  BY <1>6 DEF ResolutionFails, Goto, SessionPC, Executing, RunTerminal
<1>7. CASE SetupFails(s)
  <2>1. RunRows
    BY <1>1, <1>2, <1>7, SaveRunType DEF SetupFails, Goto
  <2>2. QED
    BY <1>7, <2>1 DEF SetupFails, Goto, SessionPC, Executing, RunTerminal
<1>8. CASE Resolved(s)
  <2>1. RunRows
    BY <1>1, <1>2, <1>8, SaveRunType DEF Resolved, Goto
  <2>2. QED
    BY <1>8, <2>1 DEF Resolved, Goto, SessionPC, Executing
<1>9. CASE SaveStep(s)
  <2>1. RunRows
    BY <1>1, <1>2, <1>9, SaveRunType DEF SaveStep, Goto
  <2>2. QED
    BY <1>9, <2>1 DEF SaveStep, Goto, SessionPC, Executing
<1>10. CASE SaveResult(s)
  <2>1. RunRows
    BY <1>1, <1>3, <1>10, SaveRunType DEF SaveResult
  <2>2. QED
    BY <1>10, <2>1 DEF SaveResult, Return, SessionPC, Executing
<1>11. CASE SaveFails(s)
  <2>1. RunRows
    BY <1>1, <1>3, <1>11, SaveRunType DEF SaveFails
  <2>2. QED
    BY <1>11, <2>1 DEF SaveFails, Return, Spend, SessionPC, Executing
<1>12. CASE \E res \in {"SUCCESS", "FAILED", "CANCELLED"} : EndLoop(s, res)
  BY <1>12 DEF EndLoop, Goto, SessionPC, Executing, RunTerminal
<1>13. CASE StepDone(s)
  BY <1>13 DEF StepDone, Goto, SessionPC, Executing
<1>14. CASE SaveLastStep(s)
  <2>1. RunRows
    BY <1>1, <1>2, <1>14, SaveRunType DEF SaveLastStep, Goto
  <2>2. QED
    BY <1>14, <2>1 DEF SaveLastStep, Goto, SessionPC, Executing, RunTerminal
<1>15. QED
  BY <1>4, <1>5, <1>6, <1>7, <1>8, <1>9, <1>10, <1>11, <1>12, <1>13, <1>14

\* A tick of the watcher and the completion of a job keep the types.
LEMMA CompletionStepType ==
    ASSUME TypeOK, SessionsSound, NEW s \in Sessions,
           WatchTick(s) \/ Complete(s) \/ CompleteFails(s)
    PROVE  TypeOK'
<1> USE ConstantsAssumption DEF TypeOK, jobVars, runVars, sessionVars
<1>1. CASE WatchTick(s)
  BY <1>1 DEF WatchTick
<1>2. CASE Complete(s)
  <2>1. Outcome(s) \in JobStatus /\ "ABORTED" \in RunStatus
    BY DEF Outcome, JobStatus, JobTerminal, RunStatus, RunTerminal
  <2>2. runStatus' \in [Jobs -> RunStatus]
    BY <1>2, <2>1 DEF Complete
  <2>3. CASE owner[at[s]] = WorkerOf(s)
    <3>1. Settle(at[s], Outcome(s)) /\ UNCHANGED available
      BY <1>2, <2>3 DEF Complete
    <3>2. /\ status' \in [Jobs -> JobStatus]
          /\ owner' \in [Jobs -> Workers \cup {NoWorker}]
          /\ lease' \in [Jobs -> {"none", "current", "expired"}]
          /\ UNCHANGED <<payload, attempts, cancel, available>>
      BY <2>1, <3>1 DEF Settle
    <3>3. QED
      BY <1>2, <2>2, <3>2 DEF Complete, Free, SessionPC
  <2>4. CASE owner[at[s]] # WorkerOf(s)
    BY <1>2, <2>2, <2>4 DEF Complete, Free, SessionPC
  <2>5. QED
    BY <2>3, <2>4
<1>3. CASE CompleteFails(s)
  BY <1>3 DEF CompleteFails, Free, Spend, SessionPC
<1>4. QED
  BY <1>1, <1>2, <1>3

\* Crashes, shutdowns and restarts keep the types.
LEMMA WorkerStepType ==
    ASSUME TypeOK, NEW w \in Workers, WorkerStep(w)
    PROVE  TypeOK'
<1> USE ConstantsAssumption DEF TypeOK, jobVars, runVars, sessionVars
<1>1. CASE Crash(w)
  BY <1>1 DEF Crash, Spend, DropSessions, SessionPC
<1>2. CASE Shutdown(w)
  BY <1>2 DEF Shutdown, Spend
<1>3. CASE Exit(w)
  BY <1>3 DEF Exit, DropSessions, SessionPC
<1>4. QED
  BY <1>1, <1>2, <1>3 DEF WorkerStep

\* Every step keeps the types.
LEMMA TypeStep ==
    ASSUME TypeOK, SessionsSound, [Next]_vars
    PROVE  TypeOK'
<1>1. CASE UNCHANGED vars
  BY <1>1 DEF TypeOK, vars, jobVars, runVars, sessionVars
<1>2. CASE Next
  BY <1>2, JobStepType, ClaimStepType, ExecutionStepType, CompletionStepType, WorkerStepType
  DEF Next, SessionStep, Advance
<1>3. QED
  BY <1>1, <1>2

-----------------------------------------------------------------------------
(* The other conjuncts of the inductive invariant.                         *)

\* What every goroutine of the step's kind keeps of the others.
LEMMA SessionsSoundStep ==
    ASSUME TypeOK, SessionsSound, Next
    PROVE  SessionsSound'
<1> USE DEF TypeOK, SessionsSound, jobVars, runVars, sessionVars
<1>1. ASSUME NEW j \in Jobs, JobStep(j) PROVE SessionsSound'
  BY <1>1 DEF JobStep, Enqueue, RequestCancel, BecomeAvailable, Expire, ReclaimAbort, ReclaimReplay
<1>2. ASSUME NEW s \in Sessions, NEW j \in Jobs,
             Dispatch(s, j) \/ ClaimFails(s, j) \/ Claim(s, j)
      PROVE  SessionsSound'
  BY <1>2 DEF Dispatch, ClaimFails, Claim, ClaimUnavailable, ClaimSkip, ClaimDefer, ClaimReady,
              Goto, Free
<1>3. ASSUME NEW s \in Sessions,
             \/ SaveStarted(s) \/ ResolutionFails(s) \/ SetupFails(s) \/ Resolved(s)
             \/ StepDone(s) \/ SaveStep(s) \/ SaveLastStep(s)
             \/ \E res \in {"SUCCESS", "FAILED", "CANCELLED"} : EndLoop(s, res)
      PROVE  SessionsSound'
  BY <1>3 DEF SaveStarted, ResolutionFails, SetupFails, Resolved, StepDone, SaveStep, SaveLastStep,
     EndLoop, Goto
<1>4. ASSUME NEW s \in Sessions, StartFails(s) \/ SaveResult(s) \/ SaveFails(s)
      PROVE  SessionsSound'
  BY <1>4 DEF StartFails, SaveResult, SaveFails, Return
<1>5. ASSUME NEW s \in Sessions, WatchTick(s) \/ Complete(s) \/ CompleteFails(s)
      PROVE  SessionsSound'
  BY <1>5 DEF WatchTick, Complete, CompleteFails, Free
<1>6. ASSUME NEW w \in Workers, WorkerStep(w) PROVE SessionsSound'
  BY <1>6 DEF WorkerStep, Crash, Shutdown, Exit, DropSessions
<1>7. QED
  BY <1>1, <1>2, <1>3, <1>4, <1>5, <1>6 DEF Next, SessionStep, Advance

\* A job that is settled gives its lease back.
LEMMA SettleLease ==
    ASSUME TypeOK, LeaseOwnerIffLeased, NEW j \in Jobs, NEW outcome, outcome # "LEASED",
           Settle(j, outcome)
    PROVE  LeaseOwnerIffLeased'
BY DEF TypeOK, LeaseOwnerIffLeased, Settle

\* The lease columns change together: claim sets them, complete and the
\* reclaimer clear them, the watcher and time only move the expiry.
LEMMA LeaseStep ==
    ASSUME TypeOK, SessionsSound, LeaseOwnerIffLeased, Next
    PROVE  LeaseOwnerIffLeased'
<1> USE ConstantsAssumption, WorkerOfType DEF TypeOK, LeaseOwnerIffLeased
<1>1. ASSUME NEW j \in Jobs, JobStep(j) PROVE LeaseOwnerIffLeased'
  <2>1. CASE Enqueue(j) \/ RequestCancel(j) \/ BecomeAvailable(j)
    BY <2>1 DEF Enqueue, RequestCancel, BecomeAvailable
  <2>2. CASE Expire(j)
    BY <2>2 DEF Expire
  <2>3. CASE ReclaimAbort(j) \/ ReclaimReplay(j)
    BY <2>3, SettleLease DEF ReclaimAbort, ReclaimReplay
  <2>4. QED
    BY <1>1, <2>1, <2>2, <2>3 DEF JobStep
<1>2. ASSUME NEW s \in Sessions, NEW j \in Jobs,
             Dispatch(s, j) \/ ClaimFails(s, j) \/ Claim(s, j)
      PROVE  LeaseOwnerIffLeased'
  <2>1. CASE Lease(s, j)
    BY <2>1 DEF Lease
  <2>2. CASE UNCHANGED jobVars
    BY <2>2 DEF jobVars
  <2>3. CASE ClaimSkip(s, j)
    BY <2>3 DEF ClaimSkip, Claimable
  <2>4. CASE ClaimDefer(s, j)
    BY <2>4 DEF ClaimDefer
  <2>5. QED
    BY <1>2, <2>1, <2>2, <2>3, <2>4
    DEF Dispatch, ClaimFails, Claim, ClaimUnavailable, ClaimReady
<1>3. ASSUME NEW s \in Sessions, WatchTick(s) PROVE LeaseOwnerIffLeased'
  BY <1>3 DEF WatchTick, HoldsLease
<1>4. ASSUME NEW s \in Sessions, Complete(s) PROVE LeaseOwnerIffLeased'
  <2>1. CASE UNCHANGED jobVars
    BY <2>1 DEF jobVars
  <2>2. CASE Settle(at[s], Outcome(s))
    BY <1>4, <2>2, SettleLease DEF Complete, SessionsSound, Outcome
  <2>3. QED
    BY <1>4, <2>1, <2>2 DEF Complete
<1>5. CASE UNCHANGED jobVars
  BY <1>5 DEF jobVars
<1>6. QED
  BY <1>1, <1>2, <1>3, <1>4, <1>5
  DEF Next, SessionStep, Advance, WorkerStep, StartFails, SaveStarted, ResolutionFails, SetupFails,
      Resolved, EndLoop, SaveResult, StepDone, SaveStep, SaveLastStep, SaveFails, CompleteFails, Crash, Shutdown, Exit

-----------------------------------------------------------------------------
(* The queue implements LeasedQueue.  The step lemma also serves the       *)
(* invariants: what they need of the job rows holds of every abstract      *)
(* step.                                                                   *)

\* A step of the job row's status alone is an abstract move.
LEMMA AbstractMove ==
    ASSUME NEW j \in Jobs, NEW from, NEW to, status[j] = from,
           status' = [status EXCEPT ![j] = to], UNCHANGED payload
    PROVE  Abstract!Move(j, from, to)
BY DEF Abstract!Move

\* A lease is an abstract start.
LEMMA LeaseBegins ==
    ASSUME NEW s \in Sessions, NEW j \in Jobs, Lease(s, j)
    PROVE  Abstract!Begin(j)
<1>1. Abstract!Move(j, "QUEUED", "LEASED")
  BY AbstractMove DEF Lease, Claimable
<1>2. ForbidsOverlap([i \in Jobs |-> payload[i].kind][j]) => ~Abstract!GroupActive(j)
  BY DEF Lease, Overlaps, ActiveOnMonitor, ForbidsOverlap, Kind, Abstract!GroupActive
<1>3. QED
  BY <1>1, <1>2 DEF Lease, Abstract!Begin

\* Every step of the queue is an abstract step of one job, or leaves what the
\* abstract queue sees alone.
LEMMA AbstractStep ==
    ASSUME TypeOK, SessionsSound, LeaseOwnerIffLeased, Next
    PROVE  (\E j \in Jobs : \/ Abstract!Submit(j) \/ Abstract!Begin(j) \/ Abstract!Finish(j)
                            \/ Abstract!Withdraw(j) \/ Abstract!Drop(j) \/ Abstract!Replay(j))
           \/ UNCHANGED <<status, payload, attempts>>
<1> DEFINE Seen == UNCHANGED <<status, payload, attempts>>
<1>1. ASSUME NEW j \in Jobs, Enqueue(j) PROVE Abstract!Submit(j)
  BY <1>1, AbstractMove DEF Enqueue, Abstract!Submit
<1>2. ASSUME NEW j \in Jobs, RequestCancel(j) PROVE Abstract!Withdraw(j) \/ Seen
  <2>1. CASE status[j] = "QUEUED"
    BY <1>2, <2>1, AbstractMove DEF RequestCancel, Abstract!Withdraw
  <2>2. CASE status[j] # "QUEUED"
    BY <1>2, <2>2 DEF RequestCancel, TypeOK
  <2>3. QED
    BY <2>1, <2>2
<1>3. ASSUME NEW j \in Jobs, ReclaimAbort(j) PROVE Abstract!Finish(j)
  <2>1. Abstract!Move(j, "LEASED", "FAILED")
    BY <1>3, AbstractMove DEF ReclaimAbort, Reclaimable, Settle
  <2>2. QED
    BY <1>3, <2>1 DEF ReclaimAbort, Settle, Abstract!Finish, Abstract!Outcomes
<1>4. ASSUME NEW j \in Jobs, ReclaimReplay(j) PROVE Abstract!Replay(j)
  <2>1. Abstract!Move(j, "LEASED", "QUEUED")
    BY <1>4, AbstractMove DEF ReclaimReplay, Reclaimable, Settle
  <2>2. QED
    BY <1>4, <2>1 DEF ReclaimReplay, Settle, Abstract!Replay, RecoverySafe, Kind
<1>5. ASSUME NEW s \in Sessions, NEW j \in Jobs, ClaimSkip(s, j) PROVE Abstract!Drop(j)
  <2>1. Abstract!Move(j, "QUEUED", "SUCCEEDED")
    BY <1>5, AbstractMove DEF ClaimSkip, Claimable
  <2>2. Abstract!GroupActive(j)
    BY <1>5 DEF ClaimSkip, Overlaps, ActiveOnMonitor, Abstract!GroupActive
  <2>3. QED
    BY <1>5, <2>1, <2>2
    DEF ClaimSkip, Overlaps, Abstract!Drop, ForbidsOverlap, SkipsOverlap, Kind
<1>6. ASSUME NEW s \in Sessions, NEW j \in Jobs, ClaimFails(s, j) \/ ClaimReady(s, j)
      PROVE  Abstract!Begin(j) \/ Seen
  BY <1>6, LeaseBegins DEF ClaimFails, ClaimReady, jobVars
<1>7. ASSUME NEW s \in Sessions, Complete(s) PROVE Abstract!Finish(at[s]) \/ Seen
  <2>1. CASE owner[at[s]] = WorkerOf(s)
    <3>1. Settle(at[s], Outcome(s))
      BY <1>7, <2>1 DEF Complete
    <3>2. at[s] \in Jobs
      BY <1>7 DEF Complete, SessionsSound
    <3>3. status[at[s]] = "LEASED"
      BY <2>1, <3>2, WorkerOfType, ConstantsAssumption DEF LeaseOwnerIffLeased
    <3>4. Abstract!Move(at[s], "LEASED", Outcome(s))
      BY <3>1, <3>2, <3>3, AbstractMove DEF Settle
    <3>5. QED
      BY <3>1, <3>4 DEF Settle, Outcome, Abstract!Finish, Abstract!Outcomes
  <2>2. CASE owner[at[s]] # WorkerOf(s)
    BY <1>7, <2>2 DEF Complete, jobVars
  <2>3. QED
    BY <2>1, <2>2
<1>8. ASSUME NEW s \in Sessions, Complete(s) PROVE at[s] \in Jobs
  BY <1>8 DEF Complete, SessionsSound
<1>9. ASSUME NEW j \in Jobs, BecomeAvailable(j) \/ Expire(j) PROVE Seen
  BY <1>9 DEF BecomeAvailable, Expire
<1>10. ASSUME NEW s \in Sessions, NEW j \in Jobs,
              Dispatch(s, j) \/ ClaimUnavailable(s, j) \/ ClaimDefer(s, j)
       PROVE  Seen
  BY <1>10 DEF Dispatch, ClaimUnavailable, ClaimDefer, jobVars
<1>11. ASSUME NEW s \in Sessions,
              \/ StartFails(s) \/ SaveStarted(s) \/ ResolutionFails(s) \/ SetupFails(s)
              \/ Resolved(s) \/ StepDone(s) \/ SaveStep(s) \/ SaveLastStep(s) \/ SaveResult(s) \/ SaveFails(s)
              \/ WatchTick(s) \/ CompleteFails(s)
              \/ \E res \in {"SUCCESS", "FAILED", "CANCELLED"} : EndLoop(s, res)
       PROVE  Seen
  BY <1>11 DEF StartFails, SaveStarted, ResolutionFails, SetupFails, Resolved, StepDone, SaveStep,
     SaveLastStep,
               SaveResult, SaveFails, WatchTick, CompleteFails, EndLoop, jobVars
<1>12. ASSUME NEW w \in Workers, WorkerStep(w) PROVE Seen
  BY <1>12 DEF WorkerStep, Crash, Shutdown, Exit, jobVars
<1>13. QED
  BY <1>1, <1>2, <1>3, <1>4, <1>5, <1>6, <1>7, <1>8, <1>9, <1>10, <1>11, <1>12
  DEF Next, JobStep, SessionStep, Advance, Claim

\* A payload is never rewritten.
LEMMA PayloadFixed == ASSUME Next PROVE UNCHANGED payload
<1> USE DEF jobVars
<1>1. ASSUME NEW j \in Jobs, JobStep(j) PROVE UNCHANGED payload
  BY <1>1 DEF JobStep, Enqueue, RequestCancel, BecomeAvailable, Expire, ReclaimAbort,
              ReclaimReplay, Settle
<1>2. ASSUME NEW s \in Sessions, NEW j \in Jobs,
             Dispatch(s, j) \/ ClaimFails(s, j) \/ Claim(s, j)
      PROVE  UNCHANGED payload
  BY <1>2 DEF Dispatch, ClaimFails, Claim, ClaimUnavailable, ClaimSkip, ClaimDefer, ClaimReady, Lease
<1>3. ASSUME NEW s \in Sessions, WatchTick(s) \/ Complete(s) PROVE UNCHANGED payload
  BY <1>3 DEF WatchTick, Complete, Settle
<1>4. QED
  BY <1>1, <1>2, <1>3
  DEF Next, SessionStep, Advance, WorkerStep, StartFails, SaveStarted, ResolutionFails, SetupFails,
      Resolved, EndLoop, SaveResult, StepDone, SaveStep, SaveLastStep, SaveFails, CompleteFails, Crash, Shutdown, Exit

\* A job that is not replayable and may still start has never started.
LEMMA StartedOnceStep ==
    ASSUME TypeOK, SessionsSound, LeaseOwnerIffLeased, AttemptsAccounted, Next,
           NEW j \in Jobs, Kind(j).recovery = "abort"
    PROVE  /\ attempts'[j] <= 1
           /\ status'[j] \in {"NONE", "QUEUED"} => attempts'[j] = 0
<1> USE DEF TypeOK, AttemptsAccounted, Abstract!Move
<1>1. CASE UNCHANGED <<status, payload, attempts>>
  BY <1>1
<1>2. ASSUME NEW i \in Jobs,
             Abstract!Submit(i) \/ Abstract!Finish(i) \/ Abstract!Withdraw(i) \/ Abstract!Drop(i)
      PROVE  /\ attempts'[j] = attempts[j]
             /\ status'[j] \in {"NONE", "QUEUED"} => status[j] \in {"NONE", "QUEUED"}
  BY <1>2 DEF Abstract!Submit, Abstract!Finish, Abstract!Withdraw, Abstract!Drop, Abstract!Outcomes
<1>3. ASSUME NEW i \in Jobs, Abstract!Begin(i)
      PROVE  /\ attempts'[j] <= 1
             /\ status'[j] \in {"NONE", "QUEUED"} => attempts'[j] = 0
  BY <1>3 DEF Abstract!Begin
<1>4. ASSUME NEW i \in Jobs, Abstract!Replay(i)
      PROVE  attempts'[j] = attempts[j] /\ status'[j] = status[j]
  BY <1>4 DEF Abstract!Replay, RecoverySafe, Kind
<1>5. QED
  BY <1>1, <1>2, <1>3, <1>4, AbstractStep

\* Jobs of one monitor that forbid overlap do not start beside each other.
LEMMA OneLeaseStep ==
    ASSUME TypeOK, SessionsSound, LeaseOwnerIffLeased, OneLeasePerMonitor, Next
    PROVE  OneLeasePerMonitor'
<1> USE DEF TypeOK, OneLeasePerMonitor, Abstract!Move, Kind
<1>1. UNCHANGED payload
  BY PayloadFixed
<1>2. CASE UNCHANGED <<status, payload, attempts>>
  BY <1>2
<1>3. ASSUME NEW i \in Jobs,
             \/ Abstract!Submit(i) \/ Abstract!Finish(i) \/ Abstract!Withdraw(i)
             \/ Abstract!Drop(i) \/ Abstract!Replay(i)
      PROVE  OneLeasePerMonitor'
  <2>1. \A k \in Jobs : status'[k] = "LEASED" => status[k] = "LEASED"
    BY <1>3 DEF Abstract!Submit, Abstract!Finish, Abstract!Withdraw, Abstract!Drop,
                Abstract!Replay, Abstract!Outcomes
  <2>2. QED
    BY <1>1, <2>1
<1>4. ASSUME NEW i \in Jobs, Abstract!Begin(i) PROVE OneLeasePerMonitor'
  BY <1>1, <1>4 DEF Abstract!Begin, Abstract!GroupActive, ForbidsOverlap
<1>5. QED
  BY <1>2, <1>3, <1>4, AbstractStep

-----------------------------------------------------------------------------
(* Executions.                                                             *)

\* Only a successful claim starts an execution.
LEMMA ExecutionsStart ==
    ASSUME TypeOK, SessionsSound, Next
    PROVE  \/ \A t \in Sessions : pc'[t] \in Executing => pc[t] \in Executing /\ at'[t] = at[t]
           \/ \E s \in Sessions, j \in Jobs : ClaimReady(s, j)
<1> DEFINE NoStart == \A t \in Sessions : pc'[t] \in Executing => pc[t] \in Executing /\ at'[t] = at[t]
<1> USE DEF TypeOK, sessionVars, Executing
<1>1. ASSUME NEW j \in Jobs, JobStep(j) PROVE NoStart
  BY <1>1 DEF JobStep, Enqueue, RequestCancel, BecomeAvailable, Expire, ReclaimAbort, ReclaimReplay
<1>2. ASSUME NEW s \in Sessions, NEW j \in Jobs,
             \/ Dispatch(s, j) \/ ClaimFails(s, j) \/ ClaimUnavailable(s, j)
             \/ ClaimSkip(s, j) \/ ClaimDefer(s, j)
      PROVE  NoStart
  BY <1>2 DEF Dispatch, ClaimFails, ClaimUnavailable, ClaimSkip, ClaimDefer, Goto, Free
<1>3. ASSUME NEW s \in Sessions,
             \/ SaveStarted(s) \/ ResolutionFails(s) \/ SetupFails(s) \/ Resolved(s)
             \/ StepDone(s) \/ SaveStep(s) \/ SaveLastStep(s)
             \/ \E res \in {"SUCCESS", "FAILED", "CANCELLED"} : EndLoop(s, res)
      PROVE  NoStart
  BY <1>3 DEF SaveStarted, ResolutionFails, SetupFails, Resolved, StepDone, SaveStep, SaveLastStep,
     EndLoop, Goto
<1>4. ASSUME NEW s \in Sessions, StartFails(s) \/ SaveResult(s) \/ SaveFails(s)
      PROVE  NoStart
  BY <1>4 DEF StartFails, SaveResult, SaveFails, Return
<1>5. ASSUME NEW s \in Sessions, WatchTick(s) \/ Complete(s) \/ CompleteFails(s)
      PROVE  NoStart
  BY <1>5 DEF WatchTick, Complete, CompleteFails, Free
<1>6. ASSUME NEW w \in Workers, WorkerStep(w) PROVE NoStart
  BY <1>6 DEF WorkerStep, Crash, Shutdown, Exit, DropSessions
<1>7. QED
  BY <1>1, <1>2, <1>3, <1>4, <1>5, <1>6 DEF Next, SessionStep, Advance, Claim

\* attempt_count never decreases.
LEMMA AttemptsGrow ==
    ASSUME TypeOK, SessionsSound, LeaseOwnerIffLeased, Next, NEW j \in Jobs
    PROVE  attempts'[j] >= attempts[j]
<1>1. ASSUME NEW i \in Jobs, Abstract!Begin(i) PROVE attempts'[j] >= attempts[j]
  BY <1>1 DEF TypeOK, Abstract!Begin
<1>2. ASSUME NEW i \in Jobs,
             \/ Abstract!Submit(i) \/ Abstract!Finish(i) \/ Abstract!Withdraw(i)
             \/ Abstract!Drop(i) \/ Abstract!Replay(i)
      PROVE  UNCHANGED attempts
  BY <1>2 DEF Abstract!Submit, Abstract!Finish, Abstract!Withdraw, Abstract!Drop, Abstract!Replay
<1>3. QED
  BY <1>1, <1>2, AbstractStep DEF TypeOK

\* The attempts of every job account for its executions.
LEMMA AttemptsStep ==
    ASSUME IInv, Next
    PROVE  AttemptsAccounted'
<1> USE DEF IInv
<1>1. ASSUME NEW j \in Jobs, Kind(j)'.recovery = "abort"
      PROVE  /\ attempts'[j] <= 1
             /\ status'[j] \in {"NONE", "QUEUED"} => attempts'[j] = 0
  <2>1. Kind(j).recovery = "abort"
    BY <1>1, PayloadFixed DEF Kind
  <2>2. QED
    BY <2>1, StartedOnceStep
<1>2. ASSUME NEW t \in Sessions, pc'[t] \in Executing PROVE attempts'[at'[t]] > 0
  <2>1. CASE pc[t] \in Executing /\ at'[t] = at[t]
    <3>1. at[t] \in Jobs /\ attempts[at[t]] > 0
      BY <2>1 DEF SessionsSound, AttemptsAccounted, Executing
    <3>2. attempts'[at[t]] >= attempts[at[t]]
      BY <3>1, AttemptsGrow
    <3>3. attempts[at[t]] \in Nat /\ attempts'[at[t]] \in Nat
      BY <3>1, TypeStep DEF TypeOK
    <3>4. QED
      BY <2>1, <3>1, <3>2, <3>3
  <2>2. ASSUME NEW s \in Sessions, NEW j \in Jobs, ClaimReady(s, j) PROVE attempts'[at'[t]] > 0
    <3>1. CASE t = s
      BY <2>2, <3>1 DEF ClaimReady, Claiming, Lease, TypeOK
    <3>2. CASE t # s
      <4>1. pc[t] \in Executing /\ at'[t] = at[t]
        BY <1>2, <2>2, <3>2 DEF ClaimReady, Goto, TypeOK
      <4>2. QED
        BY <2>1, <4>1
    <3>3. QED
      BY <3>1, <3>2
  <2>3. QED
    BY <1>2, <2>1, <2>2, ExecutionsStart
<1>3. QED
  BY <1>1, <1>2 DEF AttemptsAccounted

\* A job that is not recovery-safe has one execution.
LEMMA NotReplayedStep ==
    ASSUME IInv, Next
    PROVE  NonIdempotentNotReplayed'
<1> USE DEF IInv, Executes
<1>1. SUFFICES ASSUME NEW j \in Jobs, Kind(j).recovery = "abort",
                      NEW s \in Sessions, NEW t \in Sessions, Executes(s, j)', Executes(t, j)'
               PROVE  s = t
  <2>1. ASSUME NEW j \in Jobs, Kind(j)'.recovery = "abort"
        PROVE  Kind(j).recovery = "abort" /\ attempts'[j] <= 1
    BY <2>1, PayloadFixed, StartedOnceStep DEF Kind
  <2>2. QED
    BY <2>1 DEF NonIdempotentNotReplayed
<1>2. CASE \A u \in Sessions : pc'[u] \in Executing => pc[u] \in Executing /\ at'[u] = at[u]
  BY <1>1, <1>2 DEF NonIdempotentNotReplayed
<1>3. ASSUME NEW c \in Sessions, NEW i \in Jobs, ClaimReady(c, i) PROVE s = t
  <2>1. \A u \in Sessions \ {c} : pc'[u] = pc[u] /\ at'[u] = at[u]
    BY <1>3 DEF ClaimReady, Goto, TypeOK
  <2>2. at'[c] = i
    BY <1>3 DEF ClaimReady, Claiming
  <2>3. CASE i = j
    <3>1. attempts[j] = 0
      BY <1>1, <1>3, <2>3 DEF ClaimReady, Lease, Claimable, AttemptsAccounted
    <3>2. \A u \in Sessions : ~Executes(u, j)
      BY <3>1 DEF AttemptsAccounted
    <3>3. QED
      BY <1>1, <2>1, <3>2
  <2>4. CASE i # j
    BY <1>1, <2>1, <2>2, <2>4 DEF NonIdempotentNotReplayed
  <2>5. QED
    BY <2>3, <2>4
<1>4. QED
  BY <1>2, <1>3, ExecutionsStart

\* A run's effects are only recorded where there are none.
LEMMA EffectsStep ==
    ASSUME TypeOK, TerminalEffectsOnce, Next
    PROVE  TerminalEffectsOnce'
<1> USE DEF TypeOK, TerminalEffectsOnce
<1>1. ASSUME NEW j, NEW st, SaveRun(j, st) PROVE TerminalEffectsOnce'
  BY <1>1 DEF SaveRun
<1>2. CASE UNCHANGED effects
  BY <1>2
<1>3. QED
  BY <1>1, <1>2
  DEF Next, JobStep, Enqueue, RequestCancel, BecomeAvailable, Expire, ReclaimAbort, ReclaimReplay,
      SessionStep, Dispatch, ClaimFails, Advance, Claim, ClaimUnavailable, ClaimSkip, ClaimDefer,
      ClaimReady, StartFails, SaveStarted, ResolutionFails, SetupFails, Resolved, EndLoop,
      SaveResult, StepDone, SaveStep, SaveLastStep, SaveFails, WatchTick, Complete, CompleteFails,
      WorkerStep, Crash, Shutdown, Exit, runVars

-----------------------------------------------------------------------------
(* The theorems.                                                           *)

\* Every step keeps the inductive invariant.
LEMMA IInvStep == IInv /\ [Next]_vars => IInv'
<1> SUFFICES ASSUME IInv, [Next]_vars PROVE IInv'
  OBVIOUS
<1>1. CASE Next
  BY <1>1, TypeStep, SessionsSoundStep, LeaseStep, AttemptsStep, NotReplayedStep, OneLeaseStep,
     EffectsStep
  DEF IInv
<1>2. CASE UNCHANGED vars
  BY <1>2 DEF vars, jobVars, runVars, sessionVars, IInv, TypeOK, SessionsSound,
     LeaseOwnerIffLeased, AttemptsAccounted, NonIdempotentNotReplayed, OneLeasePerMonitor,
     TerminalEffectsOnce, Executes, Kind
<1>3. QED
  BY <1>1, <1>2

\* The inductive invariant holds throughout.
THEOREM Invariance == Spec => []IInv
<1>1. Init => IInv
  BY InitIInv
<1>2. IInv /\ [Next]_vars => IInv'
  BY IInvStep
<1>3. QED
  BY <1>1, <1>2, PTL DEF Spec

\* Rows and goroutines keep their types: no save writes the in-memory error
\* marker into a run's status.
THEOREM TypeCorrect == Spec => []TypeOK
BY Invariance, PTL DEF IInv

\* The lease columns of a job agree with its status.
THEOREM LeaseColumnsAgree == Spec => []LeaseOwnerIffLeased
BY Invariance, PTL DEF IInv

\* A job that is not recovery-safe is claimed at most once and has at most one
\* goroutine executing it, with any number of executors, crashes, stalls and
\* database errors.
THEOREM NeverReplayed == Spec => []NonIdempotentNotReplayed
BY Invariance, PTL DEF IInv

\* Two jobs of one monitor whose policy forbids overlap never hold leases
\* together.
THEOREM Exclusive == Spec => []OneLeasePerMonitor
BY Invariance, PTL DEF IInv

\* Alert evaluation, rollup and health are computed at most once for a run.
THEOREM EffectsOnce == Spec => []TerminalEffectsOnce
BY Invariance, PTL DEF IInv

\* The queue of job rows implements the abstract queue LeasedQueue.
THEOREM Refinement == Spec => ImplementsLeasedQueue
<1>1. Init => Abstract!Init
  BY DEF Init, Abstract!Init
<1>2. IInv /\ [Next]_vars => [Abstract!Next]_Abstract!vars
  <2> SUFFICES ASSUME IInv, [Next]_vars PROVE [Abstract!Next]_Abstract!vars
    OBVIOUS
  <2>1. CASE UNCHANGED <<status, payload, attempts>>
    BY <2>1 DEF Abstract!vars
  <2>2. CASE Next
    BY <2>1, <2>2, AbstractStep DEF IInv, Abstract!Next
  <2>3. CASE UNCHANGED vars
    BY <2>1, <2>3 DEF vars, jobVars
  <2>4. QED
    BY <2>2, <2>3
<1>3. QED
  BY <1>1, <1>2, Invariance, PTL DEF Spec, ImplementsLeasedQueue, Abstract!Spec

-----------------------------------------------------------------------------
(* What alerts were told of a run is what its row says.                    *)

\* The status in memory: RUNNING until the loop is left, terminal when it is
\* about to be saved.
ResultsSound ==
    \A s \in Sessions :
        /\ pc[s] \notin {"failing", "finishing", "returned"} => result[s] = "RUNNING"
        /\ pc[s] \in {"failing", "finishing"} => result[s] \in RunTerminal

\* Once alerts were told of a run that is not replayed, nothing is left to be
\* done that could save another status: its job was claimed, and its only
\* goroutine is at most about to save the same status again.
Final(j) ==
    (Kind(j).recovery = "abort" /\ effects[j] # <<>>) =>
        /\ status[j] \notin {"NONE", "QUEUED"}
        /\ runStatus[j] \in RunTerminal
        /\ effects[j] = <<runStatus[j]>>
        /\ \A s \in Sessions : Executes(s, j) =>
             \/ pc[s] = "returned"
             \/ pc[s] = "finishing" /\ result[s] = runStatus[j]

EffectsFinal == \A j \in Jobs : Final(j)

\* The inductive invariant behind EffectMatchesRun.
EInv == IInv /\ ResultsSound /\ EffectsFinal

\* The status in memory is set where the loop is left, and reset with the slot.
LEMMA ResultsSoundStep ==
    ASSUME TypeOK, ResultsSound, Next
    PROVE  ResultsSound'
<1> USE DEF TypeOK, ResultsSound, jobVars, runVars, sessionVars, RunTerminal
<1>1. ASSUME NEW j \in Jobs, JobStep(j) PROVE ResultsSound'
  BY <1>1 DEF JobStep, Enqueue, RequestCancel, BecomeAvailable, Expire, ReclaimAbort, ReclaimReplay
<1>2. ASSUME NEW s \in Sessions, NEW j \in Jobs,
             Dispatch(s, j) \/ ClaimFails(s, j) \/ Claim(s, j)
      PROVE  ResultsSound'
  <2>1. CASE Free(s)
    BY <2>1 DEF Free
  <2>2. CASE Dispatch(s, j)
    BY <2>2 DEF Dispatch, Goto
  <2>3. CASE ClaimReady(s, j)
    BY <2>3 DEF ClaimReady, Goto
  <2>4. QED
    BY <1>2, <2>1, <2>2, <2>3 DEF ClaimFails, Claim, ClaimUnavailable, ClaimSkip, ClaimDefer
<1>3. ASSUME NEW s \in Sessions,
             \/ SaveStarted(s) \/ ResolutionFails(s) \/ SetupFails(s) \/ Resolved(s)
             \/ StepDone(s) \/ SaveStep(s) \/ SaveLastStep(s)
             \/ \E res \in {"SUCCESS", "FAILED", "CANCELLED"} : EndLoop(s, res)
      PROVE  ResultsSound'
  BY <1>3 DEF SaveStarted, ResolutionFails, SetupFails, Resolved, StepDone, SaveStep, SaveLastStep,
     EndLoop, Goto
<1>4. ASSUME NEW s \in Sessions, StartFails(s) \/ SaveResult(s) \/ SaveFails(s)
      PROVE  ResultsSound'
  <2>1. PICK res : Return(s, res)
    BY <1>4 DEF StartFails, SaveResult, SaveFails
  <2>2. QED
    BY <2>1 DEF Return
<1>5. ASSUME NEW s \in Sessions, WatchTick(s) \/ Complete(s) \/ CompleteFails(s)
      PROVE  ResultsSound'
  BY <1>5 DEF WatchTick, Complete, CompleteFails, Free
<1>6. ASSUME NEW w \in Workers, WorkerStep(w) PROVE ResultsSound'
  BY <1>6 DEF WorkerStep, Crash, Shutdown, Exit, DropSessions
<1>7. QED
  BY <1>1, <1>2, <1>3, <1>4, <1>5, <1>6 DEF Next, SessionStep, Advance

\* A save by the only goroutine of a job that alerts were not told of.
LEMMA SaveFinal ==
    ASSUME IInv, EffectsFinal, NEW s \in Sessions, pc[s] \in Executing \ {"returned"}, at[s] \in Jobs,
           NEW st \in RunStatus,
           SaveRun(at[s], st) \/ UNCHANGED runVars,
           UNCHANGED <<payload, status, at>>,
           pc' = [pc EXCEPT ![s] = pc'[s]], result' = [result EXCEPT ![s] = result'[s]],
           pc[s] = "finishing" => pc'[s] = "returned" /\ st = result[s],
           st \in RunTerminal => pc'[s] = "returned" \/ (pc'[s] = "finishing" /\ result'[s] = st)
    PROVE  EffectsFinal'
<1> DEFINE i == at[s]
<1>1. SUFFICES ASSUME NEW j \in Jobs, Kind(j).recovery = "abort", effects'[j] # <<>>
               PROVE  Final(j)'
  BY DEF EffectsFinal, Final, Kind
<1>2. status[i] \notin {"NONE", "QUEUED"} \/ Kind(i).recovery # "abort"
  BY DEF IInv, AttemptsAccounted, TypeOK
<1>3. CASE j # i
  <2>1. effects'[j] = effects[j] /\ runStatus'[j] = runStatus[j]
    BY <1>1, <1>3 DEF SaveRun, runVars, IInv, TypeOK
  <2>2. \A t \in Sessions : Executes(t, j)' => t # s /\ Executes(t, j) /\ pc'[t] = pc[t] /\ result'[t] = result[t]
    BY <1>1, <1>3 DEF Executes, IInv, TypeOK
  <2>3. QED
    BY <1>1, <2>1, <2>2 DEF EffectsFinal, Final, Kind, Executes
<1>4. CASE j = i
  <2>1. \A t \in Sessions : Executes(t, j)' => t = s
    <3>1. ASSUME NEW t \in Sessions, Executes(t, j)', t # s PROVE FALSE
      <4>1. Executes(t, j)
        BY <3>1 DEF Executes, IInv, TypeOK
      <4>2. Executes(s, j)
        BY <1>4 DEF Executes
      <4>3. QED
        BY <1>1, <3>1, <4>1, <4>2 DEF IInv, NonIdempotentNotReplayed
    <3>2. QED
      BY <3>1
  <2>2. CASE effects[j] # <<>>
    <3>1. Executes(s, j)
      BY <1>4 DEF Executes
    <3>2. /\ runStatus[j] \in RunTerminal
          /\ effects[j] = <<runStatus[j]>>
          /\ pc[s] = "returned" \/ (pc[s] = "finishing" /\ result[s] = runStatus[j])
      BY <1>1, <2>2, <3>1 DEF EffectsFinal, Final
    <3>3. pc'[s] = "returned"
      BY <3>2
    <3>4. effects'[j] = effects[j]
      BY <1>4, <2>2 DEF SaveRun, runVars, IInv, TypeOK
    <3>5. CASE UNCHANGED runVars
      BY <1>1, <1>2, <1>4, <2>1, <3>2, <3>3, <3>5 DEF Final, Kind, runVars
    <3>6. CASE SaveRun(at[s], st) /\ pc[s] = "finishing"
      <4>1. runStatus'[j] = runStatus[j]
        BY <1>4, <3>2, <3>6 DEF SaveRun, IInv, TypeOK
      <4>2. QED
        BY <1>1, <1>2, <1>4, <2>1, <3>2, <3>3, <3>4, <4>1 DEF Final, Kind
    <3>7. QED
      BY <3>2, <3>5, <3>6
  <2>3. CASE effects[j] = <<>>
    <3>1. SaveRun(i, st)
      BY <1>1, <2>3 DEF runVars
    <3>2. st \in RunTerminal /\ runStatus'[j] = st /\ effects'[j] = <<st>>
      BY <1>1, <1>4, <2>3, <3>1 DEF SaveRun, IInv, TypeOK
    <3>3. QED
      BY <1>1, <1>2, <1>4, <2>1, <3>2 DEF Final, Kind
  <2>4. QED
    BY <2>2, <2>3
<1>5. QED
  BY <1>3, <1>4

\* A step that saves nothing and starts nothing keeps what alerts were told.
LEMMA QuietFinal ==
    ASSUME TypeOK, EffectsFinal, NEW j \in Jobs, UNCHANGED <<payload, effects>>,
           runStatus[j] \in RunTerminal => runStatus'[j] = runStatus[j],
           status[j] \notin {"NONE", "QUEUED"} => status'[j] \notin {"NONE", "QUEUED"} \/ Kind(j).recovery # "abort",
           \A s \in Sessions : Executes(s, j)' =>
               (Executes(s, j) /\ UNCHANGED <<pc[s], result[s]>>) \/ effects[j] = <<>>
    PROVE  Final(j)'
BY DEF EffectsFinal, Final, Executes, Kind, TypeOK

\* Nothing that follows the terminal processing of a run changes its status.
LEMMA EffectsFinalStep ==
    ASSUME IInv, ResultsSound, EffectsFinal, Next
    PROVE  EffectsFinal'
<1> USE DEF IInv, jobVars, runVars, sessionVars
<1>1. ASSUME NEW i \in Jobs, JobStep(i) PROVE EffectsFinal'
  <2> SUFFICES ASSUME NEW j \in Jobs PROVE Final(j)'
    BY DEF EffectsFinal
  <2>1. UNCHANGED <<payload, effects, pc, at, result>>
    BY <1>1 DEF JobStep, Enqueue, RequestCancel, BecomeAvailable, Expire, ReclaimAbort, ReclaimReplay, Settle
  <2>2. \A s \in Sessions : Executes(s, j)' => Executes(s, j) /\ UNCHANGED <<pc[s], result[s]>>
    BY <2>1 DEF Executes
  <2>3. CASE Enqueue(i)
    <3>1. i = j => effects[j] = <<>> \/ Kind(j).recovery # "abort"
      BY <2>3 DEF Enqueue, EffectsFinal, Final
    <3>2. i # j => UNCHANGED <<status[j], runStatus[j]>>
      BY <2>3 DEF Enqueue, TypeOK
    <3>3. CASE i = j
      BY <2>1, <3>1, <3>3 DEF Final, Kind
    <3>4. CASE i # j
      BY <2>1, <2>2, <3>2, <3>4, QuietFinal
    <3>5. QED
      BY <3>3, <3>4
  <2>4. CASE RequestCancel(i) \/ BecomeAvailable(i) \/ Expire(i) \/ ReclaimAbort(i) \/ ReclaimReplay(i)
    <3>1. runStatus[j] \in RunTerminal => runStatus'[j] = runStatus[j]
      BY <2>4 DEF RequestCancel, BecomeAvailable, Expire, ReclaimAbort, ReclaimReplay, RunTerminal, TypeOK
    <3>2. status[j] \notin {"NONE", "QUEUED"} => status'[j] \notin {"NONE", "QUEUED"} \/ Kind(j).recovery # "abort"
      BY <2>4 DEF RequestCancel, BecomeAvailable, Expire, ReclaimAbort, ReclaimReplay, Settle, TypeOK
    <3>3. QED
      BY <2>1, <2>2, <3>1, <3>2, QuietFinal
  <2>5. QED
    BY <1>1, <2>3, <2>4 DEF JobStep
<1>2. ASSUME NEW c \in Sessions, NEW i \in Jobs, Dispatch(c, i) \/ ClaimFails(c, i) \/ Claim(c, i)
      PROVE  EffectsFinal'
  <2> SUFFICES ASSUME NEW j \in Jobs PROVE Final(j)'
    BY DEF EffectsFinal
  <2>1. UNCHANGED <<payload, effects>>
    BY <1>2 DEF Dispatch, ClaimFails, Claim, ClaimUnavailable, ClaimSkip, ClaimDefer, ClaimReady, Lease
  <2>2. runStatus[j] \in RunTerminal => runStatus'[j] = runStatus[j]
    BY <1>2 DEF Dispatch, ClaimFails, Claim, ClaimUnavailable, ClaimSkip, ClaimDefer, ClaimReady,
       RunTerminal, TypeOK
  <2>3. status[j] \notin {"NONE", "QUEUED"} => status'[j] \notin {"NONE", "QUEUED"}
    BY <1>2 DEF Dispatch, ClaimFails, Claim, ClaimUnavailable, ClaimSkip, ClaimDefer, ClaimReady,
       Lease, TypeOK
  <2>4. ASSUME NEW s \in Sessions, Executes(s, j)', Kind(j).recovery = "abort"
        PROVE  (Executes(s, j) /\ UNCHANGED <<pc[s], result[s]>>) \/ effects[j] = <<>>
    <3>1. CASE Free(c)
      BY <2>4, <3>1 DEF Free, Executes, Executing, TypeOK
    <3>2. CASE Dispatch(c, i)
      BY <2>4, <3>2 DEF Dispatch, Goto, Executes, Executing, TypeOK
    <3>3. CASE ClaimReady(c, i)
      <4>1. status[i] = "QUEUED"
        BY <3>3 DEF ClaimReady, Lease, Claimable
      <4>2. i = j => effects[j] = <<>>
        BY <2>4, <4>1 DEF EffectsFinal, Final
      <4>3. CASE s = c
        BY <2>4, <3>3, <4>2, <4>3 DEF ClaimReady, Claiming, Executes, TypeOK
      <4>4. CASE s # c
        BY <2>4, <3>3, <4>4 DEF ClaimReady, Goto, Executes, TypeOK
      <4>5. QED
        BY <4>3, <4>4
    <3>4. QED
      BY <1>2, <3>1, <3>2, <3>3 DEF ClaimFails, Claim, ClaimUnavailable, ClaimSkip, ClaimDefer
  <2>5. CASE Kind(j).recovery = "abort"
    BY <2>1, <2>2, <2>3, <2>4, <2>5, QuietFinal
  <2>6. CASE Kind(j).recovery # "abort"
    BY <2>1, <2>6 DEF Final, Kind
  <2>7. QED
    BY <2>5, <2>6
<1>3. ASSUME NEW s \in Sessions, WatchTick(s) \/ Complete(s) \/ CompleteFails(s)
      PROVE  EffectsFinal'
  <2> SUFFICES ASSUME NEW j \in Jobs PROVE Final(j)'
    BY DEF EffectsFinal
  <2>1. UNCHANGED <<payload, effects>>
    BY <1>3 DEF WatchTick, Complete, CompleteFails, Settle
  <2>2. runStatus[j] \in RunTerminal => runStatus'[j] = runStatus[j]
    BY <1>3 DEF WatchTick, Complete, CompleteFails, TypeOK
  <2>3. status[j] \notin {"NONE", "QUEUED"} => status'[j] \notin {"NONE", "QUEUED"}
    BY <1>3 DEF WatchTick, Complete, CompleteFails, Settle, Outcome, TypeOK
  <2>4. \A t \in Sessions : Executes(t, j)' => Executes(t, j) /\ UNCHANGED <<pc[t], result[t]>>
    BY <1>3 DEF WatchTick, Complete, CompleteFails, Free, Executes, Executing, TypeOK
  <2>5. QED
    BY <2>1, <2>2, <2>3, <2>4, QuietFinal
<1>4. ASSUME NEW w \in Workers, WorkerStep(w) PROVE EffectsFinal'
  <2> SUFFICES ASSUME NEW j \in Jobs PROVE Final(j)'
    BY DEF EffectsFinal
  <2>1. UNCHANGED <<payload, effects, status, runStatus>>
    BY <1>4 DEF WorkerStep, Crash, Shutdown, Exit
  <2>2. \A t \in Sessions : Executes(t, j)' => Executes(t, j) /\ UNCHANGED <<pc[t], result[t]>>
    BY <1>4 DEF WorkerStep, Crash, Shutdown, Exit, DropSessions, Executes, Executing, TypeOK
  <2>3. QED
    BY <2>1, <2>2, QuietFinal
<1>5. ASSUME NEW s \in Sessions,
             \/ StartFails(s) \/ SaveStarted(s) \/ ResolutionFails(s) \/ SetupFails(s)
             \/ Resolved(s) \/ StepDone(s) \/ SaveStep(s) \/ SaveLastStep(s) \/ SaveResult(s) \/ SaveFails(s)
             \/ \E res \in {"SUCCESS", "FAILED", "CANCELLED"} : EndLoop(s, res)
      PROVE  EffectsFinal'
  <2> DEFINE Saving(st) ==
        /\ SaveRun(at[s], st) \/ UNCHANGED runVars
        /\ UNCHANGED <<payload, status, at>>
        /\ pc' = [pc EXCEPT ![s] = pc'[s]] /\ result' = [result EXCEPT ![s] = result'[s]]
        /\ pc[s] = "finishing" => pc'[s] = "returned" /\ st = result[s]
        /\ st \in RunTerminal => pc'[s] = "returned" \/ (pc'[s] = "finishing" /\ result'[s] = st)
  <2>1. pc[s] \in Executing \ {"returned"}
    BY <1>5 DEF StartFails, SaveStarted, ResolutionFails, SetupFails, Resolved, StepDone, SaveStep,
                SaveLastStep, SaveResult, SaveFails, EndLoop, Goto, Executing
  <2>2. at[s] \in Jobs
    BY <2>1 DEF SessionsSound, Executing
  <2>3. result[s] \in RunStatus /\ "RUNNING" \in RunStatus /\ "FAILED" \in RunStatus
    BY <2>1 DEF ResultsSound, RunStatus, RunTerminal
  <2> USE DEF TypeOK
  <2>4. CASE StartFails(s)
    <3>1. Saving("RUNNING")
      BY <2>4 DEF StartFails, Return, RunTerminal
    <3>2. QED
      BY <2>1, <2>2, <2>3, <3>1, SaveFinal
  <2>5. CASE \/ SaveStarted(s) \/ ResolutionFails(s) \/ Resolved(s) \/ StepDone(s) \/ SaveStep(s)
             \/ SaveLastStep(s) \/ \E res \in {"SUCCESS", "FAILED", "CANCELLED"} : EndLoop(s, res)
    <3>1. Saving("RUNNING")
      BY <2>5 DEF SaveStarted, ResolutionFails, Resolved, StepDone, SaveStep, SaveLastStep, EndLoop,
                  Goto, RunTerminal
    <3>2. QED
      BY <2>1, <2>2, <2>3, <3>1, SaveFinal
  <2>6. CASE SetupFails(s)
    <3>1. Saving("FAILED")
      BY <2>6 DEF SetupFails, Goto, RunTerminal
    <3>2. QED
      BY <2>1, <2>2, <2>3, <3>1, SaveFinal
  <2>7. CASE SaveResult(s) \/ SaveFails(s)
    <3>1. PICK res : Return(s, res)
      BY <2>7 DEF SaveResult, SaveFails
    <3>2. PICK st \in RunStatus : st = result[s]
      BY <2>3
    <3>3. (SaveRun(at[s], st) \/ UNCHANGED runVars) /\ UNCHANGED <<payload, status, at>>
      BY <2>7, <3>2 DEF SaveResult, SaveFails, Return
    <3>4. pc'[s] = "returned" /\ pc' = [pc EXCEPT ![s] = pc'[s]] /\ result' = [result EXCEPT ![s] = result'[s]]
      BY <3>1 DEF Return
    <3>5. Saving(st)
      BY <3>2, <3>3, <3>4
    <3>6. QED
      BY <2>1, <2>2, <3>5, SaveFinal
  <2>8. QED
    BY <1>5, <2>4, <2>5, <2>6, <2>7
<1>6. QED
  BY <1>1, <1>2, <1>3, <1>4, <1>5 DEF Next, SessionStep, Advance

-----------------------------------------------------------------------------
(* Runs come to an end, as long as neither a lease nor a transaction fails *)
(* under a live goroutine.                                                 *)

\* No lease was lost by a live goroutine and no transaction failed so far.
Undisturbed == budget["stall"] = MaxStalls /\ budget["db"] = MaxDbErrors

\* How the rows of a job that is not replayed and its goroutine agree.
RowsAgree(j) ==
    /\ status[j] = "QUEUED" => runStatus[j] = "QUEUED"
    /\ status[j] \in JobTerminal => runStatus[j] \in RunTerminal \cup {"SKIPPED"}
    /\ \A s \in Sessions : Executes(s, j) =>
         /\ status[j] = "LEASED" /\ owner[j] = WorkerOf(s) /\ lease[j] = "current"
         /\ (pc[s] = "returned" /\ result[s] # "ERROR") => runStatus[j] \in RunTerminal

\* The inductive invariant behind NoRunLeftActive.
RowsSound ==
    /\ budget["stall"] <= MaxStalls /\ budget["db"] <= MaxDbErrors
    /\ Undisturbed => \A j \in Jobs : Kind(j).recovery = "abort" => RowsAgree(j)

\* What is spent of the bounds does not come back.
LEMMA BudgetStep ==
    ASSUME TypeOK, RowsSound, Next
    PROVE  /\ budget'["stall"] <= MaxStalls /\ budget'["db"] <= MaxDbErrors
           /\ Undisturbed' => Undisturbed /\ UNCHANGED <<budget["stall"], budget["db"]>>
<1> USE ConstantsAssumption DEF TypeOK, RowsSound, Undisturbed
<1>1. UNCHANGED budget \/ \E fault \in {"crash", "stall", "db"} : Spend(fault)
  BY DEF Next, JobStep, Enqueue, RequestCancel, BecomeAvailable, Expire, ReclaimAbort, ReclaimReplay,
      SessionStep, Dispatch, ClaimFails, Advance, Claim, ClaimUnavailable, ClaimSkip, ClaimDefer,
      ClaimReady, StartFails, SaveStarted, ResolutionFails, SetupFails, Resolved, EndLoop,
      SaveResult, StepDone, SaveStep, SaveLastStep, SaveFails, WatchTick, Complete, CompleteFails,
      WorkerStep, Crash, Shutdown, Exit
<1>2. CASE UNCHANGED budget
  BY <1>2
<1>3. ASSUME NEW fault \in {"crash", "stall", "db"}, Spend(fault)
      PROVE  /\ budget'["stall"] <= MaxStalls /\ budget'["db"] <= MaxDbErrors
             /\ Undisturbed' => Undisturbed /\ UNCHANGED <<budget["stall"], budget["db"]>>
  BY <1>3 DEF Spend
<1>4. QED
  BY <1>1, <1>2, <1>3

\* While nothing fails, a goroutine keeps the lease of the job it works on,
\* and a row of a run says QUEUED or is terminal where that of its job does.
LEMMA RowsAgreeStep ==
    ASSUME IInv, ResultsSound, RowsSound, Next, Undisturbed',
           NEW j \in Jobs, Kind(j).recovery = "abort"
    PROVE  RowsAgree(j)'
<1> USE DEF jobVars, runVars, sessionVars
<1>1. /\ TypeOK /\ SessionsSound /\ LeaseOwnerIffLeased
      /\ \A s, t \in Sessions : Executes(s, j) /\ Executes(t, j) => s = t
  BY DEF IInv, NonIdempotentNotReplayed
<1>2. /\ RowsAgree(j)
      /\ ~Spend("stall") /\ ~Spend("db")
  <2>1. Undisturbed /\ UNCHANGED <<budget["stall"], budget["db"]>>
    BY <1>1, BudgetStep
  <2>2. QED
    BY <1>1, <2>1 DEF RowsSound, Spend, TypeOK
<1> USE DEF RowsAgree
<1>3. ASSUME NEW i \in Jobs, JobStep(i) PROVE RowsAgree(j)'
  <2>1. \A s \in Sessions : Executes(s, j)' <=> Executes(s, j)
    BY <1>3 DEF JobStep, Enqueue, RequestCancel, BecomeAvailable, Expire, ReclaimAbort,
       ReclaimReplay, Executes
  <2>2. UNCHANGED <<pc, result>>
    BY <1>3 DEF JobStep, Enqueue, RequestCancel, BecomeAvailable, Expire, ReclaimAbort, ReclaimReplay
  <2> USE DEF TypeOK
  <2>3. CASE Enqueue(i)
    BY <1>1, <1>2, <2>1, <2>2, <2>3 DEF Enqueue, JobTerminal
  <2>4. CASE RequestCancel(i)
    BY <1>1, <1>2, <2>1, <2>2, <2>4 DEF RequestCancel, JobTerminal, RunTerminal
  <2>5. CASE BecomeAvailable(i)
    BY <1>1, <1>2, <2>1, <2>2, <2>5 DEF BecomeAvailable
  <2>6. CASE Expire(i)
    <3>1. ~Attended(i)
      BY <1>2, <2>6 DEF Expire
    <3>2. i = j => \A s \in Sessions : ~Executes(s, j)
      BY <1>2, <3>1 DEF Attended
    <3>3. QED
      BY <1>1, <1>2, <2>1, <2>2, <2>6, <3>2 DEF Expire
  <2>7. CASE ReclaimAbort(i)
    <3>1. i = j => \A s \in Sessions : ~Executes(s, j)
      BY <1>2, <2>7 DEF ReclaimAbort, Reclaimable
    <3>2. QED
      BY <1>1, <1>2, <2>1, <2>2, <2>7, <3>1 DEF ReclaimAbort, Settle, JobTerminal, RunTerminal
  <2>8. CASE ReclaimReplay(i)
    <3>1. i # j
      BY <2>8 DEF ReclaimReplay
    <3>2. QED
      BY <1>1, <1>2, <2>1, <2>2, <2>8, <3>1 DEF ReclaimReplay, Settle
  <2>9. QED
    BY <1>3, <2>3, <2>4, <2>5, <2>6, <2>7, <2>8 DEF JobStep
<1>4. ASSUME NEW c \in Sessions, NEW i \in Jobs, Dispatch(c, i) \/ ClaimFails(c, i) \/ Claim(c, i)
      PROVE  RowsAgree(j)'
  <2> USE DEF TypeOK
  <2>1. CASE ClaimReady(c, i)
    <3>1. status[i] = "QUEUED"
      BY <2>1 DEF ClaimReady, Lease, Claimable
    <3>2. \A s \in Sessions \ {c} : UNCHANGED <<pc[s], at[s], result[s]>>
      BY <1>1, <2>1 DEF ClaimReady, Goto
    <3>3. at[c] = i /\ at'[c] = i /\ pc'[c] = "claimed" /\ UNCHANGED runStatus
      BY <1>1, <2>1 DEF ClaimReady, Claiming, Goto
    <3>4. CASE i = j
      <4>1. \A s \in Sessions : Executes(s, j)' => s = c
        BY <1>2, <3>1, <3>2, <3>4 DEF Executes
      <4>2. status'[j] = "LEASED" /\ owner'[j] = WorkerOf(c) /\ lease'[j] = "current"
        BY <1>1, <2>1, <3>4 DEF ClaimReady, Lease
      <4>3. QED
        BY <3>3, <4>1, <4>2 DEF JobTerminal, Executes
    <3>5. CASE i # j
      <4>1. \A s \in Sessions : Executes(s, j)' => Executes(s, j) /\ UNCHANGED <<pc[s], result[s]>>
        BY <3>2, <3>3, <3>5 DEF Executes
      <4>2. UNCHANGED <<status[j], owner[j], lease[j], runStatus[j]>>
        BY <1>1, <2>1, <3>5 DEF ClaimReady, Lease
      <4>3. QED
        BY <1>2, <4>1, <4>2
    <3>6. QED
      BY <3>4, <3>5
  <2>2. CASE ~ClaimReady(c, i)
    <3>1. \A s \in Sessions : Executes(s, j)' => Executes(s, j) /\ UNCHANGED <<pc[s], result[s]>>
      BY <1>1, <1>4, <2>2 DEF Dispatch, ClaimFails, Claim, ClaimUnavailable, ClaimSkip, ClaimDefer,
                              Free, Goto, Executes, Executing
    <3>2. UNCHANGED <<owner, lease>>
      BY <1>2, <1>4, <2>2 DEF Dispatch, ClaimFails, Claim, ClaimUnavailable, ClaimSkip, ClaimDefer
    <3>3. CASE ClaimSkip(c, i)
      BY <1>1, <1>2, <3>1, <3>2, <3>3 DEF ClaimSkip, Claimable, JobTerminal, RunTerminal
    <3>4. CASE UNCHANGED <<status, runStatus>>
      BY <1>2, <3>1, <3>2, <3>4
    <3>5. QED
      BY <1>2, <1>4, <2>2, <3>3, <3>4 DEF Dispatch, ClaimFails, Claim, ClaimUnavailable, ClaimDefer
  <2>3. QED
    BY <2>1, <2>2
<1>5. ASSUME NEW s \in Sessions,
             \/ SaveStarted(s) \/ ResolutionFails(s) \/ SetupFails(s)
             \/ Resolved(s) \/ StepDone(s) \/ SaveStep(s) \/ SaveLastStep(s) \/ StartFails(s) \/ SaveResult(s)
             \/ \E res \in {"SUCCESS", "FAILED", "CANCELLED"} : EndLoop(s, res)
      PROVE  RowsAgree(j)'
  <2>1. /\ pc[s] \in Executing \ {"returned"} /\ at[s] \in Jobs
        /\ UNCHANGED <<status, owner, lease, at>>
        /\ pc'[s] \in Executing
        /\ pc'[s] = "returned" => result'[s] = "ERROR" \/ SaveRun(at[s], result[s])
        /\ (\E st : SaveRun(at[s], st)) \/ UNCHANGED runVars
    BY <1>1, <1>5 DEF StartFails, SaveStarted, ResolutionFails, SetupFails, Resolved, StepDone, SaveStep,
                SaveLastStep, SaveResult, EndLoop, Goto, Return, Executing, SessionsSound, TypeOK
  <2>2. \A t \in Sessions \ {s} : UNCHANGED <<pc[t], result[t]>>
    BY <1>1, <1>5 DEF StartFails, SaveStarted, ResolutionFails, SetupFails, Resolved, StepDone, SaveStep,
                SaveLastStep, SaveResult, EndLoop, Goto, Return, TypeOK
  <2>3. at[s] # j => UNCHANGED runStatus[j]
    BY <1>1, <2>1 DEF SaveRun, TypeOK
  <2>4. \A t \in Sessions : Executes(t, j)' <=> Executes(t, j)
    BY <2>1, <2>2 DEF Executes
  <2>5. CASE at[s] = j
    <3>1. Executes(s, j) /\ status[j] = "LEASED"
      BY <1>2, <2>1, <2>5 DEF Executes
    <3>2. \A t \in Sessions : Executes(t, j) => t = s
      BY <1>1, <3>1
    <3>3. (pc'[s] = "returned" /\ result'[s] # "ERROR") => runStatus'[j] \in RunTerminal
      <4>1. SUFFICES ASSUME SaveResult(s) PROVE runStatus'[j] \in RunTerminal
        BY <1>1, <1>5 DEF StartFails, SaveStarted, ResolutionFails, SetupFails, Resolved, StepDone, SaveStep,
                SaveLastStep, EndLoop, Goto, Return, TypeOK
      <4>2. result[s] \in RunTerminal
        BY <4>1 DEF SaveResult, ResultsSound
      <4>3. QED
        BY <1>1, <2>5, <4>1, <4>2 DEF SaveResult, SaveRun, TypeOK
    <3>4. QED
      BY <1>2, <2>1, <2>4, <3>1, <3>2, <3>3 DEF JobTerminal
  <2>6. CASE at[s] # j
    <3>1. \A t \in Sessions : Executes(t, j) => t # s
      BY <2>6 DEF Executes
    <3>2. QED
      BY <1>2, <2>1, <2>2, <2>3, <2>4, <2>6, <3>1
  <2>7. QED
    BY <2>5, <2>6
<1>6. ASSUME NEW s \in Sessions, WatchTick(s) \/ SaveFails(s) \/ CompleteFails(s) \/ Complete(s)
      PROVE  RowsAgree(j)'
  <2> USE DEF TypeOK
  <2>1. ~SaveFails(s) /\ ~CompleteFails(s)
    BY <1>2 DEF SaveFails, CompleteFails
  <2>2. CASE WatchTick(s)
    BY <1>1, <1>2, <2>2 DEF WatchTick, Executes
  <2>3. CASE Complete(s)
    <3>1. \A t \in Sessions : Executes(t, j)' => t # s /\ Executes(t, j) /\ UNCHANGED <<pc[t], result[t]>>
      BY <1>1, <2>3 DEF Complete, Free, Executes, Executing
    <3>2. CASE at[s] = j
      <4>1. Executes(s, j) /\ status[j] = "LEASED" /\ owner[j] = WorkerOf(s)
        BY <1>2, <2>3, <3>2 DEF Executes, Complete, Executing
      <4>2. Settle(j, Outcome(s)) /\ Outcome(s) \in JobTerminal
        BY <2>3, <3>2, <4>1 DEF Complete, Outcome, JobTerminal
      <4>3. \A t \in Sessions : ~Executes(t, j)'
        BY <1>1, <3>1, <4>1
      <4>4. runStatus'[j] \in RunTerminal
        BY <1>1, <1>2, <2>3, <3>2, <4>1 DEF Complete, RunTerminal
      <4>5. status'[j] \in JobTerminal
        BY <1>1, <4>2 DEF Settle
      <4>6. QED
        BY <4>3, <4>4, <4>5 DEF JobTerminal
    <3>3. CASE at[s] # j
      <4>1. UNCHANGED <<status[j], owner[j], lease[j], runStatus[j]>>
        BY <1>1, <2>3, <3>3 DEF Complete, Settle
      <4>2. QED
        BY <1>2, <3>1, <4>1
    <3>4. QED
      BY <3>2, <3>3
  <2>4. QED
    BY <1>6, <2>1, <2>2, <2>3
<1>7. ASSUME NEW w \in Workers, WorkerStep(w) PROVE RowsAgree(j)'
  <2>1. \A t \in Sessions : Executes(t, j)' => Executes(t, j) /\ UNCHANGED <<pc[t], result[t]>>
    BY <1>1, <1>7 DEF WorkerStep, Crash, Shutdown, Exit, DropSessions, Executes, Executing, TypeOK
  <2>2. UNCHANGED <<jobVars, runVars>>
    BY <1>7 DEF WorkerStep, Crash, Shutdown, Exit
  <2>3. QED
    BY <1>2, <2>1, <2>2
<1>8. QED
  BY <1>3, <1>4, <1>5, <1>6, <1>7 DEF Next, SessionStep, Advance

\* Every step keeps what the two proofs rest on.
LEMMA EInvStep == EInv /\ RowsSound /\ [Next]_vars => EInv' /\ RowsSound'
<1> SUFFICES ASSUME EInv, RowsSound, [Next]_vars PROVE EInv' /\ RowsSound'
  OBVIOUS
<1>1. IInv'
  BY IInvStep DEF EInv
<1>2. CASE Next
  <2>1. ResultsSound' /\ EffectsFinal'
    BY <1>2, ResultsSoundStep, EffectsFinalStep DEF EInv, IInv
  <2>2. ASSUME Undisturbed', NEW j \in Jobs, Kind(j)'.recovery = "abort" PROVE RowsAgree(j)'
    BY <1>2, <2>2, PayloadFixed, RowsAgreeStep DEF EInv, Kind
  <2>3. QED
    BY <1>1, <1>2, <2>1, <2>2, BudgetStep DEF EInv, IInv, RowsSound
<1>3. CASE UNCHANGED vars
  BY <1>1, <1>3 DEF vars, jobVars, runVars, sessionVars, EInv, ResultsSound, EffectsFinal, Final,
     RowsSound, RowsAgree, Undisturbed, Executes, Kind
<1>4. QED
  BY <1>2, <1>3

\* The invariants behind the two theorems on what becomes of a run.
THEOREM RunInvariance == Spec => [](EInv /\ RowsSound)
<1>1. Init => EInv /\ RowsSound
  <2> SUFFICES ASSUME Init PROVE EInv /\ RowsSound
    OBVIOUS
  <2>1. ResultsSound /\ EffectsFinal
    BY DEF Init, ResultsSound, EffectsFinal, Final
  <2>2. RowsSound
    BY ConstantsAssumption DEF Init, RowsSound, RowsAgree, Executes, Executing, JobTerminal
  <2>3. QED
    BY <2>1, <2>2, InitIInv DEF EInv
<1>2. QED
  BY <1>1, InitIInv, EInvStep, PTL DEF Spec

\* What alerts, rollups and health were told of a run that is not replayed is
\* what its row says, through crashes, stalled leases and failing transactions.
THEOREM EffectsAreFinal == Spec => []EffectMatchesRun
<1>1. EInv => EffectMatchesRun
  BY DEF EInv, EffectsFinal, Final, EffectMatchesRun
<1>2. QED
  BY <1>1, RunInvariance, PTL

\* As long as no live goroutine lost its lease and no transaction failed, a
\* crash or a shutdown leaves no run behind that looks active.
THEOREM RunsReachAnEnd ==
    Spec => []((Undisturbed /\ \A j \in Jobs : Kind(j).recovery = "abort") => NoRunLeftActive)
<1>1. RowsSound => ((Undisturbed /\ \A j \in Jobs : Kind(j).recovery = "abort") => NoRunLeftActive)
  BY DEF RowsSound, RowsAgree, NoRunLeftActive
<1>2. QED
  BY <1>1, RunInvariance, PTL
=============================================================================
