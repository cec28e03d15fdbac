--------------------------- MODULE ExecutionJobs ---------------------------
(***************************************************************************)
(* The durable execution queue of API monitor runs, as deployed: jobs are  *)
(* rows of execution_jobs in PostgreSQL, API executors poll and lease      *)
(* them (internal/executionjobs), execute the run they name                *)
(* (internal/runs) and the control role reclaims leases that expired.      *)
(*                                                                         *)
(* A SQL transaction is one step.  Everything between two transactions of  *)
(* one goroutine is a separate step, so that the other executors, the      *)
(* reclaimer and the cancelling user may come in between.                  *)
(*                                                                         *)
(* Abstracted: payloads, timestamps (a lease is either current or          *)
(* expired; a job is either available or deferred), the outbox (the        *)
(* PostgreSQL transport only stamps it), and the content of a run, of      *)
(* which the status remains.  FAILED stands for FAILED and TIMED_OUT.      *)
(***************************************************************************)
EXTENDS Integers, FiniteSets, Sequences

CONSTANTS
    Jobs,         \* ids of execution jobs; a job and its run share the id
    Monitors,     \* ids of monitors
    Workers,      \* lease owners: one "hostname-pid" per executor process
    Slots,        \* globalSlots of one executor: its concurrent goroutines
    ManualSlots,  \* capacity of manualSlots, max(1, concurrency/5)
    Kinds,        \* the kinds of job that are enqueued
    NoJob, NoWorker,
    MaxCrashes,   \* bound: executor crashes and shutdowns
    MaxStalls,    \* bound: leases that expire although their goroutine lives
    MaxDbErrors   \* bound: transactions of a worker that PostgreSQL refuses

(***************************************************************************)
(* What an enqueued payload says of a job.  The scheduler writes the       *)
(* schedule's concurrency policy and recoverySafe = false; every other     *)
(* trigger leaves the policy empty, which claim reads as ALLOW, and        *)
(* computes recoverySafe from the definition.  Only a manual run may be    *)
(* of a draft.                                                             *)
(***************************************************************************)
ScheduledKind ==
    [class : {"scheduled"}, policy : {"ALLOW", "SKIP_IF_RUNNING", "QUEUE"},
     recovery : {"abort"}, revision : {"published"}]
ManualKind ==
    [class : {"manual"}, policy : {"ALLOW"},
     recovery : {"abort", "replay"}, revision : {"draft", "published"}]

ASSUME ConstantsAssumption ==
    /\ NoJob \notin Jobs
    /\ NoWorker \notin Workers
    /\ Kinds \subseteq ScheduledKind \cup ManualKind
    /\ ManualSlots \in Nat \ {0}
    /\ MaxCrashes \in Nat /\ MaxStalls \in Nat /\ MaxDbErrors \in Nat

\* One goroutine of Service.process, by the slot it holds.
Sessions == Workers \X Slots
WorkerOf(s) == s[1]

VARIABLES
    \* The execution_jobs rows.
    payload,     \* kind and monitor, as enqueued
    status,      \* status
    owner,       \* lease_owner
    lease,       \* lease_expires_at: none, in the future or in the past
    attempts,    \* attempt_count
    cancel,      \* cancel_requested_at
    available,   \* available_at: reached, or a second away
    \* The monitor_runs rows.
    runStatus,   \* status
    effects,     \* the terminal statuses processed; terminal_processed_at is
                 \* null while there is none
    \* The goroutines of the executors, and the executor processes.
    pc,          \* where Service.process is
    at,          \* the job it was started for
    result,      \* run.Status in memory, or the error ExecuteQueued returns
    ctx,         \* the context the run is executed under
    worker,
    budget       \* what is left of the three bounds

jobVars     == <<payload, status, owner, lease, attempts, cancel, available>>
runVars     == <<runStatus, effects>>
sessionVars == <<pc, at, result, ctx>>
vars        == <<jobVars, runVars, sessionVars, worker, budget>>

JobTerminal == {"SUCCEEDED", "FAILED", "CANCELLED"}
JobStatus   == {"NONE", "QUEUED", "LEASED"} \cup JobTerminal

\* runs.isTerminalStatus and the SQL lists: SKIPPED is not among them.
RunTerminal == {"SUCCESS", "FAILED", "CANCELLED", "ABORTED"}
RunStatus   == {"NONE", "QUEUED", "RUNNING", "SKIPPED"} \cup RunTerminal

\* claimed    the lease is taken; ExecuteQueued has begun
\* started    RUNNING is saved; the environment and secrets are resolved
\* stepping   in the loop over the steps
\* stepped    a step is done and not cancelled; it is about to be saved
\* failing    resolution failed; the FAILED run is about to be saved
\* finishing  the loop ended; the terminal run is about to be saved
\* returned   ExecuteQueued returned; complete is about to begin
Executing == {"claimed", "started", "stepping", "stepped", "failing", "finishing", "returned"}

\* idle        holds no slot
\* dispatched  polled a job id and took a slot; claim has not begun
SessionPC == {"idle", "dispatched"} \cup Executing

\* Types of the rows, of the goroutines' memory and of the remaining bounds.
TypeOK ==
    /\ payload \in [Jobs -> [kind : ScheduledKind \cup ManualKind, monitor : Monitors]]
    /\ status \in [Jobs -> JobStatus]
    /\ owner \in [Jobs -> Workers \cup {NoWorker}]
    /\ lease \in [Jobs -> {"none", "current", "expired"}]
    /\ attempts \in [Jobs -> Nat]
    /\ cancel \in [Jobs -> {"none", "requested"}]
    /\ available \in [Jobs -> {"now", "later"}]
    /\ runStatus \in [Jobs -> RunStatus]
    /\ effects \in [Jobs -> Seq(RunTerminal)]
    /\ pc \in [Sessions -> SessionPC]
    /\ at \in [Sessions -> Jobs \cup {NoJob}]
    /\ result \in [Sessions -> {"RUNNING", "ERROR"} \cup RunTerminal]
    /\ ctx \in [Sessions -> {"live", "cancelled"}]
    /\ worker \in [Workers -> {"up", "draining"}]
    /\ budget \in [{"crash", "stall", "db"} -> Nat]

Kind(j) == payload[j].kind

\* The goroutine works on the lease of the job.
Executes(s, j) == pc[s] \in Executing /\ at[s] = j

\* Some goroutine of the lease's owner is still working on the job.
Attended(j) == \E s \in Sessions : Executes(s, j) /\ WorkerOf(s) = owner[j]

Init ==
    /\ payload \in [Jobs -> [kind : Kinds, monitor : Monitors]]
    /\ status = [j \in Jobs |-> "NONE"]
    /\ owner = [j \in Jobs |-> NoWorker]
    /\ lease = [j \in Jobs |-> "none"]
    /\ attempts = [j \in Jobs |-> 0]
    /\ cancel = [j \in Jobs |-> "none"]
    /\ available = [j \in Jobs |-> "now"]
    /\ runStatus = [j \in Jobs |-> "NONE"]
    /\ effects = [j \in Jobs |-> <<>>]
    /\ pc = [s \in Sessions |-> "idle"]
    /\ at = [s \in Sessions |-> NoJob]
    /\ result = [s \in Sessions |-> "RUNNING"]
    /\ ctx = [s \in Sessions |-> "live"]
    /\ worker = [w \in Workers |-> "up"]
    /\ budget = [crash |-> MaxCrashes, stall |-> MaxStalls, db |-> MaxDbErrors]

Spend(fault) ==
    /\ budget[fault] > 0
    /\ budget' = [budget EXCEPT ![fault] = @ - 1]

\* process returns: the slot is free again.
Free(s) ==
    /\ pc' = [pc EXCEPT ![s] = "idle"]
    /\ at' = [at EXCEPT ![s] = NoJob]
    /\ result' = [result EXCEPT ![s] = "RUNNING"]
    /\ ctx' = [ctx EXCEPT ![s] = "live"]

Goto(s, from, to) ==
    /\ pc[s] = from
    /\ pc' = [pc EXCEPT ![s] = to]

-----------------------------------------------------------------------------
(* Enqueueing and cancelling: the front door and the scheduler.            *)

\* The run, its job and its outbox row, in one transaction.
Enqueue(j) ==
    /\ status[j] = "NONE"
    /\ status' = [status EXCEPT ![j] = "QUEUED"]
    /\ runStatus' = [runStatus EXCEPT ![j] = "QUEUED"]
    /\ UNCHANGED <<payload, owner, lease, attempts, cancel, available, effects>>
    /\ UNCHANGED <<sessionVars, worker, budget>>

\* The run is cancelled at once when its row still says QUEUED, the job when
\* its row does; a leased job is only marked, for its watcher to notice.
RequestCancel(j) ==
    /\ runStatus[j] \notin RunTerminal \cup {"NONE"}
    /\ runStatus' = [runStatus EXCEPT ![j] = IF @ = "QUEUED" THEN "CANCELLED" ELSE @]
    /\ status' = [status EXCEPT ![j] = IF @ = "QUEUED" THEN "CANCELLED" ELSE @]
    /\ cancel' = [cancel EXCEPT ![j] = IF status[j] \in {"QUEUED", "LEASED"}
                                       THEN "requested" ELSE @]
    /\ UNCHANGED <<payload, owner, lease, attempts, available, effects>>
    /\ UNCHANGED <<sessionVars, worker, budget>>

-----------------------------------------------------------------------------
(* The executor: polling and claiming.                                     *)

ManualInUse(w) ==
    {s \in Sessions : /\ WorkerOf(s) = w
                      /\ pc[s] # "idle"
                      /\ Kind(at[s]).class = "manual"}

\* A poll selected the job and a goroutine was started for it; by the time it
\* claims, the row may have changed.
Dispatch(s, j) ==
    /\ worker[WorkerOf(s)] = "up"
    /\ status[j] = "QUEUED" /\ cancel[j] = "none" /\ available[j] = "now"
    /\ Kind(j).class = "manual" => Cardinality(ManualInUse(WorkerOf(s))) < ManualSlots
    /\ Goto(s, "idle", "dispatched")
    /\ at' = [at EXCEPT ![s] = j]
    /\ UNCHANGED <<jobVars, runVars, result, ctx, worker, budget>>

\* Mutant: waiting jobs count as active, so that two of them wait for each other.
ActiveOrQueuedOnMonitor(j) ==
    \E i \in Jobs \ {j} : /\ status[i] \in {"QUEUED", "LEASED"}
                         /\ payload[i].monitor = payload[j].monitor

\* The check made under the monitor's advisory lock.
ActiveOnMonitor(j) ==
    \E i \in Jobs \ {j} : status[i] = "LEASED" /\ payload[i].monitor = payload[j].monitor

\* Mutant: only queueing jobs look for an active one.
OverlapsIfQueueing(j) == Kind(j).policy = "QUEUE" /\ ActiveOnMonitor(j)

Overlaps(j) == Kind(j).policy # "ALLOW" /\ ActiveOnMonitor(j)

Claimable(j) == status[j] = "QUEUED" /\ available[j] = "now"

Claiming(s, j) == pc[s] = "dispatched" /\ at[s] = j /\ worker[WorkerOf(s)] = "up"

\* The row moved on since the poll, or a cancelled run was put back on the
\* queue; or the process is shutting down and the transaction cannot begin.
ClaimUnavailable(s, j) ==
    /\ pc[s] = "dispatched" /\ at[s] = j
    /\ \/ ~Claimable(j)
       \/ ~Overlaps(j) /\ cancel[j] = "requested"
       \/ worker[WorkerOf(s)] = "draining"
    /\ Free(s)
    /\ UNCHANGED <<jobVars, runVars, worker, budget>>

\* Mutant: skips without looking for an active job.
ClaimSkipUnchecked(s, j) ==
    /\ Claiming(s, j)
    /\ Claimable(j) /\ Kind(j).policy = "SKIP_IF_RUNNING"
    /\ status' = [status EXCEPT ![j] = "SUCCEEDED"]
    /\ runStatus' = [runStatus EXCEPT ![j] = IF @ = "QUEUED" THEN "SKIPPED" ELSE @]
    /\ Free(s)
    /\ UNCHANGED <<payload, owner, lease, attempts, cancel, available, effects>>
    /\ UNCHANGED <<worker, budget>>

\* skipOverlapping
ClaimSkip(s, j) ==
    /\ Claiming(s, j)
    /\ Claimable(j) /\ Overlaps(j) /\ Kind(j).policy = "SKIP_IF_RUNNING"
    /\ status' = [status EXCEPT ![j] = "SUCCEEDED"]
    /\ runStatus' = [runStatus EXCEPT ![j] = IF @ = "QUEUED" THEN "SKIPPED" ELSE @]
    /\ Free(s)
    /\ UNCHANGED <<payload, owner, lease, attempts, cancel, available, effects>>
    /\ UNCHANGED <<worker, budget>>

\* deferOverlapping
ClaimDefer(s, j) ==
    /\ Claiming(s, j)
    /\ Claimable(j) /\ Overlaps(j) /\ Kind(j).policy # "SKIP_IF_RUNNING"
    /\ available' = [available EXCEPT ![j] = "later"]
    /\ Free(s)
    /\ UNCHANGED <<payload, status, owner, lease, attempts, cancel>>
    /\ UNCHANGED <<runVars, worker, budget>>

Lease(s, j) ==
    /\ Claimable(j) /\ ~Overlaps(j) /\ cancel[j] = "none"
    /\ status' = [status EXCEPT ![j] = "LEASED"]
    /\ owner' = [owner EXCEPT ![j] = WorkerOf(s)]
    /\ lease' = [lease EXCEPT ![j] = "current"]
    /\ attempts' = [attempts EXCEPT ![j] = @ + 1]
    /\ UNCHANGED <<payload, cancel, available>>

ClaimReady(s, j) ==
    /\ Claiming(s, j)
    /\ Lease(s, j)
    /\ Goto(s, "dispatched", "claimed")
    /\ UNCHANGED <<runVars, at, result, ctx, worker, budget>>

\* The claim is refused, or committed and its answer lost: then the job is
\* leased and nobody executes it.
ClaimFails(s, j) ==
    /\ Claiming(s, j)
    /\ Spend("db")
    /\ UNCHANGED jobVars \/ Lease(s, j)
    /\ Free(s)
    /\ UNCHANGED <<runVars, worker>>

\* One second has passed since ClaimDefer.
BecomeAvailable(j) ==
    /\ available[j] = "later"
    /\ available' = [available EXCEPT ![j] = "now"]
    /\ UNCHANGED <<payload, status, owner, lease, attempts, cancel>>
    /\ UNCHANGED <<runVars, sessionVars, worker, budget>>

-----------------------------------------------------------------------------
(* The executor: executing the run.  Progress is saved without regard to   *)
(* cancellation, and every save overwrites the status of the row.          *)

Return(s, res) ==
    /\ pc' = [pc EXCEPT ![s] = "returned"]
    /\ result' = [result EXCEPT ![s] = res]
    /\ UNCHANGED <<at, ctx>>

\* Mutant: terminal_processed_at is not looked at.
SaveRunRepeatingEffects(j, st) ==
    /\ runStatus' = [runStatus EXCEPT ![j] = st]
    /\ effects' = [effects EXCEPT ![j] =
                     IF st \in RunTerminal /\ Kind(j).revision = "published"
                     THEN Append(@, st) ELSE @]

\* Upsert of the run; the first terminal status saved for a run that is not
\* of a draft claims terminal_processed_at and evaluates the alert, the
\* hourly rollup and the current health in the same transaction.
SaveRun(j, st) ==
    /\ runStatus' = [runStatus EXCEPT ![j] = st]
    /\ effects' = [effects EXCEPT ![j] =
                     IF /\ st \in RunTerminal /\ Kind(j).revision = "published"
                        /\ @ = <<>>
                     THEN Append(@, st) ELSE @]

\* The snapshot is invalid, or no agent could be selected.
StartFails(s) ==
    /\ pc[s] = "claimed"
    /\ Return(s, "ERROR")
    /\ UNCHANGED <<jobVars, runVars, worker, budget>>

SaveStarted(s) ==
    /\ Goto(s, "claimed", "started")
    /\ SaveRun(at[s], "RUNNING")
    /\ UNCHANGED <<jobVars, at, result, ctx, worker, budget>>

\* The environment or a secret could not be resolved.
ResolutionFails(s) ==
    /\ Goto(s, "started", "failing")
    /\ result' = [result EXCEPT ![s] = "FAILED"]
    /\ UNCHANGED <<jobVars, runVars, at, ctx, worker, budget>>

\* The monitor's setup script failed: the FAILED run is saved at once, whatever
\* becomes of that save, and again when the loop is left without a step.
SetupFails(s) ==
    /\ Goto(s, "started", "finishing")
    /\ result' = [result EXCEPT ![s] = "FAILED"]
    /\ SaveRun(at[s], "FAILED") \/ UNCHANGED runVars
    /\ UNCHANGED <<jobVars, at, ctx, worker, budget>>

\* There is no setup script; or it succeeded, and the run is saved, whatever
\* becomes of that save.
Resolved(s) ==
    /\ Goto(s, "started", "stepping")
    /\ SaveRun(at[s], "RUNNING") \/ UNCHANGED runVars
    /\ UNCHANGED <<jobVars, at, result, ctx, worker, budget>>

\* A step succeeded or was skipped, and cancellation was looked at after it.
StepDone(s) ==
    /\ ctx[s] = "live"
    /\ Goto(s, "stepping", "stepped")
    /\ UNCHANGED <<jobVars, runVars, at, result, ctx, worker, budget>>

\* The run is saved, and the next step is begun.
SaveStep(s) ==
    /\ Goto(s, "stepped", "stepping")
    /\ SaveRun(at[s], "RUNNING")
    /\ UNCHANGED <<jobVars, at, result, ctx, worker, budget>>

\* The run is saved, and there is no next step.
SaveLastStep(s) ==
    /\ Goto(s, "stepped", "finishing")
    /\ SaveRun(at[s], "RUNNING")
    /\ result' = [result EXCEPT ![s] = "SUCCESS"]
    /\ UNCHANGED <<jobVars, at, ctx, worker, budget>>

\* The loop ends without a save: cancellation is looked at before and after
\* every step and overrides the step's own result, but not the failure of a
\* workflow that exceeds its step limit or navigates to an unknown step; the
\* remaining steps may all be disabled.
EndLoop(s, res) ==
    /\ res = "CANCELLED" => ctx[s] = "cancelled"
    /\ res = "SUCCESS" => ctx[s] = "live"
    /\ Goto(s, "stepping", "finishing")
    /\ result' = [result EXCEPT ![s] = res]
    /\ UNCHANGED <<jobVars, runVars, at, ctx, worker, budget>>

SaveResult(s) ==
    /\ pc[s] \in {"failing", "finishing"}
    /\ SaveRun(at[s], result[s])
    /\ Return(s, result[s])
    /\ UNCHANGED <<jobVars, worker, budget>>

\* A save is refused, or committed and its answer lost.  The error ends the
\* execution, except on the resolution paths, which ignore it.
SaveFails(s) ==
    /\ pc[s] \in {"claimed", "stepped", "failing", "finishing"}
    /\ Spend("db")
    /\ UNCHANGED runVars \/ SaveRun(at[s], result[s])
    /\ Return(s, IF pc[s] = "failing" THEN result[s] ELSE "ERROR")
    /\ UNCHANGED <<jobVars, worker>>

-----------------------------------------------------------------------------
(* The executor: the watcher of a lease, and completion.                   *)

\* What the watcher's UPDATE matches, and complete relies on.
HoldsLease(s) == status[at[s]] = "LEASED" /\ owner[at[s]] = WorkerOf(s)

\* One tick of the watcher, which ends once the context is cancelled.
WatchTick(s) ==
    /\ pc[s] \in Executing /\ ctx[s] = "live"
    /\ lease' = [lease EXCEPT ![at[s]] = IF HoldsLease(s) THEN "current" ELSE @]
    /\ ctx' = [ctx EXCEPT ![s] = IF HoldsLease(s) /\ cancel[at[s]] = "none"
                                 THEN "live" ELSE "cancelled"]
    /\ UNCHANGED <<payload, status, owner, attempts, cancel, available>>
    /\ UNCHANGED <<runVars, pc, at, result, worker, budget>>

\* Mutant: the job is given the status of its run.
OutcomeOfRun(s) == IF ctx[s] = "cancelled" THEN "CANCELLED" ELSE result[s]

Outcome(s) == IF ctx[s] = "cancelled" THEN "CANCELLED"
              ELSE IF result[s] = "ERROR" THEN "FAILED" ELSE "SUCCEEDED"

\* Gives the job its outcome and its lease back.
Settle(j, outcome) ==
    /\ status' = [status EXCEPT ![j] = outcome]
    /\ owner' = [owner EXCEPT ![j] = NoWorker]
    /\ lease' = [lease EXCEPT ![j] = "none"]
    /\ UNCHANGED <<payload, attempts, cancel>>

\* Mutant: the job row is matched by its id alone.
CompleteAnyOwner(s) ==
    /\ pc[s] = "returned"
    /\ Settle(at[s], Outcome(s)) /\ UNCHANGED available
    /\ runStatus' = [runStatus EXCEPT ![at[s]] =
                       IF result[s] = "ERROR" /\ @ \notin RunTerminal THEN "ABORTED" ELSE @]
    /\ Free(s)
    /\ UNCHANGED <<effects, worker, budget>>

\* The job row is matched by its lease owner alone; a run whose execution
\* ended in an error is aborted whether or not the job row matched.
Complete(s) ==
    /\ pc[s] = "returned"
    /\ IF owner[at[s]] = WorkerOf(s)
       THEN Settle(at[s], Outcome(s)) /\ UNCHANGED available
       ELSE UNCHANGED jobVars
    /\ runStatus' = [runStatus EXCEPT ![at[s]] =
                       IF result[s] = "ERROR" /\ @ \notin RunTerminal THEN "ABORTED" ELSE @]
    /\ Free(s)
    /\ UNCHANGED <<effects, worker, budget>>

CompleteFails(s) ==
    /\ pc[s] = "returned"
    /\ Spend("db")
    /\ Free(s)
    /\ UNCHANGED <<jobVars, runVars, worker>>

-----------------------------------------------------------------------------
(* Leases running out and the reclaimer.                                   *)

\* Ninety seconds without a renewal: the executor died, or it is stalled or
\* cut off from the database.
Expire(j) ==
    /\ status[j] = "LEASED" /\ lease[j] = "current"
    /\ lease' = [lease EXCEPT ![j] = "expired"]
    /\ \/ ~Attended(j) /\ UNCHANGED budget
       \/ Attended(j) /\ Spend("stall")
    /\ UNCHANGED <<payload, status, owner, attempts, cancel, available>>
    /\ UNCHANGED <<runVars, sessionVars, worker>>

Reclaimable(j) == status[j] = "LEASED" /\ lease[j] = "expired"

\* Mutant: the run is left as the lost executor saved it.
ReclaimAbortJobOnly(j) ==
    /\ Reclaimable(j) /\ Kind(j).recovery = "abort"
    /\ Settle(j, "FAILED")
    /\ UNCHANGED <<available, runVars, sessionVars, worker, budget>>

\* Mutant: a run that already ended is aborted too.
ReclaimAbortEnded(j) ==
    /\ Reclaimable(j) /\ Kind(j).recovery = "abort"
    /\ Settle(j, "FAILED")
    /\ runStatus' = [runStatus EXCEPT ![j] = "ABORTED"]
    /\ UNCHANGED <<available, effects, sessionVars, worker, budget>>

ReclaimAbort(j) ==
    /\ Reclaimable(j) /\ Kind(j).recovery = "abort"
    /\ Settle(j, "FAILED")
    /\ runStatus' = [runStatus EXCEPT ![j] = IF @ \in RunTerminal THEN @ ELSE "ABORTED"]
    /\ UNCHANGED <<available, effects, sessionVars, worker, budget>>

\* Mutant: recoverySafe is not looked at.
ReclaimReplayAny(j) ==
    /\ Reclaimable(j)
    /\ Settle(j, "QUEUED")
    /\ available' = [available EXCEPT ![j] = "now"]
    /\ UNCHANGED <<runVars, sessionVars, worker, budget>>

ReclaimReplay(j) ==
    /\ Reclaimable(j) /\ Kind(j).recovery = "replay"
    /\ Settle(j, "QUEUED")
    /\ available' = [available EXCEPT ![j] = "now"]
    /\ UNCHANGED <<runVars, sessionVars, worker, budget>>

-----------------------------------------------------------------------------
(* Executor processes.                                                     *)

DropSessions(w) ==
    /\ pc' = [s \in Sessions |-> IF WorkerOf(s) = w THEN "idle" ELSE pc[s]]
    /\ at' = [s \in Sessions |-> IF WorkerOf(s) = w THEN NoJob ELSE at[s]]
    /\ result' = [s \in Sessions |-> IF WorkerOf(s) = w THEN "RUNNING" ELSE result[s]]
    /\ ctx' = [s \in Sessions |-> IF WorkerOf(s) = w THEN "live" ELSE ctx[s]]

\* The process dies and is restarted under the same hostname and pid.
Crash(w) ==
    /\ worker[w] = "up"
    /\ Spend("crash")
    /\ DropSessions(w)
    /\ UNCHANGED <<jobVars, runVars, worker>>

\* SIGTERM cancels every execution's context; nothing waits for them.
Shutdown(w) ==
    /\ worker[w] = "up"
    /\ Spend("crash")
    /\ worker' = [worker EXCEPT ![w] = "draining"]
    /\ ctx' = [s \in Sessions |-> IF WorkerOf(s) = w /\ pc[s] \in Executing
                                  THEN "cancelled" ELSE ctx[s]]
    /\ UNCHANGED <<jobVars, runVars, pc, at, result>>

\* The process exits with whatever is still in flight, and a new one starts.
Exit(w) ==
    /\ worker[w] = "draining"
    /\ DropSessions(w)
    /\ worker' = [worker EXCEPT ![w] = "up"]
    /\ UNCHANGED <<jobVars, runVars, budget>>

-----------------------------------------------------------------------------

Claim(s, j) ==
    \/ ClaimUnavailable(s, j) \/ ClaimSkip(s, j) \/ ClaimDefer(s, j) \/ ClaimReady(s, j)

\* The steps of a goroutine that bring it closer to its end; the loop over the
\* workflow's steps is bounded by the number of steps a run may execute.
Advance(s) ==
    \/ \E j \in Jobs : Claim(s, j)
    \/ StartFails(s) \/ SaveStarted(s) \/ ResolutionFails(s) \/ SetupFails(s)
    \/ Resolved(s)
    \/ \E res \in {"SUCCESS", "FAILED", "CANCELLED"} : EndLoop(s, res)
    \/ SaveLastStep(s) \/ SaveResult(s) \/ Complete(s)

JobStep(j) ==
    \/ Enqueue(j) \/ RequestCancel(j) \/ BecomeAvailable(j)
    \/ Expire(j) \/ ReclaimAbort(j) \/ ReclaimReplay(j)

SessionStep(s) ==
    \/ \E j \in Jobs : Dispatch(s, j) \/ ClaimFails(s, j)
    \/ Advance(s) \/ StepDone(s) \/ SaveStep(s) \/ WatchTick(s) \/ SaveFails(s) \/ CompleteFails(s)

WorkerStep(w) == Crash(w) \/ Shutdown(w) \/ Exit(w)

Next ==
    \/ \E j \in Jobs : JobStep(j)
    \/ \E s \in Sessions : SessionStep(s)
    \/ \E w \in Workers : WorkerStep(w)

Spec == Init /\ [][Next]_vars

(***************************************************************************)
(* Fairness.  Goroutines run, tickers tick and transactions end; an        *)
(* abandoned lease runs out; the poll orders by priority, which is the     *)
(* same for all jobs of a class, and available_at, so a job that is        *)
(* available again and again is eventually selected (SF).  Users, crashes, *)
(* stalls and database errors are under no obligation.                     *)
(***************************************************************************)
ExpireAbandoned(j) == ~Attended(j) /\ Expire(j)
Reclaim(j) == ReclaimAbort(j) \/ ReclaimReplay(j)

Fairness ==
    /\ \A j \in Jobs : /\ SF_vars(\E s \in Sessions : Dispatch(s, j))
                       /\ WF_vars(BecomeAvailable(j))
                       /\ WF_vars(ExpireAbandoned(j))
                       /\ WF_vars(Reclaim(j))
    /\ \A s \in Sessions : WF_vars(Advance(s)) /\ WF_vars(WatchTick(s))
    /\ \A w \in Workers : WF_vars(Exit(w))

FairSpec == Spec /\ Fairness

-----------------------------------------------------------------------------
(* Properties.                                                             *)

\* A lease owner and a lease expiry are recorded exactly while the job is
\* leased: complete matches a job by its owner alone and relies on this to
\* leave the jobs alone that others settled.
LeaseOwnerIffLeased ==
    \A j \in Jobs : /\ owner[j] # NoWorker <=> status[j] = "LEASED"
                    /\ lease[j] # "none" <=> status[j] = "LEASED"

\* "non-idempotent work was not replayed": a job that is not recovery-safe is
\* leased at most once and executed by at most one goroutine, through
\* crashes, stalls, lost answers and the reclaimer.
NonIdempotentNotReplayed ==
    \A j \in Jobs : Kind(j).recovery = "abort" =>
        /\ attempts[j] <= 1
        /\ \A s, t \in Sessions : Executes(s, j) /\ Executes(t, j) => s = t

\* Two jobs of one monitor whose policy forbids overlap are never leased at
\* the same time: the check and the lease are one transaction, under the
\* monitor's advisory lock.
OneLeasePerMonitor ==
    \A i, j \in Jobs :
        (/\ i # j /\ payload[i].monitor = payload[j].monitor
         /\ Kind(i).policy # "ALLOW" /\ Kind(j).policy # "ALLOW")
        => ~(status[i] = "LEASED" /\ status[j] = "LEASED")

\* The alert evaluation, the rollup and the current health count a run at
\* most once, however many goroutines save a terminal status for it.
TerminalEffectsOnce == \A j \in Jobs : Len(effects[j]) <= 1

\* A finished job that no goroutine works on has a run that reached an end:
\* a crash leaves no run behind that looks active.
NoRunLeftActive ==
    \A j \in Jobs :
        (status[j] \in JobTerminal /\ \A s \in Sessions : ~Executes(s, j))
        => runStatus[j] \in RunTerminal \cup {"SKIPPED"}

\* What the alerts, rollups and current health were told of a run that is not
\* replayed is what the run's row finally says.
EffectMatchesRun ==
    \A j \in Jobs :
        (/\ Kind(j).recovery = "abort"
         /\ runStatus[j] \in RunTerminal /\ effects[j] # <<>>)
        => effects[j] = <<runStatus[j]>>

\* The abstract kind of a job.
RecoverySafe(k) == k.recovery = "replay"
ForbidsOverlap(k) == k.policy # "ALLOW"
SkipsOverlap(k) == k.policy = "SKIP_IF_RUNNING"

Abstract == INSTANCE LeasedQueue WITH
    Replayable <- RecoverySafe,
    Exclusive <- ForbidsOverlap,
    Skippable <- SkipsOverlap,
    state <- status,
    kind <- [j \in Jobs |-> payload[j].kind],
    group <- [j \in Jobs |-> payload[j].monitor],
    starts <- attempts

\* The queue implements its abstract specification: whatever executors, the
\* reclaimer and users do to the rows is a submission, a start, an outcome, a
\* withdrawal, a drop or a permitted replay of one job.
ImplementsLeasedQueue == Abstract!Spec

\* An enqueued job reaches an outcome, unless it was put back on the queue
\* with a cancellation pending, where no poll selects it any more.
JobsSettle ==
    \A j \in Jobs :
        status[j] \in {"QUEUED", "LEASED"} ~>
            \/ status[j] \in JobTerminal
            \/ status[j] = "QUEUED" /\ cancel[j] = "requested"

\* "A worker crash should leave a run recoverable as ABORTED or WORKER_LOST":
\* every enqueued run comes to an end.
RunsEnd ==
    \A j \in Jobs :
        runStatus[j] = "QUEUED" ~> runStatus[j] \in RunTerminal \cup {"SKIPPED"}

\* "Execution was cancelled before it started": a run that says so does not
\* run afterwards.
CancelledNeverRuns ==
    [][\A j \in Jobs : runStatus[j] = "CANCELLED" => runStatus'[j] # "RUNNING"]_vars
=============================================================================
