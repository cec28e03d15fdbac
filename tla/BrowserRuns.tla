---------------------------- MODULE BrowserRuns -----------------------------
(***************************************************************************)
(* Runs of one browser monitor, from the request that queues them to the   *)
(* verdict the monitor and its alert are updated with                      *)
(* (internal/browsermonitors), composed with the browser agent that plays  *)
(* them.                                                                   *)
(*                                                                         *)
(* A SQL transaction or an autocommitted statement is one step, and so is  *)
(* the HTTP call; between them other executors, the reaper, the agent and  *)
(* the users move.  Abstracted: runtime values, baselines and sessions     *)
(* (preparing a run fails or not), timestamps (a lease is current or       *)
(* expired), events and metrics.                                           *)
(***************************************************************************)
EXTENDS BrowserAgent

CONSTANTS
    Workers,     \* capacity of jobSlots
    PurgeLimit,  \* how many objects one pass of the orphan purge lists
    MaxFaults,   \* bound: crashes, shutdowns, agent restarts and stalls
    MaxHistory   \* how many persisted results are remembered

ASSUME BrowserAssumption ==
    /\ Workers \in Nat \ {0} /\ PurgeLimit \in Nat \ {0} /\ MaxFaults \in Nat /\ MaxHistory \in Nat

VARIABLES
    run,         \* browser_runs.status
    job,         \* execution_jobs.status
    cancel,      \* execution_jobs.cancel_requested_at
    expired,     \* lease_expires_at is in the past
    attempts,    \* execution_jobs.attempt_count
    rows,        \* browser_artifacts: <<run, slot>> pairs
    overdue,     \* rows with expires_at in the past
    doubted,     \* history: rows whose INSERT committed and was answered by an error
    purging,     \* purgeExpiredArtifacts: the row whose object it has just deleted
    failures,    \* browser_monitors.consecutive_failures
    alert,       \* state of the alert of the monitor
    pc,          \* where the goroutine of processBrowserJob is
    stop,        \* why its context was cancelled
    error,       \* the error executeQueuedBrowserRun returned
    snapshot,    \* consecutive_failures as read with the monitor
    outcome,     \* result.Status, in memory
    store,       \* persistArtifacts: the payloads left, and persisted
    up,          \* the executor process is not shutting down
    faults,      \* faults so far
    history      \* statuses persisted with the monitor, latest last

rowVars == <<rows, overdue, doubted, purging>>
dbVars == <<run, job, cancel, expired, attempts, rowVars, failures, alert>>
sessionVars == <<pc, stop, error, snapshot, outcome, store>>
vars == <<agentVars, dbVars, sessionVars, up, faults, history>>

Active == {"QUEUED", "STARTING", "RUNNING", "ANALYZING"}
Failed == {"FAILED", "TIMED_OUT", "ABORTED"}
Good == {"SUCCESS", "SUCCESS_WITH_WARNINGS"}
Terminal == Good \cup Failed \cup {"CANCELLED"}
JobsOpen == {"QUEUED", "LEASED"}
Places == {"none", "claimed", "loaded", "preparing", "waiting", "storing", "persisting", "finishing"}

\* The context of a goroutine: cancelled by its watcher or by the shutdown.
Cancelled(r) == stop[r] # "no" \/ ~up

Goto(r, place) == pc' = [pc EXCEPT ![r] = place]

NoStore == [left |-> {}, kept |-> {}]

\* The goroutines of a set of runs are gone, and their local variables.
Forget(gone) ==
    /\ pc' = [r \in Runs |-> IF r \in gone THEN "none" ELSE pc[r]]
    /\ stop' = [r \in Runs |-> IF r \in gone THEN "no" ELSE stop[r]]
    /\ error' = [r \in Runs |-> IF r \in gone THEN FALSE ELSE error[r]]
    /\ snapshot' = [r \in Runs |-> IF r \in gone THEN 0 ELSE snapshot[r]]
    /\ outcome' = [r \in Runs |-> IF r \in gone THEN "none" ELSE outcome[r]]
    /\ store' = [r \in Runs |-> IF r \in gone THEN NoStore ELSE store[r]]
    /\ reply' = [r \in Runs |-> IF r \in gone THEN NoReply ELSE reply[r]]
    /\ call' = [r \in Runs |-> IF r \in gone THEN IF call[r] = "sent" THEN "dropped" ELSE "none"
                                ELSE call[r]]

BrowserInit ==
    /\ AgentInit
    /\ run = [r \in Runs |-> "none"] /\ job = [r \in Runs |-> "none"]
    /\ cancel = [r \in Runs |-> FALSE] /\ expired = [r \in Runs |-> FALSE]
    /\ attempts = [r \in Runs |-> 0]
    /\ rows = {} /\ overdue = {} /\ doubted = {} /\ purging = {} /\ store = [r \in Runs |-> NoStore]
    /\ failures = 0 /\ alert = "none"
    /\ pc = [r \in Runs |-> "none"] /\ stop = [r \in Runs |-> "no"]
    /\ error = [r \in Runs |-> FALSE] /\ snapshot = [r \in Runs |-> 0]
    /\ outcome = [r \in Runs |-> "none"]
    /\ up = TRUE /\ faults = 0 /\ history = <<>>

----------------------------------------------------------------------------
\* Requests.

StartRun(r) ==
    /\ run[r] = "none"
    /\ run' = [run EXCEPT ![r] = "QUEUED"]
    /\ job' = [job EXCEPT ![r] = "QUEUED"]
    /\ UNCHANGED <<agentVars, cancel, expired, attempts, rowVars, failures, alert, sessionVars, up, faults, history>>

\* CancelRun: a run that has not left QUEUED is cancelled on the spot, even
\* when an executor has already leased its job.
CancelRun(r) ==
    /\ run[r] \in Active
    /\ IF job[r] \in JobsOpen
       THEN /\ cancel' = [cancel EXCEPT ![r] = TRUE]
            /\ job' = [job EXCEPT ![r] = IF @ = "QUEUED" THEN "CANCELLED" ELSE @]
       ELSE UNCHANGED <<cancel, job>>
    /\ run' = [run EXCEPT ![r] = IF @ = "QUEUED" THEN "CANCELLED" ELSE @]
    /\ UNCHANGED <<agentVars, expired, attempts, rowVars, failures, alert, sessionVars, up, faults, history>>

----------------------------------------------------------------------------
\* The executor.

Claim(r) ==
    /\ up /\ pc[r] = "none" /\ job[r] = "QUEUED" /\ ~cancel[r]
    /\ Cardinality({q \in Runs : pc[q] # "none"}) < Workers
    /\ job' = [job EXCEPT ![r] = "LEASED"]
    /\ expired' = [expired EXCEPT ![r] = FALSE]
    /\ attempts' = [attempts EXCEPT ![r] = @ + 1]
    /\ Goto(r, "claimed")
    /\ UNCHANGED <<agentVars, run, cancel, rowVars, failures, alert, stop, error, snapshot, outcome, store, up, faults, history>>

\* executeQueuedBrowserRun reads the run, the monitor and the revision: what
\* it reads of the monitor is what the result will be judged against.
Load(r) ==
    /\ pc[r] = "claimed"
    /\ IF Cancelled(r)
       THEN /\ error' = [error EXCEPT ![r] = TRUE]
            /\ Goto(r, "finishing") /\ UNCHANGED snapshot
       ELSE /\ snapshot' = [snapshot EXCEPT ![r] = failures]
            /\ Goto(r, "loaded") /\ UNCHANGED error
    /\ UNCHANGED <<agentVars, dbVars, stop, outcome, store, up, faults, history>>

\* updateRunState writes with a context of its own and without a condition.
UpdateRunState(r, status) == run' = [run EXCEPT ![r] = status]

Begin(r) ==
    /\ pc[r] = "loaded"
    /\ UpdateRunState(r, "STARTING")
    /\ Goto(r, "preparing")
    /\ UNCHANGED <<agentVars, job, cancel, expired, attempts, rowVars, failures, alert, stop, error, snapshot,
                   outcome, store, up, faults, history>>

\* finishFailure: no condition either, and the monitor is not told.
FinishFailure(r, category) ==
    run' = [run EXCEPT ![r] = IF category = "CANCELLED" THEN "CANCELLED" ELSE "FAILED"]

\* Values, baselines, upload slots, session: any of them may fail, and all of
\* them fail under a cancelled context.
PrepareFails(r) ==
    /\ pc[r] = "preparing"
    /\ FinishFailure(r, "CONFIGURATION_ERROR")
    /\ Goto(r, "finishing")
    /\ UNCHANGED <<agentVars, job, cancel, expired, attempts, rowVars, failures, alert, stop, error, snapshot,
                   outcome, store, up, faults, history>>

Post(r) ==
    /\ pc[r] = "preparing" /\ ~Cancelled(r)
    /\ UpdateRunState(r, "RUNNING")
    /\ call' = [call EXCEPT ![r] = "sent"]
    /\ Goto(r, "waiting")
    /\ UNCHANGED <<phase, active, others, work, reply, objects, job, cancel, expired, attempts, rowVars, failures,
                   alert, stop, error, snapshot, outcome, store, up, faults, history>>

Slots(r) == {r} \X (1..SlotsPerRun)
\* Mutant: the cleanup deletes every slot.
CleanupUploadsAll(r, persisted) == objects' = objects \ Slots(r)

\* cleanupArtifactUploads deletes the slots that were not persisted, one after
\* the other; an object whose Delete fails, or that is uploaded late, stays.
CleanupUploads(r, persisted) ==
    \E gone \in SUBSET (objects \cap (Slots(r) \ persisted)) : objects' = objects \ gone

\* Mutant: the executor only logs that the agent did not answer.
AgentFailsSilently(r) ==
    /\ pc[r] = "waiting" /\ call[r] \in {"sent", "rejected"}
    /\ call' = [call EXCEPT ![r] = IF @ = "sent" THEN "dropped" ELSE @]
    /\ CleanupUploads(r, {})
    /\ Goto(r, "finishing")
    /\ UNCHANGED <<phase, active, others, work, reply, run, job, cancel, expired, attempts, rowVars, failures,
                   alert, stop, error, snapshot, outcome, store, up, faults, history>>

\* Runner.Execute returns an error: a 429, a 422, a broken connection, the
\* two-minute timeout, or the context was cancelled.
AgentFails(r) ==
    /\ pc[r] = "waiting" /\ call[r] \in {"sent", "rejected"}
    /\ call' = [call EXCEPT ![r] = IF @ = "sent" THEN "dropped" ELSE @]
    /\ CleanupUploads(r, {})
    /\ FinishFailure(r, IF Cancelled(r) THEN "CANCELLED" ELSE "AGENT_LOST")
    /\ Goto(r, "finishing")
    /\ UNCHANGED <<phase, active, others, work, reply, job, cancel, expired, attempts, rowVars, failures, alert,
                   stop, error, snapshot, outcome, store, up, faults, history>>

Announced(r) == {r} \X reply[r].artifacts

Receive(r) ==
    /\ pc[r] = "waiting" /\ call[r] = "answered"
    /\ UpdateRunState(r, "ANALYZING")
    /\ outcome' = [outcome EXCEPT ![r] = reply[r].status]
    /\ store' = [store EXCEPT ![r] = [left |-> Announced(r) \cap Slots(r), kept |-> {}]]
    /\ Goto(r, "storing")
    /\ UNCHANGED <<agentVars, job, cancel, expired, attempts, rowVars, failures, alert, stop, error, snapshot,
                   up, faults, history>>

\* persistArtifacts is called with a context of its own, and takes the payloads
\* one by one.  A payload whose object it does not find, or that is not what was
\* announced, is passed over; an INSERT that is answered by an error ends the
\* loop, whether or not it was committed.
Warned(status) == IF status = "SUCCESS" THEN "SUCCESS_WITH_WARNINGS" ELSE status
StoreArtifact(r) ==
    /\ pc[r] = "storing"
    /\ \E a \in store[r].left :
         \/ /\ store' = [store EXCEPT ![r] = [left |-> @.left \ {a}, kept |-> @.kept]]
            /\ UNCHANGED <<rows, doubted, outcome>>
         \/ /\ a \in objects /\ rows' = rows \cup {a}
            /\ store' = [store EXCEPT ![r] = [left |-> @.left \ {a}, kept |-> @.kept \cup {a}]]
            /\ UNCHANGED <<doubted, outcome>>
         \/ /\ a \in objects
            /\ \/ UNCHANGED <<rows, doubted>>
               \/ rows' = rows \cup {a} /\ doubted' = doubted \cup {a}
            /\ store' = [store EXCEPT ![r] = [left |-> {}, kept |-> @.kept]]
            /\ outcome' = [outcome EXCEPT ![r] = Warned(@)]
    /\ UNCHANGED <<agentVars, run, job, cancel, expired, attempts, overdue, purging, failures, alert, pc, stop,
                   error, snapshot, up, faults, history>>

\* Mutant: the upload failures the agent counted are ignored.
EndStoreTrusting(r) ==
    /\ pc[r] = "storing" /\ store[r].left = {}
    /\ CleanupUploads(r, store[r].kept)
    /\ Goto(r, "persisting")
    /\ UNCHANGED <<call, phase, active, others, work, reply, dbVars, stop, error, snapshot, outcome, store, up,
                   faults, history>>

\* The deferred cleanup of persistArtifacts, and the warning for what was not
\* uploaded or not stored.
EndStore(r) ==
    /\ pc[r] = "storing" /\ store[r].left = {}
    /\ CleanupUploads(r, store[r].kept)
    /\ outcome' = [outcome EXCEPT ![r] = IF reply[r].uploadFailures > 0 THEN Warned(@) ELSE @]
    /\ Goto(r, "persisting")
    /\ UNCHANGED <<call, phase, active, others, work, reply, dbVars, stop, error, snapshot, store, up, faults,
                   history>>

\* updateBrowserAlert, inside the transaction of persistResult.
AlertAfter(status, count) ==
    IF status \in Good THEN IF alert = "OPEN" THEN "RESOLVED" ELSE alert
    ELSE IF status \in Failed /\ count >= 2 THEN "OPEN" ELSE alert

\* persistResult: no condition on the run, and the count is computed from the
\* monitor as it was when the run began.
PersistResult(r) ==
    /\ pc[r] = "persisting"
    /\ LET count == IF outcome[r] \in Failed THEN snapshot[r] + 1 ELSE 0
       IN /\ failures' = count
          /\ alert' = AlertAfter(outcome[r], count)
    /\ run' = [run EXCEPT ![r] = outcome[r]]
    /\ history' = IF Len(history) < MaxHistory THEN Append(history, outcome[r])
                  ELSE Append(Tail(history), outcome[r])
    /\ Goto(r, "finishing")
    /\ UNCHANGED <<agentVars, job, cancel, expired, attempts, rowVars, stop, error, snapshot, outcome, store, up, faults>>

PersistFails(r) ==
    /\ pc[r] = "persisting"
    /\ FinishFailure(r, "WORKER_LOST")
    /\ Goto(r, "finishing")
    /\ UNCHANGED <<agentVars, job, cancel, expired, attempts, rowVars, failures, alert, stop, error, snapshot,
                   outcome, store, up, faults, history>>

\* completeBrowserJob changes the job while it is leased by this worker; the
\* run of a failed execution is failed in any case.  After a shutdown the
\* goroutine returns without it.
Complete(r) ==
    /\ pc[r] = "finishing"
    /\ Forget({r})
    /\ IF ~up THEN UNCHANGED <<run, job>>
       ELSE /\ job' = [job EXCEPT ![r] =
                    IF @ # "LEASED" THEN @
                    ELSE IF stop[r] = "requested" THEN "CANCELLED"
                    ELSE IF error[r] THEN "FAILED" ELSE "SUCCEEDED"]
            /\ IF error[r] /\ stop[r] # "requested" THEN FinishFailure(r, "WORKER_LOST")
               ELSE UNCHANGED run
    /\ UNCHANGED <<phase, active, others, work, objects, cancel, expired, attempts, rowVars, failures, alert, up, faults,
                   history>>

\* watchBrowserJob: renews the lease, and cancels the context when the job was
\* taken away or its cancellation requested.
Watch(r) ==
    /\ pc[r] # "none" /\ pc[r] # "finishing" /\ ~Cancelled(r)
    /\ job[r] # "LEASED" \/ cancel[r] \/ expired[r]
    /\ stop' = [stop EXCEPT ![r] = IF job[r] # "LEASED" THEN "lost"
                                   ELSE IF cancel[r] THEN "requested" ELSE @]
    /\ expired' = [expired EXCEPT ![r] = @ /\ job[r] # "LEASED"]
    /\ UNCHANGED <<agentVars, run, job, cancel, attempts, rowVars, failures, alert, pc, error, snapshot, outcome,
                   store, up, faults, history>>

----------------------------------------------------------------------------
\* Time, the reaper and the artifact purge.

\* A lease runs out when nobody renews it: its executor is gone, or (a fault)
\* stalls for as long as the lease lasts.
LeaseExpires(r) ==
    /\ job[r] = "LEASED" /\ ~expired[r]
    /\ \/ pc[r] = "none" /\ UNCHANGED faults
       \/ pc[r] # "none" /\ faults < MaxFaults /\ faults' = faults + 1
    /\ expired' = [expired EXCEPT ![r] = TRUE]
    /\ UNCHANGED <<agentVars, run, job, cancel, attempts, rowVars, failures, alert, sessionVars, up, history>>

\* Mutant: the reaper fails the job and forgets the run.
ReapJobOnly(r) ==
    /\ job[r] = "LEASED" /\ expired[r]
    /\ job' = [job EXCEPT ![r] = "FAILED"]
    /\ UNCHANGED <<agentVars, run, cancel, expired, attempts, rowVars, failures, alert, sessionVars, up, faults,
                   history>>

Reap(r) ==
    /\ job[r] = "LEASED" /\ expired[r]
    /\ job' = [job EXCEPT ![r] = "FAILED"]
    /\ run' = [run EXCEPT ![r] = IF @ \in Active THEN "ABORTED" ELSE @]
    /\ UNCHANGED <<agentVars, cancel, expired, attempts, rowVars, failures, alert, sessionVars, up, faults, history>>

\* Objects older than 30 minutes: no run lasts that long.
Old == {a \in objects : pc[a[1]] = "none" /\ phase[a[1]] = "idle" /\ job[a[1]] \notin JobsOpen}

\* A pass lists old objects up to its limit, in the order of their keys, and then
\* looks which of them have rows.  Keys are random.
PurgeListed(listed) ==
    /\ Cardinality(listed) = IF Cardinality(Old) < PurgeLimit THEN Cardinality(Old) ELSE PurgeLimit
    /\ listed \ rows # {}
    /\ objects' = objects \ (listed \ rows)
    /\ UNCHANGED <<call, phase, active, others, work, reply, dbVars, sessionVars, up, faults, history>>

\* Mutant: only the runs that failed are looked at.
PurgeOrphansOfFailed == \E listed \in SUBSET {a \in Old : run[a[1]] \in Failed} : PurgeListed(listed)

PurgeOrphans == \E listed \in SUBSET Old : PurgeListed(listed)

\* The evidence of a run expires together, an hour after it was stored at the
\* earliest.
Expire(r) ==
    /\ pc[r] = "none" /\ phase[r] = "idle" /\ job[r] \notin JobsOpen
    /\ ~(rows \cap Slots(r) \subseteq overdue)
    /\ overdue' = overdue \cup (rows \cap Slots(r))
    /\ UNCHANGED <<agentVars, run, job, cancel, expired, attempts, rows, doubted, purging, failures, alert,
                   sessionVars, up, faults, history>>

\* purgeExpiredArtifacts deletes an object and then its row; it is stopped, or
\* the DELETE fails, in between.
PurgeExpired ==
    /\ purging = {}
    /\ \E a \in overdue : objects' = objects \ {a} /\ purging' = {a}
    /\ UNCHANGED <<call, phase, active, others, work, reply, run, job, cancel, expired, attempts, rows, overdue,
                   doubted, failures, alert, sessionVars, up, faults, history>>
DeleteExpiredRow ==
    /\ purging # {} /\ purging' = {}
    /\ \/ UNCHANGED <<rows, overdue>>
       \/ rows' = rows \ purging /\ overdue' = overdue \ purging
    /\ UNCHANGED <<agentVars, run, job, cancel, expired, attempts, doubted, failures, alert, sessionVars, up,
                   faults, history>>

----------------------------------------------------------------------------
\* Faults.

Crash ==
    /\ faults < MaxFaults /\ faults' = faults + 1
    /\ \E r \in Runs : pc[r] # "none"
    /\ Forget(Runs)
    /\ UNCHANGED <<phase, active, others, work, objects, dbVars, up, history>>

Shutdown ==
    /\ up /\ faults < MaxFaults /\ faults' = faults + 1
    /\ \E r \in Runs : pc[r] # "none"
    /\ up' = FALSE
    /\ UNCHANGED <<agentVars, dbVars, sessionVars, history>>

Restart ==
    /\ ~up /\ \A r \in Runs : pc[r] = "none"
    /\ up' = TRUE
    /\ UNCHANGED <<agentVars, dbVars, sessionVars, faults, history>>

RestartAgent ==
    /\ faults < MaxFaults /\ faults' = faults + 1
    /\ active > 0
    /\ AgentRestart
    /\ UNCHANGED <<dbVars, sessionVars, up, history>>

Execute(r) ==
    \/ Load(r) \/ Begin(r) \/ PrepareFails(r) \/ Post(r) \/ AgentFails(r) \/ Receive(r)
    \/ StoreArtifact(r) \/ EndStore(r) \/ PersistResult(r) \/ PersistFails(r) \/ Complete(r)

Agent(r) == AgentStep(r) /\ UNCHANGED <<dbVars, sessionVars, up, faults, history>>

Next ==
    \/ \E r \in Runs :
          \/ StartRun(r) \/ CancelRun(r) \/ Claim(r) \/ Execute(r) \/ Watch(r)
          \/ Agent(r) \/ LeaseExpires(r) \/ Reap(r) \/ Expire(r)
    \/ (AdmitOther \/ LeaveOther) /\ UNCHANGED <<dbVars, sessionVars, up, faults, history>>
    \/ PurgeOrphans \/ PurgeExpired \/ DeleteExpiredRow
    \/ Crash \/ Shutdown \/ Restart \/ RestartAgent

Spec == BrowserInit /\ [][Next]_vars

Fairness ==
    /\ \A r \in Runs :
          /\ WF_vars(Claim(r)) /\ WF_vars(Execute(r)) /\ WF_vars(Watch(r)) /\ WF_vars(Agent(r))
          /\ WF_vars(pc[r] = "none" /\ LeaseExpires(r)) /\ WF_vars(Reap(r))
    \* A pass is sure to find an orphan when fewer objects than it lists have rows.
    /\ WF_vars(Cardinality(Old \cap rows) < PurgeLimit /\ PurgeOrphans)
    /\ WF_vars(Restart)

FairSpec == Spec /\ Fairness

----------------------------------------------------------------------------
\* Type invariant of both components.
TypeOK ==
    /\ call \in [Runs -> CallStates] /\ phase \in [Runs -> Phases] /\ active \in Nat /\ others \in Nat
    /\ objects \subseteq Runs \X Nat /\ rows \subseteq Runs \X Nat
    /\ overdue \subseteq rows /\ doubted \subseteq Runs \X Nat /\ purging \subseteq overdue
    /\ store \in [Runs -> [left : SUBSET (Runs \X Nat), kept : SUBSET (Runs \X Nat)]]
    /\ run \in [Runs -> Active \cup Terminal \cup {"none"}]
    /\ job \in [Runs -> JobsOpen \cup {"none", "SUCCEEDED", "FAILED", "CANCELLED"}]
    /\ cancel \in [Runs -> BOOLEAN] /\ expired \in [Runs -> BOOLEAN] /\ attempts \in [Runs -> Nat]
    /\ failures \in Nat /\ alert \in {"none", "OPEN", "RESOLVED"}
    /\ pc \in [Runs -> Places] /\ stop \in [Runs -> {"no", "requested", "lost"}]
    /\ error \in [Runs -> BOOLEAN] /\ snapshot \in [Runs -> Nat]
    /\ outcome \in [Runs -> Good \cup {"FAILED", "none"}]
    /\ up \in BOOLEAN /\ faults \in 0..MaxFaults

\* Every artifact row names an object that is in the store until it expires: neither
\* the cleanup of a run, nor a late upload, nor the purge of orphans takes the object of
\* a row away.  Excepted are the rows whose INSERT was committed and answered by an
\* error, which the cleanup does not know of (service.go:1123-1246, 1885-1937).
ArtifactsBacked == rows \ (overdue \cup doubted) \subseteq objects

\* A run becomes SUCCESS only when the agent said so of that very execution and none of
\* its uploads failed; and a run that has ended is begun or ended anew only by the
\* execution that its cancellation or the reaper has overtaken, never by another one and
\* never without one of the two (execute, completeBrowserJob: their updates have no
\* condition).
SuccessIsTheAgents ==
    [][\A r \in Runs :
        /\ run'[r] = "SUCCESS" /\ run[r] # "SUCCESS" => reply[r].status = "SUCCESS" /\ reply[r].uploadFailures = 0
        /\ run[r] \in Terminal /\ run'[r] # run[r] => pc[r] # "none" /\ (cancel[r] \/ job[r] # "LEASED")]_vars

\* Every run that was started ends, through one crash, shutdown, restart of
\* the agent or stalled lease.
RunsEnd == \A r \in Runs : run[r] \in Active ~> run[r] \in Terminal

\* Uploads that no row names do not stay in the store, also those an agent makes for a
\* run that was cancelled meanwhile, unless the objects that have rows fill the listing
\* of the purge (service.go:1909-1937, artifacts.go:135-160).
OrphansPurged == []<>(objects \subseteq rows \/ Cardinality(objects \cap rows) >= PurgeLimit)

\* "Scheduled browser monitors default to two consecutive failures"
\* (service.go:1069): when the last two results are failures the alert is open.
TwoFailuresAlert ==
    Len(history) >= 2 /\ history[Len(history)] \in Failed /\ history[Len(history) - 1] \in Failed
        => alert = "OPEN"

----------------------------------------------------------------------------
(* The jobs of browser runs, as jobs of the durable queue: they are never  *)
(* put back, and do not wait for each other.                               *)
Never(k) == FALSE
Queue == INSTANCE LeasedQueue WITH
    Jobs <- Runs,
    Replayable <- Never,
    Exclusive <- Never,
    Skippable <- Never,
    state <- [r \in Runs |-> IF job[r] = "none" THEN "NONE" ELSE job[r]],
    kind <- [r \in Runs |-> "BROWSER_MONITOR_RUN"],
    group <- [r \in Runs |-> "none"],
    starts <- attempts

\* Executors, those whose lease has expired among them, the reaper and the users move a
\* job as the queue promises: a run is handed to the agent by one execution at most, and
\* comes to one outcome (browsermonitors/service.go claimBrowserJob, completeBrowserJob,
\* reapExpiredBrowserJobs).
JobsAreLeasedOnce == Queue!Spec
=============================================================================
